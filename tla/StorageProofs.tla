----------------------------- MODULE StorageProofs -----------------------------
(***************************************************************************)
(* Proofs about what the node stores: the cache over one table, of which   *)
(* it is shown first that it implements KVStore for every set of keys and  *)
(* records, and then the tables and the data files under crashes.          *)
(*                                                                         *)
(* Proofs about NodeStorage, for every set of microblocks and every bound, *)
(* wherever the node is killed: the data files cover the tables and only   *)
(* grow, the places of the microblocks never overlap, and, as long as no   *)
(* batch is lost, no block is missing.  As long as no commit is cut short, *)
(* every place holds its microblock.                                       *)
(*                                                                         *)
(* A block works on cached tables that the batch writes as a whole, so the *)
(* invariants say of NewPlaces and NewSizes, the tables as the batch would *)
(* leave them, what they say of the committed ones.                        *)
(*                                                                         *)
(* The second half: the tables are those of the recorded blocks, executed  *)
(* once and in order, and the storage challenge reads the same bytes on    *)
(* every node, as long as no commit is cut short.                          *)
(***************************************************************************)
EXTENDS CachedDb, NodeStorage, FoldTheorems

------------------------------------------------------------------------------
(* The cache over a table *)

\* Each cache method keeps the cache well formed and unambiguous.
CacheOK(c) ==
  /\ c \in Caches
  /\ \A k \in Keys : c.ins[k] # Missing => k \notin c.del

LEMMA EmptyCacheOK == CacheOK(EmptyCache(Keys))
BY DEF CacheOK, Caches, EmptyCache

LEMMA PutRawOK ==
  ASSUME NEW c, CacheOK(c), NEW k \in Keys, NEW v \in Values
  PROVE  CacheOK(PutRaw(c, k, v))
BY DEF CacheOK, Caches, PutRaw

LEMMA DelRawOK ==
  ASSUME NEW c, CacheOK(c), NEW k \in Keys
  PROVE  CacheOK(DelRaw(c, k))
BY DEF CacheOK, Caches, DelRaw

LEMMA BatchWriteType ==
  ASSUME NEW t \in [Keys -> Values \cup {Missing}], NEW c \in Caches
  PROVE  BatchWrite(t, c) \in [Keys -> Values \cup {Missing}]
BY DEF BatchWrite, Caches

------------------------------------------------------------------------------
\* The cache stays well formed and no key is both put and deleted in it, so that the
\* order in which commit() batches insertions and deletions cannot matter.
THEOREM CacheIsConsistent == CachedSpec => []CacheConsistent
<1>1. CachedInit => CacheConsistent
  BY EmptyCacheOK DEF CachedInit, CacheConsistent, CachedTypeOK, CacheOK
<1>2. CacheConsistent /\ [CachedNext]_cachedVars => CacheConsistent'
  <2> SUFFICES ASSUME CacheConsistent, [CachedNext]_cachedVars PROVE CacheConsistent'
    OBVIOUS
  <2>0. table \in [Keys -> Values \cup {Missing}] /\ CacheOK(cache)
    BY DEF CacheConsistent, CachedTypeOK, CacheOK
  <2>1. CASE \E k \in Keys, v \in Values : Put(k, v)
    BY <2>0, <2>1, PutRawOK DEF Put, CacheConsistent, CachedTypeOK, CacheOK
  <2>2. CASE \E k \in Keys : Del(k)
    BY <2>0, <2>2, DelRawOK DEF Del, CacheConsistent, CachedTypeOK, CacheOK
  <2>3. CASE ResetCache
    BY <2>0, <2>3, EmptyCacheOK DEF ResetCache, CacheConsistent, CachedTypeOK, CacheOK
  <2>4. CASE Commit
    BY <2>0, <2>4, EmptyCacheOK, BatchWriteType
       DEF Commit, CacheConsistent, CachedTypeOK, CacheOK
  <2>5. CASE CommitLost
    BY <2>0, <2>5, EmptyCacheOK DEF CommitLost, CacheConsistent, CachedTypeOK, CacheOK
  <2>6. CASE UNCHANGED cachedVars
    BY <2>0, <2>6 DEF cachedVars, CacheConsistent, CachedTypeOK, CacheOK
  <2>7. QED
    BY <2>1, <2>2, <2>3, <2>4, <2>5, <2>6 DEF CachedNext
<1>3. QED
  BY <1>1, <1>2, PTL DEF CachedSpec

\* What getKeys() lists is what getFullTable() returns, and a listed key read with
\* getRaw() gives the row of getFullTable().
THEOREM KeysAgreeWithRows == CachedSpec => []KeysAndRowsAgree
<1>1. CacheConsistent => KeysAndRowsAgree
  BY DEF CacheConsistent, CachedTypeOK, Caches, KeysAndRowsAgree, GetKeys, FullTable, GetRaw
<1>2. QED
  BY <1>1, CacheIsConsistent, PTL

\* getRaw() and getFullTable() can only disagree on a key deleted since the last
\* commit, and then getRaw() returns the committed row.
THEOREM LookupsDifferOnlyOnDeleted == CachedSpec => []LookupDiffersOnlyOnDeleted
<1>1. CacheConsistent => LookupDiffersOnlyOnDeleted
  BY DEF CacheConsistent, CachedTypeOK, Caches, LookupDiffersOnlyOnDeleted, FullTable, GetRaw
<1>2. QED
  BY <1>1, CacheIsConsistent, PTL

------------------------------------------------------------------------------
LEMMA FullTableOfEmptyCache ==
  ASSUME NEW t \in [Keys -> Values \cup {Missing}]
  PROVE  FullTable(t, EmptyCache(Keys)) = t
BY DEF FullTable, EmptyCache

LEMMA FullTableAfterPut ==
  ASSUME NEW t \in [Keys -> Values \cup {Missing}], NEW c \in Caches,
         NEW k \in Keys, NEW v \in Values
  PROVE  FullTable(t, PutRaw(c, k, v)) = [FullTable(t, c) EXCEPT ![k] = v]
BY MissingAssumption DEF FullTable, PutRaw, Caches

LEMMA FullTableAfterDel ==
  ASSUME NEW t \in [Keys -> Values \cup {Missing}], NEW c \in Caches, NEW k \in Keys
  PROVE  FullTable(t, DelRaw(c, k)) = [FullTable(t, c) EXCEPT ![k] = Missing]
BY DEF FullTable, DelRaw, Caches

\* One batch publishes exactly the table that getFullTable() showed: needs that no key
\* is both inserted and deleted.
LEMMA BatchPublishesFullTable ==
  ASSUME NEW t \in [Keys -> Values \cup {Missing}], NEW c, CacheOK(c)
  PROVE  BatchWrite(t, c) = FullTable(t, c)
BY DEF BatchWrite, FullTable, CacheOK, Caches

\* The cached table implements the store with a working copy and an all-or-nothing
\* publication; a refused batch is a discarded working copy.
THEOREM CachedDbImplementsStore == CachedSpec => ImplementsStore
<1> DEFINE Full == FullTable(table, cache)
<1>1. CachedInit => Store!KVInit
  BY FullTableOfEmptyCache DEF CachedInit, Store!KVInit
<1>2. CacheConsistent /\ [CachedNext]_cachedVars => [Store!KVNext]_(Store!kvVars)
  <2> SUFFICES ASSUME CacheConsistent, [CachedNext]_cachedVars
               PROVE  [Store!KVNext]_(Store!kvVars)
    OBVIOUS
  <2>0. table \in [Keys -> Values \cup {Missing}] /\ CacheOK(cache) /\ cache \in Caches
    BY DEF CacheConsistent, CachedTypeOK, CacheOK
  <2>1. ASSUME NEW k \in Keys, NEW v \in Values, Put(k, v)
        PROVE  Store!Write(k, v)
    BY <2>0, <2>1, FullTableAfterPut DEF Put, Store!Write
  <2>2. ASSUME NEW k \in Keys, Del(k)
        PROVE  Store!Write(k, Missing)
    BY <2>0, <2>2, FullTableAfterDel DEF Del, Store!Write
  <2>3. CASE ResetCache
    BY <2>0, <2>3, FullTableOfEmptyCache DEF ResetCache, Store!Discard, Store!KVNext
  <2>4. CASE Commit
    <3>1. table' = Full
      BY <2>0, <2>4, BatchPublishesFullTable DEF Commit
    <3>2. table' \in [Keys -> Values \cup {Missing}]
      BY <2>0, <2>4, BatchWriteType DEF Commit
    <3>3. Full' = table'
      BY <2>4, <3>2, FullTableOfEmptyCache DEF Commit
    <3>4. QED
      BY <3>1, <3>3 DEF Store!Publish, Store!KVNext
  <2>5. CASE CommitLost
    BY <2>0, <2>5, FullTableOfEmptyCache DEF CommitLost, Store!Discard, Store!KVNext
  <2>6. CASE UNCHANGED cachedVars
    BY <2>6 DEF cachedVars, Store!kvVars
  <2>7. QED
    BY <2>1, <2>2, <2>3, <2>4, <2>5, <2>6 DEF CachedNext, Store!KVNext
<1>3. QED
  BY <1>1, <1>2, CacheIsConsistent, PTL DEF CachedSpec, ImplementsStore, Store!KVSpec
------------------------------------------------------------------------------
(* The tables and the data files *)

USE DEF Files, Phases

------------------------------------------------------------------------------
(* Lemmas about the operators *)

LEMMA ContentType ==
  ASSUME NEW m \in Microblocks
  PROVE  Content(m) \in Seq(Bytes) /\ Len(Content(m)) = SizeOf[m]
<1>1. SizeOf[m] \in Nat /\ SizeOf[m] # 0
  BY StorageAssumption
<1>2. Content(m) \in [1..SizeOf[m] -> Bytes]
  BY DEF Content, Bytes
<1>3. QED
  BY <1>1, <1>2

LEMMA CacheTypes ==
  /\ EmptyCache(Files) \in FileCaches
  /\ EmptyCache(Microblocks) \in PlaceCaches
  /\ \A S \in SUBSET Files : DelAll(EmptyCache(Files), S) \in FileCaches
  /\ \A t \in FileTables, c \in FileCaches : BatchWrite(t, c) \in FileTables
  /\ \A t \in PlaceTables, c \in PlaceCaches : BatchWrite(t, c) \in PlaceTables
  /\ \A c \in FileCaches, f \in Files, n \in Nat : PutRaw(c, f, n) \in FileCaches
  /\ \A c \in PlaceCaches, m \in Microblocks, p \in Locations :
       PutRaw(c, m, p) \in PlaceCaches
BY DEF EmptyCache, DelAll, BatchWrite, PutRaw, FileTables, FileCaches, PlaceTables,
       PlaceCaches

LEMMA RecordedSizeType ==
  ASSUME dataFile \in FileTables, wDataFile \in FileCaches, NEW f \in Files
  PROVE  RecordedSize(f) \in Nat
BY DEF RecordedSize, GetRaw, FileTables, FileCaches

LEMMA DayOfType ==
  ASSUME NEW t \in Nat
  PROVE  DayOf(t) \in Nat /\ DayOf(t) <= t
<1>1. t % DayLength \in 0..(DayLength - 1)
  BY StorageAssumption
<1>2. t % DayLength <= t
  BY <1>1, StorageAssumption
<1>3. QED
  BY <1>1, <1>2 DEF DayOf

------------------------------------------------------------------------------
(* Type correctness *)

LEMMA TypeOfInit == Init => TypeOK
<1> SUFFICES ASSUME Init PROVE TypeOK
  OBVIOUS
<1>1. /\ disk \in [Files -> Seq(Bytes)]
      /\ buffer \in [Files -> Seq(Bytes)]
      /\ chain \in Seq(Blocks)
  BY DEF Init
<1>2. dataFile \in FileTables /\ mbStorage \in PlaceTables
  BY DEF Init, FileTables, PlaceTables
<1>3. wDataFile \in FileCaches /\ wStorage \in PlaceCaches
  BY CacheTypes DEF Init
<1>4. QED
  BY <1>1, <1>2, <1>3 DEF Init, TypeOK

LEMMA DecideType ==
  ASSUME TypeOK, NEW t \in GenesisTime..MaxTime, NEW txs \in SeqOf(Microblocks, MaxTxs),
         Decide(t, txs)
  PROVE  TypeOK'
<1>1. txs \in Seq(Microblocks)
  BY DEF SeqOf
<1>2. t \in Nat
  BY StorageAssumption
<1>3. [time |-> t, txs |-> txs] \in Blocks
  BY <1>1, <1>2 DEF Blocks
<1>4. chain' \in Seq(Blocks)
  BY <1>3 DEF Decide, TypeOK
<1>5. QED
  BY <1>4 DEF Decide, TypeOK, diskVars, memoryVars

LEMMA BlockOfChain ==
  ASSUME TypeOK, NextHeight <= Len(chain)
  PROVE  /\ NextHeight \in DOMAIN chain
         /\ chain[NextHeight] \in Blocks
         /\ TimeOf(NextHeight) \in Nat
<1>1. NextHeight \in 1..Len(chain)
  BY DEF TypeOK, NextHeight
<1>2. chain[NextHeight] \in Blocks
  BY <1>1 DEF TypeOK
<1>3. QED
  BY <1>1, <1>2 DEF TypeOK, Blocks, TimeOf, NextHeight

LEMMA BeginBlockType == TypeOK /\ BeginBlock => TypeOK'
<1> SUFFICES ASSUME TypeOK, BeginBlock PROVE TypeOK'
  OBVIOUS
<1>1. DayOf(TimeOf(NextHeight)) \in Nat
  BY BlockOfChain, DayOfType DEF BeginBlock
<1>2. newDay' \in Nat
  BY <1>1 DEF BeginBlock, TypeOK
<1>3. wDataFile' \in FileCaches
  BY CacheTypes DEF BeginBlock
<1>4. wStorage' \in PlaceCaches
  BY CacheTypes DEF BeginBlock
<1>5. QED
  BY <1>2, <1>3, <1>4
     DEF BeginBlock, TypeOK, diskVars, FileCaches, FileTables, PlaceCaches, PlaceTables

LEMMA AddMicroblockType ==
  ASSUME TypeOK, NEW m \in Microblocks, AddMicroblockToBuffer(m)
  PROVE  /\ wDataFile' \in FileCaches
         /\ wStorage' \in PlaceCaches
         /\ buffer' \in [Files -> Seq(Bytes)]
         /\ expected' \in [Files -> Nat]
         /\ mbCache' \in SUBSET Microblocks
<1> DEFINE f == FileOf[m]
           size == RecordedSize(f)
<1>0. f \in Files /\ SizeOf[m] \in Nat
  BY StorageAssumption
<1>1. size \in Nat
  BY <1>0, RecordedSizeType DEF TypeOK, FileTables, FileCaches
<1>2. wDataFile' \in FileCaches
  <2>1. size + SizeOf[m] \in Nat
    BY <1>0, <1>1
  <2>2. wDataFile \in FileCaches
    BY DEF TypeOK, FileTables, FileCaches
  <2>3. QED
    BY <1>0, <2>1, <2>2, CacheTypes DEF AddMicroblockToBuffer
<1>3. wStorage' \in PlaceCaches
  <2>1. Place(m, size) \in Locations
    BY <1>0, <1>1 DEF Place, Locations
  <2>2. wStorage \in PlaceCaches
    BY DEF TypeOK, PlaceTables, PlaceCaches
  <2>3. QED
    BY <2>1, <2>2, CacheTypes DEF AddMicroblockToBuffer
<1>4. buffer' \in [Files -> Seq(Bytes)]
  BY <1>0, ContentType DEF AddMicroblockToBuffer, TypeOK
<1>5. expected' \in [Files -> Nat]
  BY <1>0, <1>1 DEF AddMicroblockToBuffer, TypeOK
<1>6. QED
  BY <1>2, <1>3, <1>4, <1>5 DEF AddMicroblockToBuffer, TypeOK

\* The transaction that ExecTx takes is a microblock.
LEMMA TxIsMicroblock ==
  ASSUME TypeOK, NextHeight <= Len(chain), txIndex <= Len(chain[NextHeight].txs)
  PROVE  chain[NextHeight].txs[txIndex] \in Microblocks
BY BlockOfChain DEF TypeOK, Blocks

\* Executing a block implies that there is a block to execute.
ExecutingABlock == pc \in Phases \ {"idle", "down"} => NextHeight <= Len(chain)

LEMMA ExecTxType == TypeOK /\ ExecutingABlock /\ ExecTx => TypeOK'
<1> SUFFICES ASSUME TypeOK, ExecutingABlock, ExecTx PROVE TypeOK'
  OBVIOUS
<1> DEFINE m == chain[NextHeight].txs[txIndex]
<1>1. m \in Microblocks
  BY TxIsMicroblock DEF ExecTx, ExecutingABlock
<1>2. /\ wDataFile' \in FileCaches
      /\ wStorage' \in PlaceCaches
      /\ buffer' \in [Files -> Seq(Bytes)]
      /\ expected' \in [Files -> Nat]
      /\ mbCache' \in SUBSET Microblocks
  <2>1. CASE Acceptable(m, TimeOf(NextHeight))
    BY <1>1, <2>1, AddMicroblockType DEF ExecTx
  <2>2. CASE ~Acceptable(m, TimeOf(NextHeight))
    BY <2>2 DEF ExecTx, TypeOK, FileTables, FileCaches, PlaceTables, PlaceCaches
  <2>3. QED
    BY <2>1, <2>2
<1>3. QED
  BY <1>2 DEF ExecTx, TypeOK, diskVars, FileCaches, FileTables, PlaceCaches, PlaceTables

LEMMA FlushFileType == ASSUME NEW f \in Files, TypeOK, FlushFile(f) PROVE TypeOK'
<1>1. Appended(f) \in Seq(Bytes)
  BY DEF Appended, TypeOK
<1>2. disk' \in [Files -> Seq(Bytes)]
  BY <1>1 DEF FlushFile, TypeOK
<1>3. buffer' \in [Files -> Seq(Bytes)]
  BY DEF FlushFile, TypeOK
<1>4. QED
  BY <1>2, <1>3 DEF FlushFile, TypeOK

LEMMA FlushDoneType == TypeOK /\ FlushDone => TypeOK'
<1> SUFFICES ASSUME TypeOK, FlushDone PROVE TypeOK'
  OBVIOUS
<1>1. buffer' \in [Files -> Seq(Bytes)]
  BY DEF FlushDone
<1>2. QED
  BY <1>1 DEF FlushDone, TypeOK, diskVars

LEMMA WriteBatchType == TypeOK /\ (WriteBatch \/ LoseBatch) => TypeOK'
<1> SUFFICES ASSUME TypeOK, WriteBatch \/ LoseBatch PROVE TypeOK'
  OBVIOUS
<1>1. /\ dataFile' \in FileTables
      /\ mbStorage' \in PlaceTables
      /\ dbBlocks' \in SUBSET Nat
  <2>1. CASE WriteBatch
    <3>1. dbBlocks' \in SUBSET Nat
      BY <2>1 DEF WriteBatch, TypeOK, NextHeight
    <3>2. QED
      BY <2>1, <3>1, CacheTypes DEF WriteBatch, TypeOK
  <2>2. CASE LoseBatch
    BY <2>2 DEF LoseBatch, TypeOK, diskVars
  <2>3. QED
    BY <2>1, <2>2
<1>2. wDataFile' \in FileCaches /\ wStorage' \in PlaceCaches
  BY CacheTypes DEF WriteBatch, LoseBatch
<1>3. QED
  BY <1>1, <1>2 DEF WriteBatch, LoseBatch, TypeOK, diskVars

LEMMA CleanUpType == TypeOK /\ CleanUp => TypeOK'
<1> SUFFICES ASSUME TypeOK, CleanUp PROVE TypeOK'
  OBVIOUS
<1>1. disk' \in [Files -> Seq(Bytes)]
  BY DEF CleanUp, TypeOK
<1>2. acked' \in Nat
  BY DEF CleanUp, TypeOK, NextHeight
<1>3. QED
  BY <1>1, <1>2 DEF CleanUp, TypeOK, memoryVars

LEMMA ForgetMemoryType ==
  ASSUME TypeOK, ForgetMemory, disk' \in [Files -> Seq(Bytes)],
         UNCHANGED <<chain, acked, dataFile, mbStorage, dbBlocks>>
  PROVE  TypeOK'
<1>1. buffer' \in [Files -> Seq(Bytes)]
  BY DEF ForgetMemory
<1>2. wDataFile' \in FileCaches /\ wStorage' \in PlaceCaches
  BY CacheTypes DEF ForgetMemory
<1>3. QED
  BY <1>1, <1>2 DEF ForgetMemory, TypeOK

LEMMA CrashType == TypeOK /\ Crash => TypeOK'
BY ForgetMemoryType DEF Crash, TypeOK, diskVars

LEMMA CrashWhileWritingType ==
  ASSUME NEW f \in Files, NEW n \in 1..Len(buffer[f]), TypeOK, CrashWhileWriting(f, n)
  PROVE  TypeOK'
<1>1. SubSeq(buffer[f], 1, n) \in Seq(Bytes)
  BY SubSeqProperties DEF TypeOK
<1>2. disk' \in [Files -> Seq(Bytes)]
  BY <1>1 DEF CrashWhileWriting, TypeOK
<1>3. QED
  BY <1>2, ForgetMemoryType DEF CrashWhileWriting

\* The database always has a highest block, so that Info has an answer.
HasHighestBlock == \E n \in dbBlocks : \A k \in dbBlocks : k <= n

LEMMA DbHeightIsHighest ==
  ASSUME TypeOK, HasHighestBlock
  PROVE  DbHeight \in dbBlocks /\ DbHeight \in Nat /\ \A k \in dbBlocks : k <= DbHeight
<1>1. PICK n \in dbBlocks : \A k \in dbBlocks : k <= n
  BY DEF HasHighestBlock
<1>2. \A k \in dbBlocks : n >= k
  BY <1>1 DEF TypeOK
<1>3. DbHeight \in dbBlocks /\ \A k \in dbBlocks : DbHeight >= k
  BY <1>2 DEF DbHeight, Max
<1>4. QED
  BY <1>3 DEF TypeOK

LEMMA RestartType == TypeOK /\ HasHighestBlock /\ Restart => TypeOK'
BY DbHeightIsHighest DEF Restart, ReportedHeight, TypeOK, diskVars, memoryVars

TypeInv == TypeOK /\ ExecutingABlock /\ HasHighestBlock

LEMMA TypeInvInit == Init => TypeInv
BY TypeOfInit DEF Init, TypeInv, ExecutingABlock, HasHighestBlock

LEMMA HighestBlockStep ==
  ASSUME TypeOK, HasHighestBlock, dbBlocks' = dbBlocks \cup {NextHeight}
  PROVE  HasHighestBlock'
<1>1. PICK n \in dbBlocks : \A k \in dbBlocks : k <= n
  BY DEF HasHighestBlock
<1> DEFINE h == NextHeight
<1>2. n \in Nat /\ h \in Nat /\ dbBlocks \subseteq Nat
  BY DEF TypeOK, NextHeight
<1>3. CASE h <= n
  BY <1>1, <1>3 DEF HasHighestBlock
<1>4. CASE ~(h <= n)
  <2>1. \A k \in dbBlocks' : k <= h
    BY <1>1, <1>2, <1>4
  <2>2. QED
    BY <2>1 DEF HasHighestBlock
<1>5. QED
  BY <1>3, <1>4

LEMMA TypeInvStep == TypeInv /\ [Next]_vars => TypeInv'
<1> SUFFICES ASSUME TypeInv, [Next]_vars PROVE TypeInv'
  OBVIOUS
<1> USE DEF TypeInv
<1>1. ASSUME NEW t \in GenesisTime..MaxTime, NEW txs \in SeqOf(Microblocks, MaxTxs),
             Decide(t, txs)
      PROVE  TypeInv'
  BY <1>1, DecideType DEF Decide, ExecutingABlock, HasHighestBlock, diskVars
<1>2. CASE BeginBlock
  BY <1>2, BeginBlockType
     DEF BeginBlock, ExecutingABlock, HasHighestBlock, diskVars, NextHeight
<1>3. CASE ExecTx
  BY <1>3, ExecTxType DEF ExecTx, ExecutingABlock, HasHighestBlock, diskVars, NextHeight
<1>4. CASE EndBlock
  BY <1>4 DEF EndBlock, TypeOK, ExecutingABlock, HasHighestBlock, diskVars, memoryVars,
              NextHeight
<1>5. ASSUME NEW f \in Files, FlushFile(f) PROVE TypeInv'
  BY <1>5, FlushFileType DEF FlushFile, ExecutingABlock, HasHighestBlock, NextHeight
<1>6. CASE FlushDone
  BY <1>6, FlushDoneType
     DEF FlushDone, ExecutingABlock, HasHighestBlock, diskVars, NextHeight
<1>7. CASE WriteBatch
  BY <1>7, WriteBatchType, HighestBlockStep DEF WriteBatch, ExecutingABlock, NextHeight
<1>8. CASE LoseBatch
  BY <1>8, WriteBatchType
     DEF LoseBatch, ExecutingABlock, HasHighestBlock, diskVars, NextHeight
<1>9. CASE CleanUp
  BY <1>9, CleanUpType DEF CleanUp, ExecutingABlock, HasHighestBlock
<1>10. CASE Restart
  BY <1>10, RestartType DEF Restart, ExecutingABlock, HasHighestBlock, diskVars
<1>11. CASE Crash
  BY <1>11, CrashType
     DEF Crash, ForgetMemory, ExecutingABlock, HasHighestBlock, diskVars
<1>12. ASSUME NEW f \in Files, NEW n \in 1..Len(buffer[f]), CrashWhileWriting(f, n)
       PROVE  TypeInv'
  BY <1>12, CrashWhileWritingType
     DEF CrashWhileWriting, ForgetMemory, ExecutingABlock, HasHighestBlock
<1>13. CASE UNCHANGED vars
  BY <1>13 DEF vars, diskVars, memoryVars, TypeOK, ExecutingABlock, HasHighestBlock,
               NextHeight
<1>14. QED
  BY <1>1, <1>2, <1>3, <1>4, <1>5, <1>6, <1>7, <1>8, <1>9, <1>10, <1>11, <1>12, <1>13
     DEF Next, Node, Fault

\* Type correctness: whatever is decided, lost, interrupted or replayed, every variable
\* keeps its type; in particular Info always has a height to report.
THEOREM NodeStorageTypes == Spec => []TypeOK
<1>1. Spec => []TypeInv
  BY TypeInvInit, TypeInvStep, PTL DEF Spec
<1>2. QED
  BY <1>1, PTL DEF TypeInv

------------------------------------------------------------------------------
(* The data files cover what the tables say of them *)

\* FilesCoverTables does not survive a step by itself: the batch replaces the recorded
\* sizes by the cached ones, so the cached sizes must be covered too, by the file and
\* the bytes still buffered for it; and a file that is buffered for the first time has
\* no cached size, so that the size expected of it is the recorded one.
CachedSizesCovered ==
  \A f \in Files : wDataFile.ins[f] # Missing =>
    Len(disk[f]) + Len(buffer[f]) >= wDataFile.ins[f]

UpdatedFilesArePending ==
  pc = "executing" => \A f \in Files : wDataFile.ins[f] # Missing => f \in Pending

NothingPendingOnceFlushed == pc = "flushed" => Pending = {}

CoverInv ==
  /\ FilesCoverTables
  /\ CachedSizesCovered
  /\ UpdatedFilesArePending
  /\ NothingPendingOnceFlushed

\* The lengths and sizes that the arguments below compare are numbers.
LEMMA SizesAreNumbers ==
  ASSUME TypeOK, NEW f \in Files
  PROVE  /\ Len(disk[f]) \in Nat
         /\ Len(buffer[f]) \in Nat
         /\ Len(disk[f] \o buffer[f]) = Len(disk[f]) + Len(buffer[f])
         /\ expected[f] \in Nat
         /\ dataFile[f] # Missing => dataFile[f] \in Nat
         /\ wDataFile.ins[f] # Missing => wDataFile.ins[f] \in Nat
         /\ f \in Pending <=> Len(buffer[f]) # 0
<1>1. disk[f] \in Seq(Bytes) /\ buffer[f] \in Seq(Bytes)
  BY DEF TypeOK
<1>2. Len(buffer[f]) = 0 <=> buffer[f] = <<>>
  BY <1>1
<1>3. QED
  BY <1>1, <1>2 DEF TypeOK, FileTables, FileCaches, Pending

LEMMA CoverInit == Init => CoverInv
BY DEF Init, CoverInv, FilesCoverTables, CachedSizesCovered, UpdatedFilesArePending,
       NothingPendingOnceFlushed, Pending, EmptyCache

\* Steps that start from empty caches and leave the files no shorter.
LEMMA CoverWhenCachesEmpty ==
  ASSUME TypeOK, TypeOK', CoverInv,
         UNCHANGED dataFile,
         \A f \in Files : wDataFile'.ins[f] = Missing,
         \A f \in Files : Len(disk'[f]) >= Len(disk[f]),
         \A f \in Files : buffer'[f] = <<>>
  PROVE  CoverInv'
<1>1. FilesCoverTables'
  <2> SUFFICES ASSUME NEW f \in Files
               PROVE  /\ dataFile'[f] # Missing => Len(disk'[f]) >= dataFile'[f]
                      /\ f \notin Pending'
    BY DEF FilesCoverTables
  <2>1. Len(disk'[f]) \in Nat
    BY DEF TypeOK
  <2>2. QED
    BY <2>1, SizesAreNumbers DEF CoverInv, FilesCoverTables, Pending
<1>2. CachedSizesCovered' /\ UpdatedFilesArePending' /\ NothingPendingOnceFlushed'
  BY DEF CachedSizesCovered, UpdatedFilesArePending, NothingPendingOnceFlushed, Pending
<1>3. QED
  BY <1>1, <1>2 DEF CoverInv

LEMMA BeginBlockCover == TypeOK /\ TypeOK' /\ CoverInv /\ BeginBlock => CoverInv'
<1> SUFFICES ASSUME TypeOK, TypeOK', CoverInv, BeginBlock PROVE CoverInv'
  OBVIOUS
<1>1. \A f \in Files : wDataFile'.ins[f] = Missing
  <2>1. \A S : \A f \in Files : DelAll(EmptyCache(Files), S).ins[f] = Missing
    BY DEF EmptyCache, DelAll
  <2>2. \A f \in Files : EmptyCache(Files).ins[f] = Missing
    BY DEF EmptyCache
  <2>3. QED
    BY <2>1, <2>2 DEF BeginBlock
<1>2. UNCHANGED <<disk, dataFile>> /\ \A f \in Files : buffer'[f] = <<>>
  BY DEF BeginBlock, diskVars
<1>3. \A f \in Files : Len(disk'[f]) >= Len(disk[f])
  BY <1>2, SizesAreNumbers
<1>4. QED
  BY <1>1, <1>2, <1>3, CoverWhenCachesEmpty

\* The size a block sees of a file is covered; and if nothing is buffered for the file,
\* it is covered by the file alone.
LEMMA RecordedSizeCovered ==
  ASSUME TypeOK, CoverInv, pc = "executing", NEW f \in Files
  PROVE  /\ RecordedSize(f) <= Len(disk[f]) + Len(buffer[f])
         /\ f \notin Pending => RecordedSize(f) <= Len(disk[f])
<1>1. CASE wDataFile.ins[f] # Missing
  <2>1. RecordedSize(f) = wDataFile.ins[f]
    BY <1>1 DEF RecordedSize, GetRaw
  <2>2. QED
    BY <1>1, <2>1, SizesAreNumbers
       DEF CoverInv, CachedSizesCovered, UpdatedFilesArePending
<1>2. CASE wDataFile.ins[f] = Missing
  <2>1. RecordedSize(f) = IF dataFile[f] = Missing THEN 0 ELSE dataFile[f]
    BY <1>2 DEF RecordedSize, GetRaw
  <2> DEFINE onDisk == Len(disk[f])
             buffered == Len(buffer[f])
  <2>0. onDisk \in Nat /\ buffered \in Nat
    BY SizesAreNumbers
  <2> SUFFICES /\ RecordedSize(f) <= onDisk + buffered
               /\ f \notin Pending => RecordedSize(f) <= onDisk
    OBVIOUS
  <2>2. CASE dataFile[f] = Missing
    <3> HIDE DEF onDisk, buffered
    <3>1. QED
      BY <2>0, <2>1, <2>2
  <2>3. CASE dataFile[f] # Missing
    <3>1. onDisk >= dataFile[f] /\ RecordedSize(f) = dataFile[f]
      BY <2>1, <2>3 DEF CoverInv, FilesCoverTables
    <3> HIDE DEF onDisk, buffered
    <3>2. dataFile[f] \in Nat
      BY <2>3, SizesAreNumbers
    <3>3. QED
      BY <2>0, <3>1, <3>2
  <2>4. QED
    BY <2>2, <2>3
<1>3. QED
  BY <1>1, <1>2

LEMMA ExecTxCover == TypeInv /\ TypeOK' /\ CoverInv /\ ExecTx => CoverInv'
<1> SUFFICES ASSUME TypeInv, TypeOK', CoverInv, ExecTx PROVE CoverInv'
  OBVIOUS
<1> USE DEF TypeInv
<1> DEFINE m == chain[NextHeight].txs[txIndex]
           f == FileOf[m]
           size == RecordedSize(f)
<1>1. m \in Microblocks
  BY TxIsMicroblock DEF ExecTx, ExecutingABlock
<1>2. UNCHANGED <<disk, dataFile, pc>> /\ pc = "executing"
  BY DEF ExecTx, diskVars
<1>3. CASE ~Acceptable(m, TimeOf(NextHeight))
  BY <1>2, <1>3 DEF ExecTx, CoverInv, FilesCoverTables, CachedSizesCovered,
                    UpdatedFilesArePending, NothingPendingOnceFlushed, Pending
<1>4. CASE Acceptable(m, TimeOf(NextHeight))
  <2>0. f \in Files /\ SizeOf[m] \in Nat \ {0}
    BY <1>1, StorageAssumption
  <2>1. AddMicroblockToBuffer(m)
    BY <1>4 DEF ExecTx
  <2>10. /\ Len(disk[f]) \in Nat
        /\ Len(buffer[f]) \in Nat
    BY <2>0, SizesAreNumbers
  <2>2. /\ size \in Nat
        /\ size <= Len(disk[f]) + Len(buffer[f])
        /\ f \notin Pending => size <= Len(disk[f])
    BY <1>2, <2>0, RecordedSizeCovered, RecordedSizeType DEF TypeOK
  <2>3. /\ Len(buffer'[f]) = Len(buffer[f]) + SizeOf[m]
        /\ wDataFile'.ins[f] = size + SizeOf[m]
        /\ expected'[f] = IF f \in Pending THEN expected[f] ELSE size
    <3>1. Len(buffer'[f]) = Len(buffer[f]) + SizeOf[m]
      <4>1. buffer'[f] = buffer[f] \o Content(m)
        BY <2>0, <2>1 DEF AddMicroblockToBuffer, TypeOK
      <4>2. buffer[f] \in Seq(Bytes)
        BY <2>0 DEF TypeOK
      <4>3. Content(m) \in Seq(Bytes) /\ Len(Content(m)) = SizeOf[m]
        BY <1>1, ContentType
      <4> HIDE DEF m, f
      <4>4. Len(buffer[f] \o Content(m)) = Len(buffer[f]) + Len(Content(m))
        BY <4>2, <4>3, ConcatProperties
      <4>5. QED
        BY <4>1, <4>3, <4>4
    <3>2. wDataFile'.ins[f] = size + SizeOf[m]
      BY <2>0, <2>1 DEF AddMicroblockToBuffer, PutRaw, TypeOK, FileCaches, FileTables
    <3>3. QED
      BY <2>0, <2>1, <3>1, <3>2 DEF AddMicroblockToBuffer, TypeOK
  <2>4. \A g \in Files \ {f} : /\ buffer'[g] = buffer[g]
                               /\ wDataFile'.ins[g] = wDataFile.ins[g]
                               /\ expected'[g] = expected[g]
    BY <2>0, <2>1 DEF AddMicroblockToBuffer, PutRaw, TypeOK, FileCaches, FileTables
  <2>5. f \in Pending'
    BY <2>0, <2>3, SizesAreNumbers, SMTT(30) DEF Pending
  <2>6. \A g \in Files \ {f} : g \in Pending' <=> g \in Pending
    BY <2>4 DEF Pending
  <2>7. FilesCoverTables'
    <3> SUFFICES ASSUME NEW g \in Files
                 PROVE  /\ dataFile'[g] # Missing => Len(disk'[g]) >= dataFile'[g]
                        /\ g \in Pending' => Len(disk'[g]) >= expected'[g]
      BY DEF FilesCoverTables
    <3>1. CASE g = f
      BY <1>2, <2>0, <2>2, <2>3, <3>1, SizesAreNumbers DEF CoverInv, FilesCoverTables
    <3>2. CASE g # f
      BY <1>2, <2>4, <2>6, <3>2 DEF CoverInv, FilesCoverTables
    <3>3. QED
      BY <3>1, <3>2
  <2>8. CachedSizesCovered'
    <3> SUFFICES ASSUME NEW g \in Files, wDataFile'.ins[g] # Missing
                 PROVE  Len(disk'[g]) + Len(buffer'[g]) >= wDataFile'.ins[g]
      BY DEF CachedSizesCovered
    <3>1. CASE g = f
      <4> DEFINE onDisk == Len(disk[f])
                 buffered == Len(buffer[f])
      <4>1. /\ onDisk \in Nat /\ buffered \in Nat /\ size <= onDisk + buffered
            /\ Len(buffer'[f]) = buffered + SizeOf[m]
        BY <2>10, <2>2, <2>3
      <4>2. Len(disk'[f]) = onDisk
        BY <1>2
      <4> HIDE DEF onDisk, buffered, f, size, m
      <4>3. onDisk + (buffered + SizeOf[m]) >= size + SizeOf[m]
        BY <2>0, <2>2, <4>1
      <4>4. QED
        BY <2>3, <3>1, <4>1, <4>2, <4>3
    <3>2. CASE g # f
      BY <1>2, <2>4, <3>2 DEF CoverInv, CachedSizesCovered
    <3>3. QED
      BY <3>1, <3>2
  <2>9. UpdatedFilesArePending' /\ NothingPendingOnceFlushed'
    BY <1>2, <2>4, <2>5, <2>6
       DEF CoverInv, UpdatedFilesArePending, NothingPendingOnceFlushed
  <2>11. QED
    BY <2>7, <2>8, <2>9 DEF CoverInv
<1>5. QED
  BY <1>3, <1>4

LEMMA FlushFileCover ==
  ASSUME NEW f \in Files, TypeOK, TypeOK', CoverInv, FlushFile(f)
  PROVE  CoverInv'
<1>1. /\ disk'[f] = disk[f] \o buffer[f]
      /\ buffer'[f] = <<>>
      /\ \A g \in Files \ {f} : disk'[g] = disk[g] /\ buffer'[g] = buffer[g]
      /\ UNCHANGED <<dataFile, wDataFile, expected>>
  BY DEF FlushFile, Appended, TypeOK
<1>2. /\ Len(disk'[f]) = Len(disk[f]) + Len(buffer[f])
      /\ Len(buffer'[f]) = 0
      /\ Len(disk'[f]) \in Nat /\ Len(disk[f]) \in Nat /\ Len(buffer[f]) \in Nat
  <2>1. Len(disk[f] \o buffer[f]) = Len(disk[f]) + Len(buffer[f])
    BY SizesAreNumbers
  <2>2. Len(disk'[f]) \in Nat
    BY DEF TypeOK
  <2>3. QED
    BY <1>1, <2>1, <2>2, SizesAreNumbers
<1>3. FilesCoverTables'
  <2> SUFFICES ASSUME NEW g \in Files
               PROVE  /\ dataFile'[g] # Missing => Len(disk'[g]) >= dataFile'[g]
                      /\ g \in Pending' => Len(disk'[g]) >= expected'[g]
    BY DEF FilesCoverTables
  <2>1. CASE g = f
    <3>1. f \notin Pending'
      BY <1>1 DEF Pending
    <3>2. ASSUME dataFile[f] # Missing PROVE Len(disk'[f]) >= dataFile[f]
      <4>1. Len(disk[f]) >= dataFile[f] /\ dataFile[f] \in Nat
        BY <3>2, SizesAreNumbers DEF CoverInv, FilesCoverTables
      <4> DEFINE before == Len(disk[f])
                 after == Len(disk'[f])
                 added == Len(buffer[f])
      <4>2. after = before + added /\ before \in Nat /\ added \in Nat
        BY <1>2
      <4>3. before >= dataFile[f]
        BY <4>1
      <4> HIDE DEF before, after, added
      <4>4. after >= dataFile[f]
        BY <4>1, <4>2, <4>3
      <4>5. QED
        BY <4>4 DEF after
    <3>3. QED
      BY <1>1, <2>1, <3>1, <3>2
  <2>2. CASE g # f
    BY <1>1, <2>2 DEF CoverInv, FilesCoverTables, Pending
  <2>3. QED
    BY <2>1, <2>2
<1>4. CachedSizesCovered'
  <2> SUFFICES ASSUME NEW g \in Files, wDataFile'.ins[g] # Missing
               PROVE  Len(disk'[g]) + Len(buffer'[g]) >= wDataFile'.ins[g]
    BY DEF CachedSizesCovered
  <2>1. CASE g = f
    <3>1. Len(disk[f]) + Len(buffer[f]) >= wDataFile.ins[f]
      BY <1>1, <2>1 DEF CoverInv, CachedSizesCovered
    <3>2. Len(disk'[f]) + Len(buffer'[f]) = Len(disk'[f])
      BY <1>2
    <3>3. QED
      BY <1>1, <1>2, <2>1, <3>1, <3>2
  <2>2. CASE g # f
    BY <1>1, <2>2 DEF CoverInv, CachedSizesCovered
  <2>3. QED
    BY <2>1, <2>2
<1>5. UpdatedFilesArePending' /\ NothingPendingOnceFlushed'
  BY DEF FlushFile, UpdatedFilesArePending, NothingPendingOnceFlushed
<1>6. QED
  BY <1>3, <1>4, <1>5 DEF CoverInv

LEMMA FlushDoneCover == TypeOK /\ TypeOK' /\ CoverInv /\ FlushDone => CoverInv'
<1> SUFFICES ASSUME TypeOK, TypeOK', CoverInv, FlushDone PROVE CoverInv'
  OBVIOUS
<1>1. Pending = {}
  BY DEF FlushDone, FlushComplete
<1>2. \A f \in Files : buffer[f] = <<>> /\ buffer'[f] = <<>>
  BY <1>1 DEF FlushDone, Pending
<1>3. UNCHANGED <<disk, dataFile, wDataFile, expected>> /\ pc' = "flushed"
  BY DEF FlushDone, diskVars
<1>4. Pending' = {}
  BY <1>2 DEF Pending
<1>5. FilesCoverTables' /\ CachedSizesCovered'
  BY <1>2, <1>3, <1>4 DEF CoverInv, FilesCoverTables, CachedSizesCovered
<1>6. QED
  BY <1>3, <1>4, <1>5 DEF CoverInv, UpdatedFilesArePending, NothingPendingOnceFlushed

LEMMA WriteBatchCover == TypeOK /\ TypeOK' /\ CoverInv /\ WriteBatch => CoverInv'
<1> SUFFICES ASSUME TypeOK, TypeOK', CoverInv, WriteBatch PROVE CoverInv'
  OBVIOUS
<1>1. /\ dataFile' = BatchWrite(dataFile, wDataFile)
      /\ wDataFile' = EmptyCache(Files)
      /\ UNCHANGED <<disk, buffer, expected>>
      /\ pc' = "committed"
  BY DEF WriteBatch
<1>2. Pending = {} /\ Pending' = {}
  BY <1>1 DEF WriteBatch, CoverInv, NothingPendingOnceFlushed, Pending
<1>3. \A f \in Files : Len(buffer[f]) = 0 /\ Len(disk[f]) \in Nat
  BY <1>2, SizesAreNumbers
<1>4. ASSUME NEW f \in Files, wDataFile.ins[f] # Missing
      PROVE  Len(disk[f]) >= wDataFile.ins[f]
  <2>1. Len(disk[f]) + Len(buffer[f]) >= wDataFile.ins[f]
    BY <1>4 DEF CoverInv, CachedSizesCovered
  <2>2. \A x, y \in Nat : y = 0 => x + y = x
    OBVIOUS
  <2>3. Len(disk[f]) + Len(buffer[f]) = Len(disk[f])
    BY <1>3, <2>2
  <2>4. QED
    BY <2>1, <2>3
<1>5. FilesCoverTables'
  <2> SUFFICES ASSUME NEW f \in Files, dataFile'[f] # Missing
               PROVE  Len(disk'[f]) >= dataFile'[f]
    BY <1>2 DEF FilesCoverTables
  <2>1. dataFile'[f] \in {wDataFile.ins[f], dataFile[f]}
    BY <1>1 DEF BatchWrite, TypeOK, FileTables
  <2>2. QED
    BY <1>1, <1>4, <2>1 DEF CoverInv, FilesCoverTables
<1>6. CachedSizesCovered'
  BY <1>1 DEF CachedSizesCovered, EmptyCache
<1>7. QED
  BY <1>1, <1>5, <1>6 DEF CoverInv, UpdatedFilesArePending, NothingPendingOnceFlushed

LEMMA LoseBatchCover == TypeOK /\ TypeOK' /\ CoverInv /\ LoseBatch => CoverInv'
<1> SUFFICES ASSUME TypeOK, TypeOK', CoverInv, LoseBatch PROVE CoverInv'
  OBVIOUS
<1>1. /\ \A f \in Files : wDataFile'.ins[f] = Missing
      /\ UNCHANGED <<dataFile, disk, buffer, expected>>
      /\ pc' = "committed"
  BY DEF LoseBatch, EmptyCache, diskVars
<1>2. Pending' = Pending
  BY <1>1 DEF Pending
<1>3. QED
  BY <1>1, <1>2 DEF CoverInv, FilesCoverTables, CachedSizesCovered,
                    UpdatedFilesArePending, NothingPendingOnceFlushed

\* The cleanup removes no file that has a recorded size, because it removes none.
LEMMA CleanUpKeepsFiles == TypeOK /\ CleanUp => disk' = disk
BY DEF CleanUp, Removable, NameIsEightDigits, TypeOK

LEMMA CleanUpCover == TypeOK /\ CoverInv /\ CleanUp => CoverInv'
BY CleanUpKeepsFiles
   DEF CleanUp, memoryVars, CoverInv, FilesCoverTables, CachedSizesCovered,
       UpdatedFilesArePending, NothingPendingOnceFlushed, Pending

LEMMA CrashWhileWritingExtends ==
  ASSUME NEW f \in Files, NEW n \in 1..Len(buffer[f]), TypeOK, CrashWhileWriting(f, n)
  PROVE  \A g \in Files : \E s \in Seq(Bytes) : disk'[g] = disk[g] \o s
<1> DEFINE written == SubSeq(buffer[f], 1, n)
<1>1. written \in Seq(Bytes)
  BY SubSeqProperties DEF TypeOK
<1>2. disk'[f] = disk[f] \o written /\ \A g \in Files \ {f} : disk'[g] = disk[g] \o <<>>
  BY DEF CrashWhileWriting, TypeOK
<1>3. <<>> \in Seq(Bytes)
  OBVIOUS
<1> HIDE DEF written
<1>4. QED
  BY <1>1, <1>2, <1>3

LEMMA ExtendedFileIsNotShorter ==
  ASSUME TypeOK, NEW f \in Files, NEW s \in Seq(Bytes), disk'[f] = disk[f] \o s
  PROVE  Len(disk'[f]) >= Len(disk[f])
<1>1. disk[f] \in Seq(Bytes)
  BY DEF TypeOK
<1>2. Len(disk[f]) \in Nat /\ Len(s) \in Nat /\ Len(disk[f] \o s) = Len(disk[f]) + Len(s)
  BY <1>1
<1>3. Len(disk[f]) + Len(s) >= Len(disk[f])
  BY <1>2
<1>4. QED
  BY <1>2, <1>3

LEMMA CrashCover ==
  ASSUME TypeOK, TypeOK', CoverInv, ForgetMemory, UNCHANGED dataFile,
         \A f \in Files : Len(disk'[f]) >= Len(disk[f])
  PROVE  CoverInv'
BY CoverWhenCachesEmpty DEF ForgetMemory, EmptyCache

LEMMA CoverStep == TypeInv /\ TypeInv' /\ CoverInv /\ [Next]_vars => CoverInv'
<1> SUFFICES ASSUME TypeInv, TypeInv', CoverInv, [Next]_vars PROVE CoverInv'
  OBVIOUS
<1> USE DEF TypeInv
<1>0. ASSUME UNCHANGED <<dataFile, disk, buffer, expected, wDataFile>>,
             pc' \in {pc, "idle", "down", "finalized"}
      PROVE  CoverInv'
  BY <1>0 DEF CoverInv, FilesCoverTables, CachedSizesCovered, UpdatedFilesArePending,
              NothingPendingOnceFlushed, Pending
<1>1. CASE \E t \in GenesisTime..MaxTime, txs \in SeqOf(Microblocks, MaxTxs) : Decide(t, txs)
  BY <1>1, <1>0 DEF Decide, diskVars, memoryVars
<1>2. CASE EndBlock \/ Restart
  BY <1>2, <1>0 DEF EndBlock, Restart, diskVars, memoryVars
<1>3. CASE UNCHANGED vars
  BY <1>3, <1>0 DEF vars, diskVars, memoryVars
<1>4. CASE BeginBlock
  BY <1>4, BeginBlockCover
<1>5. CASE ExecTx
  BY <1>5, ExecTxCover
<1>6. ASSUME NEW f \in Files, FlushFile(f) PROVE CoverInv'
  BY <1>6, FlushFileCover
<1>7. CASE FlushDone
  BY <1>7, FlushDoneCover
<1>8. CASE WriteBatch
  BY <1>8, WriteBatchCover
<1>9. CASE LoseBatch
  BY <1>9, LoseBatchCover
<1>10. CASE CleanUp
  BY <1>10, CleanUpCover
<1>11. CASE Crash
  <2>1. \A f \in Files : Len(disk'[f]) >= Len(disk[f])
    BY <1>11, SizesAreNumbers DEF Crash, diskVars
  <2>2. QED
    BY <1>11, <2>1, CrashCover DEF Crash, diskVars
<1>12. ASSUME NEW f \in Files, NEW n \in 1..Len(buffer[f]), CrashWhileWriting(f, n)
       PROVE  CoverInv'
  <2>1. \A g \in Files : Len(disk'[g]) >= Len(disk[g])
    BY <1>12, CrashWhileWritingExtends, ExtendedFileIsNotShorter
  <2>2. QED
    BY <1>12, <2>1, CrashCover DEF CrashWhileWriting
<1>13. QED
  BY <1>1, <1>2, <1>3, <1>4, <1>5, <1>6, <1>7, <1>8, <1>9, <1>10, <1>11, <1>12
     DEF Next, Node, Fault

\* No data file is ever smaller than the database, or an open write buffer, says,
\* wherever the node is killed and whatever batch is refused: the PANIC conditions of
\* Storage.writeTransactions() and ChallengeFile.open() are unreachable.
THEOREM DataFilesCoverTables == Spec => []FilesCoverTables
<1>1. Init => TypeInv /\ CoverInv
  BY TypeInvInit, CoverInit
<1>2. TypeInv /\ CoverInv /\ [Next]_vars => (TypeInv /\ CoverInv)'
  BY TypeInvStep, CoverStep
<1>3. TypeInv /\ CoverInv => FilesCoverTables
  BY DEF CoverInv
<1>4. QED
  BY <1>1, <1>2, <1>3, PTL DEF Spec

------------------------------------------------------------------------------
(* Committed bytes are never written again *)

\* The only steps that touch a data file extend it.
LEMMA FilesOnlyGrow ==
  ASSUME TypeOK, [Next]_vars, NEW f \in Files
  PROVE  disk'[f] = disk[f] \/ \E s \in Seq(Bytes) : disk'[f] = disk[f] \o s
<1>1. ASSUME NEW g \in Files, FlushFile(g)
      PROVE  disk'[f] = disk[f] \/ \E s \in Seq(Bytes) : disk'[f] = disk[f] \o s
  <2>1. CASE f = g
    BY <1>1, <2>1 DEF FlushFile, Appended, TypeOK
  <2>2. CASE f # g
    BY <1>1, <2>2 DEF FlushFile, TypeOK
  <2>3. QED
    BY <2>1, <2>2
<1>2. ASSUME NEW g \in Files, NEW n \in 1..Len(buffer[g]), CrashWhileWriting(g, n)
      PROVE  \E s \in Seq(Bytes) : disk'[f] = disk[f] \o s
  BY <1>2, CrashWhileWritingExtends
<1>3. CASE CleanUp
  BY <1>3, CleanUpKeepsFiles
<1>4. CASE \/ \E t \in GenesisTime..MaxTime, txs \in SeqOf(Microblocks, MaxTxs) :
                Decide(t, txs)
           \/ BeginBlock \/ ExecTx \/ EndBlock \/ FlushDone \/ WriteBatch \/ LoseBatch
           \/ Restart \/ Crash \/ UNCHANGED vars
  BY <1>4 DEF Decide, BeginBlock, ExecTx, EndBlock, FlushDone, WriteBatch, LoseBatch,
              Restart, Crash, vars, diskVars
<1>5. QED
  BY <1>1, <1>2, <1>3, <1>4 DEF Next, Node, Fault

LEMMA ExtensionKeepsPrefix ==
  ASSUME NEW s \in Seq(Bytes), NEW t \in Seq(Bytes), NEW n \in Nat, n <= Len(s)
  PROVE  SubSeq(s \o t, 1, n) = SubSeq(s, 1, n)
<1>1. CASE n = 0
  BY <1>1, SubSeqEmpty
<1>2. CASE n # 0
  <2>1. 1 \in 1..Len(s) /\ n \in 1..Len(s)
    BY <1>2
  <2>2. QED
    BY <2>1, SubSeqOfConcat1
<1>3. QED
  BY <1>1, <1>2

LEMMA ImmutableStep ==
  ASSUME TypeOK, FilesCoverTables, [Next]_vars, NEW f \in Files, dataFile[f] # Missing
  PROVE  SubSeq(disk'[f], 1, dataFile[f]) = SubSeq(disk[f], 1, dataFile[f])
<1>1. CASE disk'[f] = disk[f]
  BY <1>1
<1>2. CASE \E s \in Seq(Bytes) : disk'[f] = disk[f] \o s
  <2>1. PICK s \in Seq(Bytes) : disk'[f] = disk[f] \o s
    BY <1>2
  <2>2. dataFile[f] \in Nat /\ dataFile[f] <= Len(disk[f])
    BY SizesAreNumbers DEF FilesCoverTables
  <2>3. disk[f] \in Seq(Bytes)
    BY DEF TypeOK
  <2>4. QED
    BY <2>1, <2>2, <2>3, ExtensionKeepsPrefix
<1>3. QED
  BY <1>1, <1>2, FilesOnlyGrow

\* No step, a crash in the middle of a write included, changes a byte that the database
\* accounts for: what a storage challenge or a reader has seen of the committed part of
\* a file stays what it was.
THEOREM CommittedBytesNeverChange == Spec => CommittedBytesImmutable
<1>1. Init => TypeInv /\ CoverInv
  BY TypeInvInit, CoverInit
<1>2. TypeInv /\ CoverInv /\ [Next]_vars => (TypeInv /\ CoverInv)'
  BY TypeInvStep, CoverStep
<1>3. TypeInv /\ CoverInv /\ [Next]_vars =>
        [\A f \in Files : dataFile[f] # Missing =>
           SubSeq(disk'[f], 1, dataFile[f]) = SubSeq(disk[f], 1, dataFile[f])]_vars
  BY ImmutableStep DEF TypeInv, CoverInv
<1>4. QED
  BY <1>1, <1>2, <1>3, PTL DEF Spec, CommittedBytesImmutable

------------------------------------------------------------------------------
(* The places as the batch would leave them *)

\* A block is being executed or committed, and its caches hold its changes.
Working == pc \in {"executing", "finalized", "flushing", "flushed"}

NewPlaces == BatchWrite(mbStorage, wStorage)
NewSizes  == BatchWrite(dataFile, wDataFile)

\* Places do not overlap and lie inside the sizes of their files.
PlacesFit(places, sizes) ==
  \A m \in Microblocks : places[m] # Missing =>
    /\ places[m] \in Locations /\ places[m].file = FileOf[m] /\ places[m].size = SizeOf[m]
    /\ sizes[FileOf[m]] # Missing => places[m].offset + SizeOf[m] <= sizes[FileOf[m]]
    /\ \A n \in Microblocks \ {m} :
         places[n] # Missing /\ FileOf[n] = FileOf[m]
           => \/ places[m].offset + SizeOf[m] <= places[n].offset
              \/ places[n].offset + SizeOf[n] <= places[m].offset

\* File f had expired at height h, so that no later block writes to it.
ClosedAt(f, h) == f < EndlessBase /\ f < TimeOf(h)

\* A file that has places but no row was purged, after it had expired.
PurgedAreClosed(places, sizes, heights) ==
  \A m \in Microblocks :
    places[m] # Missing /\ sizes[FileOf[m]] = Missing => \E h \in heights : ClosedAt(FileOf[m], h)

\* Block times never decrease and stay below the identifiers of endless files.
TimesOrdered ==
  /\ \A i \in 1..Len(chain) : chain[i].time \in Nat /\ chain[i].time <= MaxTime
  /\ \A i, j \in 0..Len(chain) : i <= j => TimeOf(i) <= TimeOf(j)

\* The database is never ahead of the block that CometBFT asks for.
DatabaseNotAhead == \A h \in dbBlocks : h <= Len(chain) /\ h <= NextHeight

CommittedPlaces ==
  /\ PlacesFit(mbStorage, dataFile)
  /\ PurgedAreClosed(mbStorage, dataFile, dbBlocks)

WorkingPlaces == Working =>
  /\ PlacesFit(NewPlaces, NewSizes)
  /\ PurgedAreClosed(NewPlaces, NewSizes, {NextHeight})
  /\ wStorage.del = {}
  /\ \A f \in wDataFile.del : ClosedAt(f, NextHeight)

PlacesInv == TimesOrdered /\ DatabaseNotAhead /\ CommittedPlaces /\ WorkingPlaces

------------------------------------------------------------------------------
(* Lemmas about the operators *)

LEMMA BatchWriteNothing ==
  ASSUME NEW S, NEW T, NEW t \in [S -> T]
  PROVE  BatchWrite(t, EmptyCache(S)) = t
BY DEF BatchWrite, EmptyCache

\* Microblock m has no place, and its file is that long, or has no row and no place.
Extensible(m, size, places, sizes) ==
  /\ size \in Nat
  /\ places[m] = Missing
  /\ sizes[FileOf[m]] # Missing => sizes[FileOf[m]] = size
  /\ \A n \in Microblocks :
       places[n] # Missing /\ FileOf[n] = FileOf[m] => sizes[FileOf[m]] # Missing

\* The tables after a place for m has been added at that position.
Added(m, size, places, sizes, newPlaces, newSizes) ==
  /\ \A n \in Microblocks : newPlaces[n] = IF n = m THEN Place(m, size) ELSE places[n]
  /\ \A g \in Files : newSizes[g] = IF g = FileOf[m] THEN size + SizeOf[m] ELSE sizes[g]

\* A place added at the end of its file overlaps no other.
LEMMA AddedPlaceFits ==
  ASSUME NEW places, NEW sizes, PlacesFit(places, sizes),
         NEW m \in Microblocks, NEW size, Extensible(m, size, places, sizes),
         NEW newPlaces, NEW newSizes, Added(m, size, places, sizes, newPlaces, newSizes)
  PROVE  PlacesFit(newPlaces, newSizes)
<1> DEFINE p == Place(m, size)
           f == FileOf[m]
<1>1. f \in Files /\ SizeOf[m] \in Nat \ {0} /\ Missing \notin Nat \cup Locations
  BY StorageAssumption
<1>2. /\ p \in Locations /\ p.file = f /\ p.offset = size /\ p.size = SizeOf[m] /\ p # Missing
      /\ size \in Nat
  BY <1>1 DEF Place, Locations, Extensible
<1>3. /\ newPlaces[m] = p /\ \A n \in Microblocks \ {m} : newPlaces[n] = places[n]
      /\ newSizes[f] = size + SizeOf[m] /\ \A g \in Files \ {f} : newSizes[g] = sizes[g]
  BY <1>1 DEF Added
<1>4. ASSUME NEW n \in Microblocks \ {m}, places[n] # Missing, FileOf[n] = f
      PROVE  places[n].offset + SizeOf[n] <= size
  BY <1>4 DEF PlacesFit, Extensible
<1>5. \A n \in Microblocks : FileOf[n] \in Files /\ SizeOf[n] \in Nat
  BY StorageAssumption
<1>6. \A n \in Microblocks : places[n] # Missing => places[n].offset \in Nat
  BY DEF PlacesFit, Locations
<1> HIDE DEF p, f
<1>8. ASSUME NEW n \in Microblocks, newPlaces[n] # Missing
      PROVE  /\ newPlaces[n] \in Locations
             /\ newPlaces[n].file = FileOf[n] /\ newPlaces[n].size = SizeOf[n]
             /\ newSizes[FileOf[n]] # Missing =>
                  newPlaces[n].offset + SizeOf[n] <= newSizes[FileOf[n]]
             /\ \A k \in Microblocks \ {n} :
                  newPlaces[k] # Missing /\ FileOf[k] = FileOf[n]
                    => \/ newPlaces[n].offset + SizeOf[n] <= newPlaces[k].offset
                       \/ newPlaces[k].offset + SizeOf[k] <= newPlaces[n].offset
  <2>1. CASE n = m
    <3>1. newPlaces[n] = p /\ FileOf[n] = f
      BY <1>3, <2>1 DEF f
    <3>2. \A k \in Microblocks \ {n} : newPlaces[k] # Missing /\ FileOf[k] = f
            => newPlaces[k].offset + SizeOf[k] <= size
      BY <1>3, <1>4, <2>1
    <3> QED
      BY <1>1, <1>2, <1>3, <2>1, <3>1, <3>2
  <2>2. CASE n # m
    <3>1. newPlaces[n] = places[n] /\ places[n] # Missing
      BY <1>3, <1>8, <2>2
    <3>2. /\ places[n] \in Locations /\ places[n].file = FileOf[n] /\ places[n].size = SizeOf[n]
          /\ sizes[FileOf[n]] # Missing => places[n].offset + SizeOf[n] <= sizes[FileOf[n]]
      BY <3>1 DEF PlacesFit
    <3>3. newSizes[FileOf[n]] # Missing =>
            places[n].offset + SizeOf[n] <= newSizes[FileOf[n]]
      <4>1. CASE FileOf[n] = f
        BY <1>1, <1>2, <1>3, <1>4, <1>5, <1>6, <2>2, <3>1, <4>1
      <4>2. CASE FileOf[n] # f
        BY <1>3, <1>5, <3>2, <4>2
      <4> QED
        BY <4>1, <4>2
    <3>4. ASSUME NEW k \in Microblocks \ {n}, newPlaces[k] # Missing, FileOf[k] = FileOf[n]
          PROVE  \/ places[n].offset + SizeOf[n] <= newPlaces[k].offset
                 \/ newPlaces[k].offset + SizeOf[k] <= places[n].offset
      <4>1. CASE k = m
        BY <1>2, <1>3, <1>4, <2>2, <3>1, <3>4, <4>1 DEF f
      <4>2. CASE k # m
        <5>1. newPlaces[k] = places[k] /\ places[k] # Missing
          BY <1>3, <3>4, <4>2
        <5> QED
          BY <3>1, <3>4, <5>1 DEF PlacesFit
      <4> QED
        BY <4>1, <4>2
    <3> QED
      BY <3>1, <3>2, <3>3, <3>4
  <2> QED
    BY <2>1, <2>2
<1> QED
  BY <1>8 DEF PlacesFit

------------------------------------------------------------------------------
(* Chain and database *)

LEMMA TimesAreNumbers ==
  ASSUME TimesOrdered, NEW h \in Nat, h <= Len(chain), Len(chain) \in Nat
  PROVE  TimeOf(h) \in Nat /\ (h # 0 => TimeOf(h) <= MaxTime)
<1>1. CASE h = 0
  BY <1>1, StorageAssumption DEF TimeOf
<1>2. CASE h # 0
  BY <1>2 DEF TimeOf, TimesOrdered
<1> QED
  BY <1>1, <1>2

LEMMA DecideTimes ==
  ASSUME TypeOK, TimesOrdered, NEW t \in GenesisTime..MaxTime,
         NEW txs \in SeqOf(Microblocks, MaxTxs), Decide(t, txs)
  PROVE  /\ TimesOrdered'
         /\ Len(chain') = Len(chain) + 1
         /\ \A h \in 0..Len(chain) : TimeOf(h)' = TimeOf(h)
<1> DEFINE b == [time |-> t, txs |-> txs]
<1>1. /\ chain' = Append(chain, b) /\ b \in Blocks /\ chain \in Seq(Blocks)
      /\ t \in Nat /\ t <= MaxTime /\ t >= TimeOf(Len(chain)) /\ b.time = t
  <2>1. txs \in Seq(Microblocks) /\ t \in Nat /\ t <= MaxTime
    BY StorageAssumption DEF SeqOf
  <2> QED
    BY <2>1 DEF Decide, Blocks, TypeOK
<1> HIDE DEF b
<1>2. /\ Len(chain) \in Nat /\ Len(chain') = Len(chain) + 1
      /\ \A i \in 1..Len(chain) : chain'[i] = chain[i]
      /\ chain'[Len(chain) + 1] = b
  BY <1>1, AppendProperties
<1>3. /\ \A h \in 0..Len(chain) : TimeOf(h)' = TimeOf(h)
      /\ \A h \in Nat : h = Len(chain) + 1 => TimeOf(h)' = t
  BY <1>1, <1>2 DEF TimeOf
<1>4. \A i \in 1..Len(chain') : chain'[i].time \in Nat /\ chain'[i].time <= MaxTime
  <2> SUFFICES ASSUME NEW i \in 1..Len(chain')
               PROVE  chain'[i].time \in Nat /\ chain'[i].time <= MaxTime
    OBVIOUS
  <2>1. CASE i = Len(chain) + 1
    BY <1>1, <1>2, <2>1
  <2>2. CASE i # Len(chain) + 1
    <3>1. i \in 1..Len(chain)
      BY <1>2, <2>2
    <3> QED
      BY <1>2, <3>1 DEF TimesOrdered
  <2> QED
    BY <2>1, <2>2
<1>5. \A h \in 0..Len(chain) : TimeOf(h) \in Nat
  BY <1>2, TimesAreNumbers
<1>6. \A i, j \in 0..Len(chain') : i <= j => TimeOf(i)' <= TimeOf(j)'
  <2> SUFFICES ASSUME NEW i \in 0..Len(chain'), NEW j \in 0..Len(chain'), i <= j
               PROVE  TimeOf(i)' <= TimeOf(j)'
    OBVIOUS
  <2>1. CASE j \in 0..Len(chain)
    BY <1>2, <1>3, <2>1 DEF TimesOrdered
  <2>2. CASE j = Len(chain) + 1 /\ i \in 0..Len(chain)
    <3>1. TimeOf(i) <= TimeOf(Len(chain)) /\ TimeOf(Len(chain)) \in Nat
      BY <1>2, <1>5, <2>2 DEF TimesOrdered
    <3> QED
      BY <1>1, <1>3, <1>5, <2>2, <3>1
  <2>3. CASE j = Len(chain) + 1 /\ i = j
    BY <1>1, <1>3, <2>3
  <2> QED
    BY <1>2, <2>1, <2>2, <2>3
<1> QED
  BY <1>2, <1>3, <1>4, <1>6 DEF TimesOrdered

\* The heights known to the database are those of decided blocks.
LEMMA HeightsAreNumbers ==
  ASSUME TypeInv, PlacesInv
  PROVE  /\ Len(chain) \in Nat /\ NextHeight \in Nat \ {0}
         /\ \A h \in dbBlocks : /\ h \in 0..Len(chain)
                                /\ NextHeight <= Len(chain) => TimeOf(h) <= TimeOf(NextHeight)
<1>1. Len(chain) \in Nat /\ NextHeight \in Nat \ {0}
  BY DEF TypeInv, TypeOK, NextHeight
<1>2. \A h \in dbBlocks : h \in 0..Len(chain) /\ h <= NextHeight
  BY <1>1 DEF TypeInv, TypeOK, PlacesInv, DatabaseNotAhead
<1> QED
  BY <1>1, <1>2 DEF PlacesInv, TimesOrdered

------------------------------------------------------------------------------
(* The steps *)

LEMMA PlacesInit == Init => PlacesInv
<1> SUFFICES ASSUME Init PROVE PlacesInv
  OBVIOUS
<1>1. TimesOrdered
  <2>1. chain = <<>> /\ Len(chain) = 0
    BY DEF Init
  <2> QED
    BY <2>1, StorageAssumption DEF TimesOrdered, TimeOf
<1>2. DatabaseNotAhead
  BY DEF Init, DatabaseNotAhead, NextHeight
<1>3. CommittedPlaces
  BY DEF Init, CommittedPlaces, PlacesFit, PurgedAreClosed
<1>4. WorkingPlaces
  BY DEF Init, WorkingPlaces, Working
<1> QED
  BY <1>1, <1>2, <1>3, <1>4 DEF PlacesInv

\* A step that leaves the tables, the chain and the height to execute alone, and the
\* caches too unless it ends the block.
LEMMA PlacesKept ==
  ASSUME PlacesInv, UNCHANGED <<chain, acked, mbStorage, dataFile, dbBlocks>>,
         Working' => Working /\ UNCHANGED <<wStorage, wDataFile>>
  PROVE  PlacesInv'
<1>1. TimesOrdered' /\ DatabaseNotAhead'
  BY DEF PlacesInv, TimesOrdered, TimeOf, DatabaseNotAhead, NextHeight
<1>2. CommittedPlaces'
  BY DEF PlacesInv, CommittedPlaces, PlacesFit, PurgedAreClosed, ClosedAt, TimeOf
<1>3. WorkingPlaces'
  <2> SUFFICES ASSUME Working' PROVE WorkingPlaces'
    BY DEF WorkingPlaces
  <2>1. Working /\ NewPlaces' = NewPlaces /\ NewSizes' = NewSizes /\ NextHeight' = NextHeight
    BY DEF NewPlaces, NewSizes, NextHeight
  <2> QED
    BY <2>1 DEF PlacesInv, WorkingPlaces, PlacesFit, PurgedAreClosed, ClosedAt, TimeOf
<1> QED
  BY <1>1, <1>2, <1>3 DEF PlacesInv

LEMMA DecidePlaces ==
  ASSUME TypeInv, PlacesInv, NEW t \in GenesisTime..MaxTime,
         NEW txs \in SeqOf(Microblocks, MaxTxs), Decide(t, txs)
  PROVE  PlacesInv'
<1>1. /\ UNCHANGED <<acked, mbStorage, dataFile, dbBlocks>> /\ ~Working'
      /\ NextHeight' = NextHeight
  BY DEF Decide, diskVars, Working, NextHeight
<1>2. /\ TimesOrdered' /\ Len(chain') = Len(chain) + 1
      /\ \A h \in 0..Len(chain) : TimeOf(h)' = TimeOf(h)
  BY DecideTimes DEF TypeInv, PlacesInv
<1>3. Len(chain) \in Nat /\ \A h \in dbBlocks : h \in 0..Len(chain)
  BY HeightsAreNumbers
<1>4. DatabaseNotAhead'
  BY <1>1, <1>2, <1>3 DEF PlacesInv, DatabaseNotAhead
<1>5. CommittedPlaces'
  <2>1. PlacesFit(mbStorage, dataFile)'
    BY <1>1 DEF PlacesInv, CommittedPlaces, PlacesFit
  <2>2. \A f \in Files, h \in dbBlocks : ClosedAt(f, h) => ClosedAt(f, h)'
    BY <1>2, <1>3 DEF ClosedAt
  <2>3. \A m \in Microblocks : FileOf[m] \in Files
    OBVIOUS
  <2>4. PurgedAreClosed(mbStorage, dataFile, dbBlocks)'
    BY <1>1, <2>2, <2>3 DEF PlacesInv, CommittedPlaces, PurgedAreClosed
  <2> QED
    BY <2>1, <2>4 DEF CommittedPlaces
<1>6. WorkingPlaces'
  BY <1>1 DEF WorkingPlaces
<1> QED
  BY <1>2, <1>4, <1>5, <1>6 DEF PlacesInv

LEMMA DayBeforeEndless ==
  ASSUME NEW t \in Nat, t <= MaxTime, NEW f \in Files, PurgedOn(f, DayOf(t))
  PROVE  f < EndlessBase /\ f < t
<1>1. f \in Nat /\ DayOf(t) \in Nat /\ DayOf(t) <= t /\ EndlessBase \in Nat /\ MaxTime \in Nat
  BY DayOfType, StorageAssumption
<1> QED
  BY <1>1, StorageAssumption DEF PurgedOn

LEMMA BeginBlockPlaces == TypeInv /\ PlacesInv /\ BeginBlock => PlacesInv'
<1> SUFFICES ASSUME TypeInv, PlacesInv, BeginBlock PROVE PlacesInv'
  OBVIOUS
<1> DEFINE t == TimeOf(NextHeight)
           purged == {f \in Files : dataFile[f] # Missing /\ PurgedOn(f, DayOf(t))}
<1>1. /\ UNCHANGED <<chain, acked, mbStorage, dataFile, dbBlocks>>
      /\ wDataFile' \in {EmptyCache(Files), DelAll(EmptyCache(Files), purged)}
      /\ wStorage' = EmptyCache(Microblocks)
      /\ NextHeight <= Len(chain)
  BY DEF BeginBlock, diskVars
<1>2. /\ mbStorage \in PlaceTables /\ dataFile \in FileTables
      /\ NextHeight \in Nat \ {0} /\ Len(chain) \in Nat
  BY HeightsAreNumbers DEF TypeInv, TypeOK
<1>3. t \in Nat /\ t <= MaxTime
  BY <1>1, <1>2, TimesAreNumbers DEF PlacesInv
<1>4. \A f \in purged : f \in Files /\ ClosedAt(f, NextHeight)
  BY <1>3, DayBeforeEndless DEF ClosedAt
<1> HIDE DEF purged
<1>5. NewPlaces' = mbStorage /\ wStorage'.del = {}
  <2>1. NewPlaces' = mbStorage
    BY <1>1, <1>2, BatchWriteNothing DEF NewPlaces, PlaceTables
  <2> QED
    BY <1>1, <2>1 DEF EmptyCache
<1>6. /\ \A f \in Files : NewSizes'[f] = IF f \in wDataFile'.del THEN Missing ELSE dataFile[f]
      /\ wDataFile'.del \subseteq purged
  <2>1. wDataFile'.del \in {{}, purged} /\ \A f \in Files : wDataFile'.ins[f] = Missing
    <3>1. EmptyCache(Files).del = {} /\ \A f \in Files : EmptyCache(Files).ins[f] = Missing
      BY DEF EmptyCache
    <3>2. /\ DelAll(EmptyCache(Files), purged).del = purged
          /\ \A f \in Files : DelAll(EmptyCache(Files), purged).ins[f] = Missing
      BY DEF EmptyCache, DelAll
    <3> QED
      BY <1>1, <3>1, <3>2
  <2>2. NewSizes' = BatchWrite(dataFile, wDataFile')
    BY <1>1 DEF NewSizes
  <2> QED
    BY <1>2, <2>1, <2>2 DEF BatchWrite, FileTables
<1>7. NextHeight' = NextHeight /\ \A f, h : ClosedAt(f, h)' <=> ClosedAt(f, h)
  BY <1>1 DEF NextHeight, ClosedAt, TimeOf
<1>8. \A m \in Microblocks : FileOf[m] \in Files
  OBVIOUS
<1>9. PlacesFit(mbStorage, NewSizes')
  <2>1. \A f \in Files : NewSizes'[f] # Missing => NewSizes'[f] = dataFile[f]
    BY <1>6
  <2> QED
    BY <1>8, <2>1 DEF PlacesInv, CommittedPlaces, PlacesFit
<1>10. ASSUME NEW m \in Microblocks, mbStorage[m] # Missing, NewSizes'[FileOf[m]] = Missing
       PROVE  ClosedAt(FileOf[m], NextHeight)
  <2>1. CASE FileOf[m] \in wDataFile'.del
    BY <1>4, <1>6, <2>1
  <2>2. CASE FileOf[m] \notin wDataFile'.del
    <3>1. dataFile[FileOf[m]] = Missing
      BY <1>6, <1>8, <1>10, <2>2
    <3>2. PICK h \in dbBlocks : ClosedAt(FileOf[m], h)
      BY <1>10, <3>1 DEF PlacesInv, CommittedPlaces, PurgedAreClosed
    <3>3. TimeOf(h) <= t /\ TimeOf(h) \in Nat /\ FileOf[m] \in Nat
      BY <1>1, HeightsAreNumbers, TimesAreNumbers, StorageAssumption DEF PlacesInv
    <3> QED
      BY <1>3, <3>2, <3>3 DEF ClosedAt
  <2> QED
    BY <2>1, <2>2
<1>11. WorkingPlaces'
  <2>1. PlacesFit(NewPlaces, NewSizes)'
    BY <1>5, <1>9 DEF PlacesFit
  <2>2. PurgedAreClosed(NewPlaces, NewSizes, {NextHeight})'
    BY <1>5, <1>7, <1>10 DEF PurgedAreClosed
  <2>3. \A f \in wDataFile'.del : ClosedAt(f, NextHeight)'
    BY <1>4, <1>6, <1>7
  <2> QED
    BY <1>5, <2>1, <2>2, <2>3 DEF WorkingPlaces
<1>12. TimesOrdered' /\ DatabaseNotAhead' /\ CommittedPlaces'
  BY <1>1, <1>7 DEF PlacesInv, TimesOrdered, TimeOf, DatabaseNotAhead, CommittedPlaces,
                    PlacesFit, PurgedAreClosed
<1> QED
  BY <1>11, <1>12 DEF PlacesInv

\* What a block may still write to: a file with a row is as long as its row says, one
\* without a row has no place in it.
LEMMA AcceptedExtendsFile ==
  ASSUME TypeInv, PlacesInv, pc = "executing", NEW m \in Microblocks,
         Acceptable(m, TimeOf(NextHeight))
  PROVE  /\ Extensible(m, RecordedSize(FileOf[m]), NewPlaces, NewSizes)
         /\ ~ClosedAt(FileOf[m], NextHeight)
         /\ FileOf[m] \notin wDataFile.del
<1>1. /\ mbStorage \in PlaceTables /\ dataFile \in FileTables
      /\ wStorage \in PlaceCaches /\ wDataFile \in FileCaches /\ FileOf[m] \in Files
  BY DEF TypeInv, TypeOK
<1>2. Working
  BY DEF Working
<1>3. NewPlaces[m] = Missing
  BY <1>1, <1>2 DEF Acceptable, GetRaw, NewPlaces, BatchWrite, PlacesInv, WorkingPlaces,
                    PlaceTables
<1>4. ~ClosedAt(FileOf[m], NextHeight)
  <2>1. TimeOf(NextHeight) \in Nat /\ FileOf[m] \in Nat
    BY BlockOfChain, StorageAssumption DEF TypeInv, ExecutingABlock
  <2> QED
    BY <2>1 DEF Acceptable, ExpiredAt, ClosedAt
<1>5. FileOf[m] \notin wDataFile.del
  BY <1>2, <1>4 DEF PlacesInv, WorkingPlaces
<1>6. NewSizes[FileOf[m]] # Missing => NewSizes[FileOf[m]] = RecordedSize(FileOf[m])
  BY <1>1, <1>5 DEF NewSizes, BatchWrite, RecordedSize, GetRaw, FileTables
<1>7. \A n \in Microblocks : NewPlaces[n] # Missing /\ FileOf[n] = FileOf[m]
                               => NewSizes[FileOf[m]] # Missing
  BY <1>2, <1>4 DEF PlacesInv, WorkingPlaces, PurgedAreClosed
<1>8. RecordedSize(FileOf[m]) \in Nat
  BY <1>1, RecordedSizeType
<1> QED
  BY <1>3, <1>4, <1>5, <1>6, <1>7, <1>8 DEF Extensible

\* What addMicroblockToBuffer() changes of the tables that the batch will write.
LEMMA AddMicroblockTables ==
  ASSUME TypeInv, UNCHANGED <<mbStorage, dataFile>>, NEW m \in Microblocks,
         AddMicroblockToBuffer(m)
  PROVE  /\ Added(m, RecordedSize(FileOf[m]), NewPlaces, NewSizes, NewPlaces', NewSizes')
         /\ wStorage'.del = wStorage.del \ {m}
         /\ wDataFile'.del = wDataFile.del \ {FileOf[m]}
<1> DEFINE f == FileOf[m]
           size == RecordedSize(f)
           p == Place(m, size)
<1>1. /\ mbStorage \in PlaceTables /\ dataFile \in FileTables
      /\ wStorage \in PlaceCaches /\ wDataFile \in FileCaches
      /\ f \in Files /\ SizeOf[m] \in Nat /\ Missing \notin Nat \cup Locations
  BY StorageAssumption DEF TypeInv, TypeOK
<1>2. size \in Nat
  BY <1>1, RecordedSizeType
<1>3. p \in Locations /\ p # Missing /\ size + SizeOf[m] \in Nat /\ size + SizeOf[m] # Missing
  BY <1>1, <1>2 DEF Place, Locations
<1>4. wStorage' = PutRaw(wStorage, m, p) /\ wDataFile' = PutRaw(wDataFile, f, size + SizeOf[m])
  BY DEF AddMicroblockToBuffer
<1> HIDE DEF f, size, p
<1>5. \A n \in Microblocks : NewPlaces'[n] = IF n = m THEN p ELSE NewPlaces[n]
  BY <1>1, <1>3, <1>4 DEF NewPlaces, BatchWrite, PutRaw, PlaceTables, PlaceCaches
<1>6. \A g \in Files : NewSizes'[g] = IF g = f THEN size + SizeOf[m] ELSE NewSizes[g]
  BY <1>1, <1>3, <1>4 DEF NewSizes, BatchWrite, PutRaw, FileTables, FileCaches
<1>7. wStorage'.del = wStorage.del \ {m} /\ wDataFile'.del = wDataFile.del \ {f}
  BY <1>4 DEF PutRaw
<1> QED
  BY <1>5, <1>6, <1>7 DEF Added, f, size, p

LEMMA ExecTxPlaces == TypeInv /\ PlacesInv /\ ExecTx => PlacesInv'
<1> SUFFICES ASSUME TypeInv, PlacesInv, ExecTx PROVE PlacesInv'
  OBVIOUS
<1> DEFINE m == chain[NextHeight].txs[txIndex]
           f == FileOf[m]
           size == RecordedSize(f)
<1>1. /\ UNCHANGED <<chain, acked, mbStorage, dataFile, dbBlocks, pc>>
      /\ pc = "executing" /\ Working /\ Working'
  BY DEF ExecTx, diskVars, Working
<1>2. m \in Microblocks
  BY TxIsMicroblock DEF ExecTx, TypeInv, ExecutingABlock
<1>3. CASE ~Acceptable(m, TimeOf(NextHeight))
  BY <1>1, <1>3, PlacesKept DEF ExecTx
<1>4. CASE Acceptable(m, TimeOf(NextHeight))
  <2>1. /\ Added(m, size, NewPlaces, NewSizes, NewPlaces', NewSizes')
        /\ wStorage'.del = wStorage.del \ {m} /\ wDataFile'.del = wDataFile.del \ {f}
    BY <1>1, <1>2, <1>4, AddMicroblockTables DEF ExecTx
  <2>2. Extensible(m, size, NewPlaces, NewSizes)
    BY <1>1, <1>2, <1>4, AcceptedExtendsFile
  <2>4. /\ PlacesFit(NewPlaces, NewSizes) /\ PurgedAreClosed(NewPlaces, NewSizes, {NextHeight})
        /\ wStorage.del = {} /\ \A g \in wDataFile.del : ClosedAt(g, NextHeight)
    BY <1>1 DEF PlacesInv, WorkingPlaces
  <2> HIDE DEF m, size
  <2>5. PlacesFit(NewPlaces', NewSizes')
    BY <1>2, <2>1, <2>2, <2>4, AddedPlaceFits
  <2>6. NextHeight' = NextHeight /\ \A g, h : ClosedAt(g, h)' <=> ClosedAt(g, h)
    BY <1>1 DEF NextHeight, ClosedAt, TimeOf
  <2>7. ASSUME NEW n \in Microblocks, NewPlaces'[n] # Missing, NewSizes'[FileOf[n]] = Missing
        PROVE  ClosedAt(FileOf[n], NextHeight)
    <3>1. FileOf[n] # f /\ n # m
      <4>1. size + SizeOf[m] # Missing /\ f \in Files
        BY <1>2, <2>2, StorageAssumption DEF Extensible
      <4>2. NewSizes'[f] # Missing
        BY <2>1, <4>1 DEF Added
      <4> QED
        BY <2>7, <4>2
    <3>2. NewPlaces[n] # Missing /\ NewSizes[FileOf[n]] = Missing
      BY <2>1, <2>7, <3>1 DEF Added
    <3> QED
      BY <2>4, <3>2 DEF PurgedAreClosed
  <2>8. WorkingPlaces'
    BY <2>1, <2>4, <2>5, <2>6, <2>7 DEF WorkingPlaces, PlacesFit, PurgedAreClosed
  <2>9. TimesOrdered' /\ DatabaseNotAhead' /\ CommittedPlaces'
    BY <1>1, <2>6 DEF PlacesInv, TimesOrdered, TimeOf, DatabaseNotAhead, CommittedPlaces,
                      PlacesFit, PurgedAreClosed
  <2> QED
    BY <2>8, <2>9 DEF PlacesInv
<1> QED
  BY <1>3, <1>4

LEMMA WriteBatchPlaces == TypeInv /\ PlacesInv /\ WriteBatch => PlacesInv'
<1> SUFFICES ASSUME TypeInv, PlacesInv, WriteBatch PROVE PlacesInv'
  OBVIOUS
<1>1. /\ mbStorage' = NewPlaces /\ dataFile' = NewSizes /\ dbBlocks' = dbBlocks \cup {NextHeight}
      /\ UNCHANGED <<chain, acked>> /\ ~Working' /\ Working
  BY DEF WriteBatch, NewPlaces, NewSizes, Working
<1>2. NextHeight' = NextHeight /\ \A g, h : ClosedAt(g, h)' <=> ClosedAt(g, h)
  BY <1>1 DEF NextHeight, ClosedAt, TimeOf
<1>3. NextHeight <= Len(chain) /\ NextHeight \in Nat
  BY HeightsAreNumbers DEF TypeInv, ExecutingABlock, WriteBatch
<1>4. CommittedPlaces'
  <2>1. PlacesFit(NewPlaces, NewSizes) /\ PurgedAreClosed(NewPlaces, NewSizes, {NextHeight})
    BY <1>1 DEF PlacesInv, WorkingPlaces
  <2>2. PlacesFit(mbStorage', dataFile')
    BY <1>1, <2>1
  <2>3. \A m \in Microblocks : mbStorage'[m] # Missing /\ dataFile'[FileOf[m]] = Missing
          => ClosedAt(FileOf[m], NextHeight)'
    BY <1>1, <1>2, <2>1 DEF PurgedAreClosed
  <2> QED
    BY <1>1, <1>2, <2>2, <2>3 DEF CommittedPlaces, PlacesFit, PurgedAreClosed
<1>5. TimesOrdered' /\ DatabaseNotAhead' /\ WorkingPlaces'
  BY <1>1, <1>2, <1>3 DEF PlacesInv, TimesOrdered, TimeOf, DatabaseNotAhead, WorkingPlaces
<1> QED
  BY <1>4, <1>5 DEF PlacesInv

\* The height to execute next never falls behind the database.
LEMMA HeightMovesPlaces ==
  ASSUME TypeInv, TypeInv', PlacesInv, ~Working',
         UNCHANGED <<chain, mbStorage, dataFile, dbBlocks>>,
         \A h \in dbBlocks : h <= acked'
  PROVE  PlacesInv'
<1>1. acked' \in Nat /\ \A h \in dbBlocks : h \in Nat
  BY DEF TypeInv, TypeOK
<1>2. DatabaseNotAhead'
  BY <1>1 DEF PlacesInv, DatabaseNotAhead, NextHeight
<1>3. TimesOrdered' /\ CommittedPlaces' /\ WorkingPlaces'
  BY DEF PlacesInv, TimesOrdered, TimeOf, CommittedPlaces, PlacesFit, PurgedAreClosed,
         ClosedAt, WorkingPlaces
<1> QED
  BY <1>2, <1>3 DEF PlacesInv

LEMMA PlacesStep == TypeInv /\ TypeInv' /\ PlacesInv /\ [Next]_vars => PlacesInv'
<1> SUFFICES ASSUME TypeInv, TypeInv', PlacesInv, [Next]_vars PROVE PlacesInv'
  OBVIOUS
<1>1. ASSUME NEW t \in GenesisTime..MaxTime, NEW txs \in SeqOf(Microblocks, MaxTxs),
             Decide(t, txs)
      PROVE  PlacesInv'
  BY <1>1, DecidePlaces
<1>2. CASE BeginBlock
  BY <1>2, BeginBlockPlaces
<1>3. CASE ExecTx
  BY <1>3, ExecTxPlaces
<1>4. CASE EndBlock \/ FlushDone \/ LoseBatch \/ Crash \/ UNCHANGED vars
  BY <1>4, PlacesKept
     DEF EndBlock, FlushDone, LoseBatch, Crash, ForgetMemory, vars, diskVars, memoryVars, Working
<1>5. ASSUME NEW f \in Files, FlushFile(f) PROVE PlacesInv'
  BY <1>5, PlacesKept DEF FlushFile, Working
<1>6. CASE WriteBatch
  BY <1>6, WriteBatchPlaces
<1>7. CASE CleanUp
  <2>1. \A h \in dbBlocks : h <= acked'
    BY <1>7 DEF CleanUp, PlacesInv, DatabaseNotAhead
  <2> QED
    BY <1>7, <2>1, HeightMovesPlaces DEF CleanUp, Working
<1>8. CASE Restart
  <2>1. \A h \in dbBlocks : h <= acked'
    BY <1>8, DbHeightIsHighest DEF Restart, ReportedHeight, TypeInv
  <2> QED
    BY <1>8, <2>1, HeightMovesPlaces DEF Restart, Working, diskVars
<1>9. ASSUME NEW f \in Files, NEW n \in 1..Len(buffer[f]), CrashWhileWriting(f, n)
      PROVE  PlacesInv'
  BY <1>9, PlacesKept DEF CrashWhileWriting, ForgetMemory, Working
<1>10. QED
  BY <1>1, <1>2, <1>3, <1>4, <1>5, <1>6, <1>7, <1>8, <1>9 DEF Next, Node, Fault

\* Whatever blocks are executed, lost or replayed, and however many files are purged, the
\* places in table MICROBLOCK_STORAGE never overlap and lie inside the sizes that table
\* DATA_FILE records.
THEOREM PlacesNeverOverlap == Spec => []PlacesDisjoint
<1>1. Init => TypeInv /\ PlacesInv
  BY TypeInvInit, PlacesInit
<1>2. TypeInv /\ PlacesInv /\ [Next]_vars => (TypeInv /\ PlacesInv)'
  BY TypeInvStep, PlacesStep
<1>3. TypeInv /\ PlacesInv => PlacesDisjoint
  <2> SUFFICES ASSUME PlacesFit(mbStorage, dataFile) PROVE PlacesDisjoint
    BY DEF PlacesInv, CommittedPlaces
  <2> QED
    BY DEF PlacesFit, PlacesDisjoint
<1>4. QED
  BY <1>1, <1>2, <1>3, PTL DEF Spec

------------------------------------------------------------------------------
(* No block is missing from the tables *)

\* The recorded blocks have no gap, and CometBFT has seen none complete that is not
\* recorded: the next one to execute then leaves no gap either.
NoGap ==
  /\ 0 \in dbBlocks /\ acked \in dbBlocks
  /\ \A h \in dbBlocks : \A k \in 0..h : k \in dbBlocks
  /\ pc = "committed" => NextHeight \in dbBlocks

LEMMA NoGapStep == ~BatchMayFail /\ TypeInv /\ NoGap /\ [Next]_vars => NoGap'
<1> SUFFICES ASSUME ~BatchMayFail, TypeInv, NoGap, [Next]_vars PROVE NoGap'
  OBVIOUS
<1>0. acked \in Nat /\ dbBlocks \subseteq Nat /\ NextHeight = acked + 1
  BY DEF TypeInv, TypeOK, NextHeight
<1>1. ASSUME UNCHANGED <<acked, dbBlocks>>, pc' # "committed"
      PROVE  NoGap'
  BY <1>1 DEF NoGap
<1>2. CASE \E t \in GenesisTime..MaxTime, txs \in SeqOf(Microblocks, MaxTxs) : Decide(t, txs)
  BY <1>1, <1>2 DEF Decide, diskVars
<1>3. CASE BeginBlock \/ ExecTx \/ EndBlock \/ FlushDone \/ Crash
  BY <1>1, <1>3 DEF BeginBlock, ExecTx, EndBlock, FlushDone, Crash, ForgetMemory, diskVars
<1>4. CASE (\E f \in Files : FlushFile(f))
           \/ \E f \in Files : \E n \in 1..Len(buffer[f]) : CrashWhileWriting(f, n)
  BY <1>1, <1>4 DEF FlushFile, CrashWhileWriting, ForgetMemory
<1>5. CASE WriteBatch
  <2>1. dbBlocks' = dbBlocks \cup {NextHeight} /\ acked' = acked /\ NextHeight' = NextHeight
    BY <1>5 DEF WriteBatch, NextHeight
  <2>2. \A k \in 0..NextHeight : k \in dbBlocks'
    BY <1>0, <2>1 DEF NoGap
  <2> QED
    BY <2>1, <2>2 DEF NoGap
<1>6. CASE LoseBatch
  BY <1>6 DEF LoseBatch
<1>7. CASE CleanUp
  BY <1>7 DEF CleanUp, NoGap
<1>8. CASE Restart
  <2>1. acked' \in dbBlocks /\ dbBlocks' = dbBlocks /\ pc' # "committed"
    BY <1>8, DbHeightIsHighest DEF Restart, ReportedHeight, TypeInv, diskVars
  <2> QED
    BY <2>1 DEF NoGap
<1>9. CASE UNCHANGED vars
  BY <1>9 DEF vars, diskVars, NoGap, NextHeight
<1>10. QED
  BY <1>2, <1>3, <1>4, <1>5, <1>6, <1>7, <1>8, <1>9 DEF Next, Node, Fault

\* As long as LevelDB does not refuse a batch, the node never answers Info with a height
\* below which a block is missing, nor below one whose commit it has confirmed, wherever
\* it is killed.
THEOREM NoBlockIsMissing == ASSUME ~BatchMayFail PROVE Spec => []NoBlockMissing
<1>1. Init => TypeInv /\ NoGap
  BY TypeInvInit DEF Init, NoGap, NextHeight
<1>2. TypeInv /\ NoGap /\ [Next]_vars => (TypeInv /\ NoGap)'
  BY TypeInvStep, NoGapStep
<1>3. TypeInv /\ NoGap => NoBlockMissing
  <2> SUFFICES ASSUME TypeInv, NoGap PROVE NoBlockMissing
    OBVIOUS
  <2>1. DbHeight \in dbBlocks /\ DbHeight \in Nat /\ \A k \in dbBlocks : k <= DbHeight
    BY DbHeightIsHighest DEF TypeInv
  <2>2. dbBlocks \subseteq Nat
    BY DEF TypeInv, TypeOK
  <2>3. ASSUME NEW k \in dbBlocks PROVE k \in 0..DbHeight
    BY <2>1, <2>2, <2>3
  <2>4. ASSUME NEW k \in 0..DbHeight PROVE k \in dbBlocks
    BY <2>1, <2>4 DEF NoGap
  <2>5. dbBlocks = 0..DbHeight
    BY <2>3, <2>4
  <2> QED
    BY <2>1, <2>5 DEF NoGap, NoBlockMissing
<1>4. QED
  BY <1>1, <1>2, <1>3, PTL DEF Spec

------------------------------------------------------------------------------
(* Every place holds its microblock *)

\* The data files as they will be once the buffers are flushed.
Written == [f \in Files |-> disk[f] \o buffer[f]]

\* Microblock m is found in those bytes at that offset.
Holds(bytes, m, offset) ==
  /\ offset + SizeOf[m] <= Len(bytes)
  /\ SubSeq(bytes, offset + 1, offset + SizeOf[m]) = Content(m)

PlacesHold(places, files) ==
  \A m \in Microblocks : places[m] # Missing => Holds(files[FileOf[m]], m, places[m].offset)

\* The sizes are exactly those of the files: what is appended next gets the offset at
\* which it lands.  A file without a row is empty or will not be written again.
SizesExact(sizes, files, heights) ==
  \A f \in Files :
    IF sizes[f] = Missing
    THEN files[f] = <<>> \/ \E h \in heights : ClosedAt(f, h)
    ELSE sizes[f] = Len(files[f])

\* Between the first flushed file and the batch, the files are ahead of the tables.
FilesAhead == pc \in {"flushing", "flushed"}

BytesInv ==
  /\ PlacesHold(mbStorage, disk)
  /\ ~FilesAhead => SizesExact(dataFile, disk, dbBlocks)
  /\ Working => /\ PlacesHold(NewPlaces, Written)
                /\ SizesExact(NewSizes, Written, {NextHeight})

\* A microblock found in some bytes is still found when the bytes are extended.
LEMMA HoldsInExtension ==
  ASSUME NEW s \in Seq(Bytes), NEW t \in Seq(Bytes), NEW m \in Microblocks,
         NEW offset \in Nat, Holds(s, m, offset)
  PROVE  Holds(s \o t, m, offset)
<1>1. SizeOf[m] \in Nat \ {0} /\ Len(s) \in Nat /\ Len(t) \in Nat /\ s \o t \in Seq(Bytes)
      /\ Len(s \o t) = Len(s) + Len(t)
  BY StorageAssumption
<1> DEFINE first == offset + 1
           last == offset + SizeOf[m]
<1>2. first \in 1..Len(s) /\ last \in 1..Len(s)
  <2>1. last <= Len(s)
    BY DEF Holds
  <2> QED
    BY <1>1, <2>1
<1>3. SubSeq(s \o t, first, last) = SubSeq(s, first, last)
  BY <1>2, SubSeqOfConcat1
<1>4. last <= Len(s \o t)
  BY <1>1, <1>2
<1>5. SubSeq(s \o t, first, last) = Content(m)
  BY <1>3 DEF Holds
<1> QED
  BY <1>4, <1>5 DEF Holds

\* A microblock appended to some bytes is found where they ended.
LEMMA HoldsWhenAppended ==
  ASSUME NEW s \in Seq(Bytes), NEW m \in Microblocks
  PROVE  Holds(s \o Content(m), m, Len(s))
<1> DEFINE c == Content(m)
           n == Len(s)
<1>1. c \in Seq(Bytes) /\ Len(c) = SizeOf[m] /\ SizeOf[m] \in Nat \ {0} /\ n \in Nat
  BY ContentType, StorageAssumption
<1>2. Len(s \o c) = n + SizeOf[m]
  BY <1>1
<1>3. SubSeq(s \o c, n + 1, n + SizeOf[m]) = SubSeq(c, 1, SizeOf[m])
  <2>1. n + 1 \in Len(s) + 1 .. Len(s) + Len(c) /\ n + SizeOf[m] \in Len(s) + 1 .. Len(s) + Len(c)
    BY <1>1
  <2>2. PICK first, last : first = n + 1 /\ last = n + SizeOf[m]
    OBVIOUS
  <2>3. first - Len(s) = 1 /\ last - Len(s) = SizeOf[m]
    BY <1>1, <2>2
  <2>4. /\ first \in Len(s) + 1 .. Len(s) + Len(c)
        /\ last \in Len(s) + 1 .. Len(s) + Len(c)
    BY <2>1, <2>2
  <2>5. SubSeq(s \o c, first, last) = SubSeq(c, first - Len(s), last - Len(s))
    BY <1>1, <2>4, SubSeqOfConcat2, Zenon
  <2> QED
    BY <2>2, <2>3, <2>5
<1>4. SubSeq(c, 1, SizeOf[m]) = c
  BY <1>1, SubSeqFull
<1>5. n + SizeOf[m] <= Len(s \o c)
  BY <1>1, <1>2
<1>6. SubSeq(s \o c, n + 1, n + SizeOf[m]) = Content(m)
  BY <1>3, <1>4
<1> QED
  BY <1>5, <1>6 DEF Holds

\* Files that are extended keep what their places hold.
LEMMA PlacesHoldInExtension ==
  ASSUME NEW places, NEW sizes, PlacesFit(places, sizes), NEW files, NEW longer,
         PlacesHold(places, files),
         \A f \in Files : files[f] \in Seq(Bytes)
                          /\ \E s \in Seq(Bytes) : longer[f] = files[f] \o s
  PROVE  PlacesHold(places, longer)
<1> SUFFICES ASSUME NEW m \in Microblocks, places[m] # Missing
             PROVE  Holds(longer[FileOf[m]], m, places[m].offset)
  BY DEF PlacesHold
<1>1. FileOf[m] \in Files /\ places[m].offset \in Nat
  BY DEF PlacesFit, Locations
<1>2. PICK s \in Seq(Bytes) : longer[FileOf[m]] = files[FileOf[m]] \o s
  BY <1>1
<1>3. Holds(files[FileOf[m]], m, places[m].offset) /\ files[FileOf[m]] \in Seq(Bytes)
  BY <1>1 DEF PlacesHold
<1> QED
  BY <1>1, <1>2, <1>3, HoldsInExtension

\* The cached offset of an accepted microblock is where its bytes will land.
LEMMA AcceptedLandsAtItsOffset ==
  ASSUME TypeInv, PlacesInv, BytesInv, pc = "executing", NEW m \in Microblocks,
         Acceptable(m, TimeOf(NextHeight))
  PROVE  RecordedSize(FileOf[m]) = Len(Written[FileOf[m]])
<1> DEFINE f == FileOf[m]
<1>1. f \in Files /\ dataFile \in FileTables /\ wDataFile \in FileCaches
  BY DEF TypeInv, TypeOK
<1>2. /\ Extensible(m, RecordedSize(f), NewPlaces, NewSizes) /\ ~ClosedAt(f, NextHeight)
      /\ f \notin wDataFile.del
  BY AcceptedExtendsFile
<1>3. SizesExact(NewSizes, Written, {NextHeight})
  BY DEF BytesInv, Working
<1>4. CASE NewSizes[f] # Missing
  BY <1>1, <1>2, <1>3, <1>4 DEF SizesExact, Extensible
<1>5. CASE NewSizes[f] = Missing
  <2>1. Written[f] = <<>>
    BY <1>1, <1>2, <1>3, <1>5 DEF SizesExact
  <2>2. GetRaw(dataFile, wDataFile, f) = Missing
    BY <1>1, <1>2, <1>5 DEF NewSizes, BatchWrite, GetRaw, FileTables
  <2> QED
    BY <2>1, <2>2 DEF RecordedSize
<1> QED
  BY <1>4, <1>5

LEMMA WrittenType ==
  ASSUME TypeOK, NEW f \in Files
  PROVE  /\ disk[f] \in Seq(Bytes) /\ buffer[f] \in Seq(Bytes)
         /\ Written[f] = disk[f] \o buffer[f] /\ Written[f] \in Seq(Bytes)
         /\ buffer[f] = <<>> => Written[f] = disk[f]
<1>1. disk[f] \in Seq(Bytes) /\ buffer[f] \in Seq(Bytes)
  BY DEF TypeOK
<1>2. disk[f] \o <<>> = disk[f]
  BY <1>1, ConcatEmptySeq
<1>3. Written[f] = disk[f] \o buffer[f]
  BY DEF Written
<1>4. disk[f] \o buffer[f] \in Seq(Bytes)
  BY <1>1, ConcatProperties
<1> QED
  BY <1>1, <1>2, <1>3, <1>4

\* A step that changes no table, no height, no file and no buffer.
LEMMA BytesKept ==
  ASSUME BytesInv, UNCHANGED <<chain, acked, mbStorage, dataFile, dbBlocks, disk>>,
         FilesAhead' <=> FilesAhead,
         Working' => Working /\ UNCHANGED <<wStorage, wDataFile, buffer>>
  PROVE  BytesInv'
<1>1. PlacesHold(mbStorage, disk)'
  BY DEF BytesInv, PlacesHold, Holds
<1>2. SizesExact(dataFile, disk, dbBlocks) => SizesExact(dataFile, disk, dbBlocks)'
  BY DEF SizesExact, ClosedAt, TimeOf
<1>3. ASSUME Working'
      PROVE  PlacesHold(NewPlaces, Written)' /\ SizesExact(NewSizes, Written, {NextHeight})'
  <2>1. /\ Working /\ NewPlaces' = NewPlaces /\ NewSizes' = NewSizes /\ NextHeight' = NextHeight
        /\ Written' = Written
    BY <1>3 DEF NewPlaces, NewSizes, NextHeight, Written
  <2> QED
    BY <2>1 DEF BytesInv, PlacesHold, Holds, SizesExact, ClosedAt, TimeOf
<1> QED
  BY <1>1, <1>2, <1>3 DEF BytesInv

LEMMA DecideBytes ==
  ASSUME TypeInv, PlacesInv, BytesInv, NEW t \in GenesisTime..MaxTime,
         NEW txs \in SeqOf(Microblocks, MaxTxs), Decide(t, txs)
  PROVE  BytesInv'
<1>1. UNCHANGED <<mbStorage, dataFile, dbBlocks, disk, pc>> /\ ~Working'
  BY DEF Decide, diskVars, Working
<1>2. PlacesHold(mbStorage, disk)'
  BY <1>1 DEF BytesInv, PlacesHold, Holds
<1>3. \A h \in dbBlocks : TimeOf(h)' = TimeOf(h)
  BY DecideTimes, HeightsAreNumbers DEF TypeInv, PlacesInv
<1>4. SizesExact(dataFile, disk, dbBlocks) => SizesExact(dataFile, disk, dbBlocks)'
  BY <1>1, <1>3 DEF SizesExact, ClosedAt
<1> QED
  BY <1>1, <1>2, <1>4 DEF BytesInv, FilesAhead

LEMMA BeginBlockBytes == TypeInv /\ PlacesInv /\ PlacesInv' /\ BytesInv /\ BeginBlock => BytesInv'
<1> SUFFICES ASSUME TypeInv, PlacesInv, PlacesInv', BytesInv, BeginBlock PROVE BytesInv'
  OBVIOUS
<1>1. /\ UNCHANGED <<chain, acked, mbStorage, dataFile, dbBlocks, disk>>
      /\ ~FilesAhead /\ ~FilesAhead' /\ Working' /\ NextHeight' = NextHeight
      /\ NextHeight <= Len(chain)
      /\ wStorage' = EmptyCache(Microblocks)
      /\ \A f \in Files : wDataFile'.ins[f] = Missing
  <2>1. \A f \in Files : wDataFile'.ins[f] = Missing
    <3>1. \A f \in Files : EmptyCache(Files).ins[f] = Missing
      BY DEF EmptyCache
    <3>2. \A S : \A f \in Files : DelAll(EmptyCache(Files), S).ins[f] = Missing
      BY DEF EmptyCache, DelAll
    <3> QED
      BY <3>1, <3>2 DEF BeginBlock
  <2> QED
    BY <2>1 DEF BeginBlock, diskVars, FilesAhead, Working, NextHeight
<1>2. NewPlaces' = mbStorage
  BY <1>1, BatchWriteNothing DEF NewPlaces, PlaceTables, TypeInv, TypeOK
<1>3. \A f \in Files : NewSizes'[f] = IF f \in wDataFile'.del THEN Missing ELSE dataFile[f]
  BY <1>1 DEF NewSizes, BatchWrite, TypeInv, TypeOK, FileTables
<1>4. \A f \in Files : Written'[f] = disk[f]
  <2>1. \A f \in Files : disk[f] \in Seq(Bytes)
    BY DEF TypeInv, TypeOK
  <2>2. \A f \in Files : disk[f] \o <<>> = disk[f]
    BY <2>1, ConcatEmptySeq
  <2> QED
    BY <1>1, <2>2 DEF BeginBlock, Written
<1>5. \A m \in Microblocks : FileOf[m] \in Files
  OBVIOUS
<1>6. PlacesHold(NewPlaces, Written)'
  BY <1>2, <1>4, <1>5 DEF BytesInv, PlacesHold, Holds
<1>7. \A f \in wDataFile'.del : ClosedAt(f, NextHeight)'
  BY <1>1 DEF PlacesInv, WorkingPlaces
<1>8. \A f \in Files : \A h : ClosedAt(f, h)' <=> ClosedAt(f, h)
  BY <1>1 DEF ClosedAt, TimeOf
<1>9. \A f \in Files, h \in dbBlocks : ClosedAt(f, h) => ClosedAt(f, NextHeight)
  <2> SUFFICES ASSUME NEW f \in Files, NEW h \in dbBlocks, ClosedAt(f, h)
               PROVE  ClosedAt(f, NextHeight)
    OBVIOUS
  <2>1. TimeOf(h) <= TimeOf(NextHeight) /\ TimeOf(h) \in Nat /\ TimeOf(NextHeight) \in Nat
        /\ f \in Nat
    BY <1>1, HeightsAreNumbers, TimesAreNumbers, StorageAssumption DEF PlacesInv
  <2> QED
    BY <2>1 DEF ClosedAt
<1>10. SizesExact(NewSizes, Written, {NextHeight})'
  <2> SUFFICES ASSUME NEW f \in Files
               PROVE  IF NewSizes'[f] = Missing
                      THEN Written'[f] = <<>> \/ ClosedAt(f, NextHeight)'
                      ELSE NewSizes'[f] = Len(Written'[f])
    BY DEF SizesExact
  <2>1. IF dataFile[f] = Missing
        THEN disk[f] = <<>> \/ \E h \in dbBlocks : ClosedAt(f, h)
        ELSE dataFile[f] = Len(disk[f])
    BY <1>1 DEF BytesInv, SizesExact
  <2>2. CASE f \in wDataFile'.del
    BY <1>3, <1>7, <2>2
  <2>3. CASE f \notin wDataFile'.del
    BY <1>1, <1>3, <1>4, <1>8, <1>9, <2>1, <2>3
  <2> QED
    BY <2>2, <2>3
<1>11. PlacesHold(mbStorage, disk)' /\ SizesExact(dataFile, disk, dbBlocks)'
  BY <1>1, <1>8 DEF BytesInv, PlacesHold, Holds, SizesExact
<1> QED
  BY <1>1, <1>6, <1>10, <1>11 DEF BytesInv

LEMMA ExecTxBytes == TypeInv /\ TypeInv' /\ PlacesInv /\ BytesInv /\ ExecTx => BytesInv'
<1> SUFFICES ASSUME TypeInv, TypeInv', PlacesInv, BytesInv, ExecTx PROVE BytesInv'
  OBVIOUS
<1> DEFINE m == chain[NextHeight].txs[txIndex]
           f == FileOf[m]
           size == RecordedSize(f)
<1>1. /\ UNCHANGED <<chain, acked, mbStorage, dataFile, dbBlocks, disk, pc>>
      /\ pc = "executing" /\ Working /\ Working' /\ (FilesAhead' <=> FilesAhead)
  BY DEF ExecTx, diskVars, Working, FilesAhead
<1>2. m \in Microblocks
  BY TxIsMicroblock DEF ExecTx, TypeInv, ExecutingABlock
<1>3. CASE ~Acceptable(m, TimeOf(NextHeight))
  BY <1>1, <1>3, BytesKept DEF ExecTx
<1>4. CASE Acceptable(m, TimeOf(NextHeight))
  <2>1. Added(m, size, NewPlaces, NewSizes, NewPlaces', NewSizes')
    BY <1>1, <1>2, <1>4, AddMicroblockTables DEF ExecTx
  <2>2. size = Len(Written[f])
    BY <1>1, <1>2, <1>4, AcceptedLandsAtItsOffset
  <2>3. buffer' = [buffer EXCEPT ![f] = @ \o Content(m)]
    BY <1>4 DEF ExecTx, AddMicroblockToBuffer
  <2> HIDE DEF m, size
  <2>4. /\ f \in Files /\ Content(m) \in Seq(Bytes) /\ Len(Content(m)) = SizeOf[m]
        /\ SizeOf[m] \in Nat \ {0}
    BY <1>2, ContentType, StorageAssumption
  <2>5. /\ Written'[f] = Written[f] \o Content(m)
        /\ \A g \in Files \ {f} : Written'[g] = Written[g]
    <3>1. /\ disk[f] \in Seq(Bytes) /\ buffer[f] \in Seq(Bytes) /\ DOMAIN buffer = Files
          /\ Written[f] = disk[f] \o buffer[f]
      BY <2>4, WrittenType DEF TypeInv, TypeOK
    <3>2. buffer'[f] = buffer[f] \o Content(m) /\ \A g \in Files \ {f} : buffer'[g] = buffer[g]
      BY <2>3, <2>4, <3>1
    <3>3. \A g \in Files : Written'[g] = disk[g] \o buffer'[g]
      BY <1>1 DEF Written
    <3>4. (disk[f] \o buffer[f]) \o Content(m) = disk[f] \o (buffer[f] \o Content(m))
      <4> DEFINE a == disk[f]
                 b == buffer[f]
                 c == Content(m)
      <4>1. a \in Seq(Bytes) /\ b \in Seq(Bytes) /\ c \in Seq(Bytes)
        BY <2>4, <3>1
      <4> HIDE DEF a, b, c
      <4>2. (a \o b) \o c = a \o (b \o c)
        BY <4>1, ConcatAssociative
      <4> QED
        BY <4>2 DEF a, b, c
    <3>5. Written'[f] = Written[f] \o Content(m)
      BY <2>4, <3>1, <3>2, <3>3, <3>4
    <3>6. \A g \in Files \ {f} : Written'[g] = Written[g]
      BY <3>2, <3>3 DEF Written
    <3> QED
      BY <3>5, <3>6
  <2>6. \A g \in Files : Written[g] \in Seq(Bytes)
    BY WrittenType DEF TypeInv
  <2>7. \A g \in Files : \E s \in Seq(Bytes) : Written'[g] = Written[g] \o s
    <3> SUFFICES ASSUME NEW g \in Files
                 PROVE  \E s \in Seq(Bytes) : Written'[g] = Written[g] \o s
      OBVIOUS
    <3>1. Written[g] \o <<>> = Written[g] /\ <<>> \in Seq(Bytes)
      BY <2>6, ConcatEmptySeq
    <3>2. CASE g = f
      BY <2>4, <2>5, <3>2
    <3>3. CASE g # f
      BY <2>5, <3>1, <3>3
    <3> QED
      BY <3>2, <3>3
  <2>8. /\ PlacesHold(NewPlaces, Written) /\ SizesExact(NewSizes, Written, {NextHeight})
        /\ PlacesFit(NewPlaces, NewSizes)
    BY <1>1 DEF BytesInv, PlacesInv, WorkingPlaces
  <2>9. PlacesHold(NewPlaces, Written')
    BY <2>6, <2>7, <2>8, PlacesHoldInExtension
  <2>10. PlacesHold(NewPlaces', Written')
    <3> SUFFICES ASSUME NEW n \in Microblocks, NewPlaces'[n] # Missing
                 PROVE  Holds(Written'[FileOf[n]], n, NewPlaces'[n].offset)
      BY DEF PlacesHold
    <3>1. CASE n = m
      <4>1. Holds(Written[f] \o Content(m), m, Len(Written[f]))
        BY <1>2, <2>4, <2>6, HoldsWhenAppended
      <4>2. NewPlaces'[m].offset = size
        BY <1>2, <2>1 DEF Added, Place
      <4> QED
        BY <2>2, <2>5, <3>1, <4>1, <4>2
    <3>2. CASE n # m
      <4>1. NewPlaces'[n] = NewPlaces[n]
        BY <2>1, <3>2 DEF Added
      <4> QED
        BY <2>9, <4>1 DEF PlacesHold
    <3> QED
      BY <3>1, <3>2
  <2>11. NextHeight' = NextHeight /\ \A g, h : ClosedAt(g, h)' <=> ClosedAt(g, h)
    BY <1>1 DEF NextHeight, ClosedAt, TimeOf
  <2>12. SizesExact(NewSizes, Written, {NextHeight})'
    <3> SUFFICES ASSUME NEW g \in Files
                 PROVE  IF NewSizes'[g] = Missing
                        THEN Written'[g] = <<>> \/ ClosedAt(g, NextHeight)'
                        ELSE NewSizes'[g] = Len(Written'[g])
      BY DEF SizesExact
    <3>1. CASE g = f
      <4>1. Len(Written'[f]) = size + SizeOf[m]
        <5>1. Written[f] \in Seq(Bytes)
          BY <2>4, <2>6
        <5>2. Len(Written[f] \o Content(m)) = Len(Written[f]) + Len(Content(m))
          BY <2>4, <5>1, ConcatProperties
        <5> QED
          BY <2>2, <2>4, <2>5, <5>2
      <4>2. NewSizes'[f] = size + SizeOf[m]
        BY <2>1, <2>4 DEF Added
      <4>3. size + SizeOf[m] # Missing
        BY <2>2, <2>4, <2>6, StorageAssumption
      <4> QED
        BY <3>1, <4>1, <4>2, <4>3
    <3>2. CASE g # f
      <4>1. NewSizes'[g] = NewSizes[g] /\ Written'[g] = Written[g]
        BY <2>1, <2>5, <3>2 DEF Added
      <4> QED
        BY <2>8, <2>11, <4>1 DEF SizesExact
    <3> QED
      BY <3>1, <3>2
  <2>13. PlacesHold(mbStorage, disk)' /\ (~FilesAhead' => SizesExact(dataFile, disk, dbBlocks)')
    BY <1>1, <2>11 DEF BytesInv, PlacesHold, Holds, SizesExact
  <2> QED
    BY <2>10, <2>12, <2>13 DEF BytesInv, PlacesHold, Holds
<1> QED
  BY <1>3, <1>4

LEMMA FlushFileBytes ==
  ASSUME TypeInv, PlacesInv, BytesInv, NEW f \in Files, FlushFile(f)
  PROVE  BytesInv'
<1>1. /\ UNCHANGED <<chain, acked, mbStorage, dataFile, dbBlocks, wStorage, wDataFile>>
      /\ Working /\ FilesAhead' /\ NextHeight' = NextHeight
      /\ NewPlaces' = NewPlaces /\ NewSizes' = NewSizes
  BY DEF FlushFile, Working, FilesAhead, NextHeight, NewPlaces, NewSizes
<1>2. /\ disk'[f] = disk[f] \o buffer[f] /\ buffer'[f] = <<>>
      /\ \A g \in Files \ {f} : disk'[g] = disk[g] /\ buffer'[g] = buffer[g]
  BY DEF FlushFile, Appended, TypeInv, TypeOK
<1>3. \A g \in Files : /\ disk[g] \in Seq(Bytes) /\ buffer[g] \in Seq(Bytes)
                       /\ Written[g] = disk[g] \o buffer[g] /\ Written[g] \in Seq(Bytes)
  BY WrittenType DEF TypeInv
<1>4. \A g \in Files : Written'[g] = Written[g]
  <2>1. \A g \in Files : Written'[g] = disk'[g] \o buffer'[g]
    BY DEF Written
  <2>2. Written[f] \o <<>> = Written[f]
    BY <1>3, ConcatEmptySeq
  <2>3. Written'[f] = Written[f]
    BY <1>2, <1>3, <2>1, <2>2
  <2>4. \A g \in Files \ {f} : Written'[g] = Written[g]
    BY <1>2, <1>3, <2>1
  <2> QED
    BY <2>3, <2>4
<1>5. \A g \in Files : \E s \in Seq(Bytes) : disk'[g] = disk[g] \o s
  <2>1. \A g \in Files : disk[g] \o <<>> = disk[g] /\ <<>> \in Seq(Bytes)
    BY <1>3, ConcatEmptySeq
  <2> SUFFICES ASSUME NEW g \in Files PROVE \E s \in Seq(Bytes) : disk'[g] = disk[g] \o s
    OBVIOUS
  <2>2. CASE g = f
    BY <1>2, <1>3, <2>2
  <2>3. CASE g # f
    BY <1>2, <2>1, <2>3
  <2> QED
    BY <2>2, <2>3
<1>6. PlacesHold(mbStorage, disk')
  BY <1>3, <1>5, PlacesHoldInExtension DEF BytesInv, PlacesInv, CommittedPlaces
<1>7. PlacesHold(mbStorage, disk)'
  BY <1>1, <1>6 DEF PlacesHold, Holds
<1>8. \A m \in Microblocks : FileOf[m] \in Files
  OBVIOUS
<1>9. PlacesHold(NewPlaces, Written)' /\ SizesExact(NewSizes, Written, {NextHeight})'
  BY <1>1, <1>4, <1>8 DEF BytesInv, PlacesHold, Holds, SizesExact, ClosedAt, TimeOf
<1> QED
  BY <1>1, <1>7, <1>9 DEF BytesInv

LEMMA FlushDoneBytes == TypeInv /\ BytesInv /\ FlushDone => BytesInv'
<1> SUFFICES ASSUME TypeInv, BytesInv, FlushDone PROVE BytesInv'
  OBVIOUS
<1>1. /\ UNCHANGED <<chain, acked, mbStorage, dataFile, dbBlocks, disk, wStorage, wDataFile>>
      /\ Working /\ FilesAhead' /\ NextHeight' = NextHeight
      /\ NewPlaces' = NewPlaces /\ NewSizes' = NewSizes
  BY DEF FlushDone, Working, FilesAhead, NextHeight, NewPlaces, NewSizes, diskVars
<1>2. \A f \in Files : buffer'[f] = buffer[f]
  BY DEF FlushDone, FlushComplete, Pending
<1>3. Written' = Written
  BY <1>1, <1>2 DEF Written
<1>4. PlacesHold(mbStorage, disk)'
  BY <1>1 DEF BytesInv, PlacesHold, Holds
<1>5. PlacesHold(NewPlaces, Written)' /\ SizesExact(NewSizes, Written, {NextHeight})'
  BY <1>1, <1>3 DEF BytesInv, PlacesHold, Holds, SizesExact, ClosedAt, TimeOf
<1> QED
  BY <1>1, <1>4, <1>5 DEF BytesInv

LEMMA WriteBatchBytes == TypeInv /\ CoverInv /\ BytesInv /\ WriteBatch => BytesInv'
<1> SUFFICES ASSUME TypeInv, CoverInv, BytesInv, WriteBatch PROVE BytesInv'
  OBVIOUS
<1>1. /\ mbStorage' = NewPlaces /\ dataFile' = NewSizes /\ dbBlocks' = dbBlocks \cup {NextHeight}
      /\ UNCHANGED <<chain, acked, disk>> /\ ~Working' /\ Working
  BY DEF WriteBatch, NewPlaces, NewSizes, Working
<1>2. \A f \in Files : Written[f] = disk[f]
  BY WrittenType DEF TypeInv, CoverInv, NothingPendingOnceFlushed, WriteBatch, Pending
<1>3. PlacesHold(NewPlaces, Written) /\ SizesExact(NewSizes, Written, {NextHeight})
  BY <1>1 DEF BytesInv
<1>4. \A m \in Microblocks : FileOf[m] \in Files
  OBVIOUS
<1>5. PlacesHold(mbStorage, disk)'
  BY <1>1, <1>2, <1>3, <1>4 DEF PlacesHold, Holds
<1>6. SizesExact(dataFile, disk, dbBlocks)'
  BY <1>1, <1>2, <1>3 DEF SizesExact, ClosedAt, TimeOf
<1> QED
  BY <1>1, <1>5, <1>6 DEF BytesInv

\* A step out of any block, while the files are not ahead of the tables.
LEMMA BytesKeptAtRest ==
  ASSUME BytesInv, ~FilesAhead, ~Working',
         UNCHANGED <<chain, mbStorage, dataFile, dbBlocks, disk>>
  PROVE  BytesInv'
BY DEF BytesInv, PlacesHold, Holds, SizesExact, ClosedAt, TimeOf

\* The node is not killed, and LevelDB refuses nothing, between the first flushed file and
\* the end of the batch.
NoCommitCutShort == ~BatchMayFail /\ CrashPoints \cap {"flushing", "flushed"} = {}

LEMMA BytesStep ==
  ASSUME NoCommitCutShort, TypeInv, TypeInv', CoverInv, PlacesInv, PlacesInv', BytesInv,
         [Next]_vars
  PROVE  BytesInv'
<1>1. ASSUME NEW t \in GenesisTime..MaxTime, NEW txs \in SeqOf(Microblocks, MaxTxs),
             Decide(t, txs)
      PROVE  BytesInv'
  BY <1>1, DecideBytes
<1>2. CASE BeginBlock
  BY <1>2, BeginBlockBytes
<1>3. CASE ExecTx
  BY <1>3, ExecTxBytes
<1>4. CASE EndBlock \/ UNCHANGED vars
  BY <1>4, BytesKept DEF EndBlock, vars, diskVars, memoryVars, Working, FilesAhead
<1>5. ASSUME NEW f \in Files, FlushFile(f) PROVE BytesInv'
  BY <1>5, FlushFileBytes
<1>6. CASE FlushDone
  BY <1>6, FlushDoneBytes
<1>7. CASE WriteBatch
  BY <1>7, WriteBatchBytes
<1>8. CASE CleanUp
  BY <1>8, CleanUpKeepsFiles, BytesKeptAtRest DEF TypeInv, CleanUp, Working, FilesAhead
<1>9. CASE Restart
  BY <1>9, BytesKeptAtRest DEF Restart, Working, FilesAhead, diskVars
<1>10. CASE Crash
  BY <1>10, BytesKeptAtRest
     DEF Crash, ForgetMemory, Working, FilesAhead, diskVars, NoCommitCutShort
<1>11. ~LoseBatch /\ ~\E f \in Files : \E n \in 1..Len(buffer[f]) : CrashWhileWriting(f, n)
  BY DEF NoCommitCutShort, LoseBatch, CrashWhileWriting
<1>12. QED
  BY <1>1, <1>2, <1>3, <1>4, <1>5, <1>6, <1>7, <1>8, <1>9, <1>10, <1>11
     DEF Next, Node, Fault

LEMMA BytesInit == Init => BytesInv
BY DEF Init, BytesInv, PlacesHold, SizesExact, Working

\* As long as no commit is cut short, every microblock that the database has a place for
\* and that has not expired reads back as it was submitted, at any moment and wherever
\* else the node is killed.
THEOREM CommittedIsReadable ==
  ASSUME NoCommitCutShort PROVE Spec => []CommittedReadable
<1> DEFINE Inv == TypeInv /\ CoverInv /\ PlacesInv /\ BytesInv
<1>1. Init => Inv
  BY TypeInvInit, CoverInit, PlacesInit, BytesInit
<1>2. Inv /\ [Next]_vars => Inv'
  BY TypeInvStep, CoverStep, PlacesStep, BytesStep
<1>3. Inv => CommittedReadable
  <2> SUFFICES ASSUME Inv, NEW m \in Microblocks, mbStorage[m] # Missing
               PROVE  ReadMicroblock(m) = Content(m)
    BY DEF CommittedReadable
  <2>1. /\ mbStorage[m].file = FileOf[m] /\ mbStorage[m].size = SizeOf[m]
        /\ mbStorage[m].offset \in Nat
    BY DEF PlacesInv, CommittedPlaces, PlacesFit, Locations
  <2>2. Holds(disk[FileOf[m]], m, mbStorage[m].offset)
    BY DEF BytesInv, PlacesHold
  <2>3. disk[FileOf[m]] \in Seq(Bytes) /\ SizeOf[m] \in Nat
    BY StorageAssumption DEF TypeInv, TypeOK
  <2>4. ~(mbStorage[m].offset + mbStorage[m].size > Len(disk[mbStorage[m].file]))
    BY <2>1, <2>2, <2>3 DEF Holds
  <2>5. ReadFromDisk(m) = Content(m)
    BY <2>1, <2>2, <2>4 DEF Holds, ReadFromDisk
  <2> QED
    BY <2>5 DEF ReadMicroblock
<1>4. QED
  BY <1>1, <1>2, <1>3, PTL DEF Spec

------------------------------------------------------------------------------
(* The log of the accepted microblocks *)

Logs == Seq(Microblocks)

IsAcceptFold(h, log, txs, t) ==
  h = [s \in SUBSET DOMAIN txs |->
         IF s = {} THEN log
         ELSE LET i == Max(s) IN Accept(h[s \ {i}], txs[i], t)]

LEMMA AcceptAllDefinition ==
  ASSUME NEW log, NEW txs, NEW t
  PROVE  AcceptAll(log, txs, t) = (CHOOSE h : IsAcceptFold(h, log, txs, t))[DOMAIN txs]
  BY DEF AcceptAll, FoldLeft, MapThenFoldSet, IsAcceptFold

LEMMA AcceptType ==
  ASSUME NEW log \in Logs, NEW m \in Microblocks, NEW t
  PROVE  Accept(log, m, t) \in Logs
BY DEF Accept, Logs

\* h has the log after each transaction, from the first to the last.
Accepting(h, log, txs, t) ==
  /\ h[0] = log /\ h[Len(txs)] = AcceptAll(log, txs, t)
  /\ \A i \in 1..Len(txs) : h[i] = Accept(h[i - 1], txs[i], t)

\* AcceptAll goes through the transactions from the first to the last.
LEMMA AcceptAllByPrefix ==
  ASSUME NEW log \in Logs, NEW txs \in Logs, NEW t
  PROVE  \E h \in [0..Len(txs) -> Logs] : Accepting(h, log, txs, t)
<1> DEFINE n == Len(txs)
           step == [p \in (1..n) \X Logs |-> Accept(p[2], txs[p[1]], t)]
<1>1. n \in Nat /\ DOMAIN txs = 1..n /\ \A i \in 1..n : txs[i] \in Microblocks
  BY DEF Logs
<1>2. step \in [(1..n) \X Logs -> Logs]
  BY <1>1, AcceptType
<1>3. \A i \in 1..n, q \in Logs : step[<<i, q>>] = Accept(q, txs[i], t)
  OBVIOUS
<1> HIDE DEF step, n
<1>4. PICK g \in [SUBSET (1..n) -> Logs] : IsLeftFold(g, step, log, n)
  BY <1>1, <1>2, LeftFoldExists
<1>5. IsAcceptFold(g, log, txs, t)
  <2> SUFFICES ASSUME NEW s \in SUBSET (1..n)
               PROVE  g[s] = IF s = {} THEN log
                             ELSE LET i == Max(s) IN Accept(g[s \ {i}], txs[i], t)
    BY <1>1, <1>4 DEF IsAcceptFold
  <2>1. g[s] = IF s = {} THEN log ELSE step[<<Max(s), g[s \ {Max(s)}]>>]
    BY <1>4 DEF IsLeftFold
  <2>2. CASE s = {}
    BY <2>1, <2>2
  <2>3. CASE s # {}
    <3>1. Max(s) \in 1..n /\ g[s \ {Max(s)}] \in Logs
      BY <1>1, <1>4, <2>3, MaxOfPositions
    <3> QED
      BY <1>3, <2>1, <2>3, <3>1
  <2> QED
    BY <2>2, <2>3
<1> DEFINE k == CHOOSE h : IsAcceptFold(h, log, txs, t)
<1>6. IsAcceptFold(k, log, txs, t)
  BY <1>5
<1> HIDE DEF k
<1>7. FoldsWithin(k, step, log, n, Logs)
  <2> SUFFICES ASSUME NEW s \in SUBSET (1..n)
               PROVE  /\ s = {} => k[s] = log
                      /\ s # {} /\ k[s \ {Max(s)}] \in Logs
                           => k[s] = step[<<Max(s), k[s \ {Max(s)}]>>]
    BY DEF FoldsWithin
  <2>1. k[s] = IF s = {} THEN log
               ELSE LET i == Max(s) IN Accept(k[s \ {i}], txs[i], t)
    BY <1>1, <1>6 DEF IsAcceptFold
  <2>2. s # {} => Max(s) \in 1..n
    BY <1>1, MaxOfPositions
  <2> QED
    BY <1>3, <2>1, <2>2
<1>8. k[1..n] = g[1..n]
  <2>1. n \in Nat /\ g \in [SUBSET (1..n) -> Logs] /\ IsLeftFold(g, step, log, n)
    BY <1>1, <1>4
  <2>2. SameFold(k, g, n)
    BY <1>7, <2>1, LeftFoldUnique
  <2> QED
    BY <2>2 DEF SameFold
<1>9. AcceptAll(log, txs, t) = g[1..n]
  BY <1>1, <1>8, AcceptAllDefinition DEF k
<1>10. PICK h \in [0..n -> Logs] : PrefixValues(h, g, step, log, n)
  BY <1>1, <1>4, LeftFoldByPrefix
<1>11. \A i \in 1..n : h[i] = Accept(h[i - 1], txs[i], t)
  <2> SUFFICES ASSUME NEW i \in 1..n PROVE h[i] = Accept(h[i - 1], txs[i], t)
    OBVIOUS
  <2>1. h[i - 1] \in Logs
    BY <1>1, <1>10
  <2> QED
    BY <1>3, <1>10, <2>1 DEF PrefixValues
<1> QED
  BY <1>9, <1>10, <1>11 DEF n, PrefixValues, Accepting

\* What the block at height i adds to a log.
AfterBlock(log, blocks, heights, i) ==
  IF i \in heights THEN AcceptAll(log, blocks[i].txs, blocks[i].time) ELSE log

\* The positions of the blocks are their heights.
HeightsOf(blocks) == [j \in DOMAIN blocks |-> j]

IsLogFold(h, blocks, heights) ==
  h = [s \in SUBSET DOMAIN HeightsOf(blocks) |->
         IF s = {} THEN <<>>
         ELSE LET i == Max(s)
              IN  AfterBlock(h[s \ {i}], blocks, heights, HeightsOf(blocks)[i])]

LEMMA LogDefinition ==
  ASSUME NEW blocks, NEW heights
  PROVE  LogOf(blocks, heights) =
           (CHOOSE h : IsLogFold(h, blocks, heights))[DOMAIN HeightsOf(blocks)]
  BY DEF LogOf, FoldLeftDomain, FoldLeft, MapThenFoldSet, IsLogFold, HeightsOf, AfterBlock

LEMMA AcceptAllType ==
  ASSUME NEW log \in Logs, NEW txs \in Logs, NEW t
  PROVE  AcceptAll(log, txs, t) \in Logs
<1>1. PICK h \in [0..Len(txs) -> Logs] : h[Len(txs)] = AcceptAll(log, txs, t)
  BY AcceptAllByPrefix DEF Accepting
<1>2. Len(txs) \in 0..Len(txs)
  BY DEF Logs
<1> QED
  BY <1>1, <1>2

LEMMA AfterBlockType ==
  ASSUME NEW log \in Logs, NEW blocks \in Seq(Blocks), NEW heights, NEW i \in 1..Len(blocks)
  PROVE  AfterBlock(log, blocks, heights, i) \in Logs
<1>1. blocks[i] \in Blocks
  OBVIOUS
<1>2. blocks[i].txs \in Logs
  BY <1>1 DEF Blocks, Logs
<1> QED
  BY <1>2, AcceptAllType DEF AfterBlock

\* LogOf goes through the blocks from the first to the last.
LEMMA LogByPrefix ==
  ASSUME NEW blocks \in Seq(Blocks), NEW heights
  PROVE  \E h \in [0..Len(blocks) -> Logs] :
            /\ h[0] = <<>>
            /\ h[Len(blocks)] = LogOf(blocks, heights)
            /\ \A i \in 1..Len(blocks) : h[i] = AfterBlock(h[i - 1], blocks, heights, i)
<1> DEFINE n == Len(blocks)
           step == [p \in (1..n) \X Logs |-> AfterBlock(p[2], blocks, heights, p[1])]
<1>1. /\ n \in Nat /\ DOMAIN blocks = 1..n /\ <<>> \in Logs
      /\ \A i \in 1..n : HeightsOf(blocks)[i] = i
      /\ DOMAIN HeightsOf(blocks) = 1..n
  BY DEF Logs, HeightsOf
<1>2. step \in [(1..n) \X Logs -> Logs]
  BY <1>1, AfterBlockType
<1>3. \A i \in 1..n, q \in Logs : step[<<i, q>>] = AfterBlock(q, blocks, heights, i)
  OBVIOUS
<1> HIDE DEF step, n
<1>4. PICK g \in [SUBSET (1..n) -> Logs] : IsLeftFold(g, step, <<>>, n)
  BY <1>1, <1>2, LeftFoldExists
<1>5. IsLogFold(g, blocks, heights)
  <2> SUFFICES ASSUME NEW s \in SUBSET (1..n)
               PROVE  g[s] = IF s = {} THEN <<>>
                             ELSE AfterBlock(g[s \ {Max(s)}], blocks, heights, Max(s))
    <3>1. \A r \in SUBSET (1..n) : r # {} => HeightsOf(blocks)[Max(r)] = Max(r)
      BY <1>1, MaxOfPositions
    <3> QED
      BY <1>1, <1>4, <3>1 DEF IsLogFold
  <2>1. g[s] = IF s = {} THEN <<>> ELSE step[<<Max(s), g[s \ {Max(s)}]>>]
    BY <1>4 DEF IsLeftFold
  <2>2. CASE s = {}
    BY <2>1, <2>2
  <2>3. CASE s # {}
    <3>1. Max(s) \in 1..n /\ g[s \ {Max(s)}] \in Logs
      BY <1>1, <1>4, <2>3, MaxOfPositions
    <3> QED
      BY <1>3, <2>1, <2>3, <3>1
  <2> QED
    BY <2>2, <2>3
<1> DEFINE k == CHOOSE h : IsLogFold(h, blocks, heights)
<1>6. IsLogFold(k, blocks, heights)
  BY <1>5
<1> HIDE DEF k
<1>7. FoldsWithin(k, step, <<>>, n, Logs)
  <2> SUFFICES ASSUME NEW s \in SUBSET (1..n)
               PROVE  /\ s = {} => k[s] = <<>>
                      /\ s # {} /\ k[s \ {Max(s)}] \in Logs
                           => k[s] = step[<<Max(s), k[s \ {Max(s)}]>>]
    BY DEF FoldsWithin
  <2>1. k[s] = IF s = {} THEN <<>>
               ELSE AfterBlock(k[s \ {Max(s)}], blocks, heights, HeightsOf(blocks)[Max(s)])
    BY <1>1, <1>6 DEF IsLogFold
  <2>2. s # {} => Max(s) \in 1..n /\ HeightsOf(blocks)[Max(s)] = Max(s)
    BY <1>1, MaxOfPositions
  <2> QED
    BY <1>3, <2>1, <2>2
<1>8. k[1..n] = g[1..n]
  <2>1. n \in Nat /\ g \in [SUBSET (1..n) -> Logs] /\ IsLeftFold(g, step, <<>>, n)
    BY <1>1, <1>4
  <2>2. SameFold(k, g, n)
    BY <1>7, <2>1, LeftFoldUnique
  <2> QED
    BY <2>2 DEF SameFold
<1>9. LogOf(blocks, heights) = g[1..n]
  BY <1>1, <1>8, LogDefinition DEF k
<1>10. PICK h \in [0..n -> Logs] : PrefixValues(h, g, step, <<>>, n)
  BY <1>1, <1>4, LeftFoldByPrefix
<1>11. \A i \in 1..n : h[i] = AfterBlock(h[i - 1], blocks, heights, i)
  <2> SUFFICES ASSUME NEW i \in 1..n PROVE h[i] = AfterBlock(h[i - 1], blocks, heights, i)
    OBVIOUS
  <2>1. h[i - 1] \in Logs
    BY <1>1, <1>10
  <2> QED
    BY <1>3, <1>10, <2>1 DEF PrefixValues
<1> QED
  BY <1>9, <1>10, <1>11 DEF n, PrefixValues

------------------------------------------------------------------------------
(* The content of a file on a node that never crashed *)

IsBytesFold(h, log, f) ==
  h = [s \in SUBSET DOMAIN log |->
         IF s = {} THEN <<>>
         ELSE LET i == Max(s)
              IN  IF FileOf[log[i]] = f THEN h[s \ {i}] \o Content(log[i]) ELSE h[s \ {i}]]

LEMMA BytesDefinition ==
  ASSUME NEW log, NEW f
  PROVE  BytesOf(log, f) = (CHOOSE h : IsBytesFold(h, log, f))[DOMAIN log]
  BY DEF BytesOf, FoldLeft, MapThenFoldSet, IsBytesFold

\* The bytes of file f, after those of microblock m have been added if they belong there.
Extended(bytes, m, f) == IF FileOf[m] = f THEN bytes \o Content(m) ELSE bytes

LEMMA ExtendedType ==
  ASSUME NEW bytes \in Seq(Bytes), NEW m \in Microblocks, NEW f
  PROVE  Extended(bytes, m, f) \in Seq(Bytes)
BY ContentType DEF Extended

\* BytesOf goes through the log from the first microblock to the last.
LEMMA BytesByPrefix ==
  ASSUME NEW log \in Logs, NEW f
  PROVE  \E h \in [0..Len(log) -> Seq(Bytes)] :
            /\ h[0] = <<>>
            /\ h[Len(log)] = BytesOf(log, f)
            /\ \A i \in 1..Len(log) : h[i] = Extended(h[i - 1], log[i], f)
<1> DEFINE V == Seq(Bytes)
           n == Len(log)
           step == [p \in (1..n) \X V |-> Extended(p[2], log[p[1]], f)]
<1>1. /\ n \in Nat /\ DOMAIN log = 1..n /\ <<>> \in V
      /\ \A i \in 1..n : log[i] \in Microblocks
  BY DEF Logs
<1>2. step \in [(1..n) \X V -> V]
  BY <1>1, ExtendedType
<1>3. \A i \in 1..n, q \in V : step[<<i, q>>] = Extended(q, log[i], f)
  OBVIOUS
<1> HIDE DEF step, n, V
<1>4. PICK g \in [SUBSET (1..n) -> V] : IsLeftFold(g, step, <<>>, n)
  BY <1>1, <1>2, LeftFoldExists
<1>5. IsBytesFold(g, log, f)
  <2> SUFFICES ASSUME NEW s \in SUBSET (1..n)
               PROVE  g[s] = IF s = {} THEN <<>>
                             ELSE LET i == Max(s) IN Extended(g[s \ {i}], log[i], f)
    BY <1>1, <1>4 DEF IsBytesFold, Extended
  <2>1. g[s] = IF s = {} THEN <<>> ELSE step[<<Max(s), g[s \ {Max(s)}]>>]
    BY <1>4 DEF IsLeftFold
  <2>2. CASE s = {}
    BY <2>1, <2>2
  <2>3. CASE s # {}
    <3>1. Max(s) \in 1..n /\ g[s \ {Max(s)}] \in V
      BY <1>1, <1>4, <2>3, MaxOfPositions
    <3> QED
      BY <1>3, <2>1, <2>3, <3>1
  <2> QED
    BY <2>2, <2>3
<1> DEFINE k == CHOOSE h : IsBytesFold(h, log, f)
<1>6. IsBytesFold(k, log, f)
  BY <1>5
<1> HIDE DEF k
<1>7. FoldsWithin(k, step, <<>>, n, V)
  <2> SUFFICES ASSUME NEW s \in SUBSET (1..n)
               PROVE  /\ s = {} => k[s] = <<>>
                      /\ s # {} /\ k[s \ {Max(s)}] \in V
                           => k[s] = step[<<Max(s), k[s \ {Max(s)}]>>]
    BY DEF FoldsWithin
  <2>1. k[s] = IF s = {} THEN <<>>
               ELSE LET i == Max(s) IN Extended(k[s \ {i}], log[i], f)
    BY <1>1, <1>6 DEF IsBytesFold, Extended
  <2>2. s # {} => Max(s) \in 1..n
    BY <1>1, MaxOfPositions
  <2> QED
    BY <1>3, <2>1, <2>2
<1>8. k[1..n] = g[1..n]
  <2>1. n \in Nat /\ g \in [SUBSET (1..n) -> V] /\ IsLeftFold(g, step, <<>>, n)
    BY <1>1, <1>4
  <2>2. SameFold(k, g, n)
    BY <1>7, <2>1, LeftFoldUnique
  <2> QED
    BY <2>2 DEF SameFold
<1>9. BytesOf(log, f) = g[1..n]
  BY <1>1, <1>8, BytesDefinition DEF k
<1>10. PICK h \in [0..n -> V] : PrefixValues(h, g, step, <<>>, n)
  BY <1>1, <1>4, LeftFoldByPrefix
<1>11. \A i \in 1..n : h[i] = Extended(h[i - 1], log[i], f)
  <2> SUFFICES ASSUME NEW i \in 1..n PROVE h[i] = Extended(h[i - 1], log[i], f)
    OBVIOUS
  <2>1. h[i - 1] \in V
    BY <1>1, <1>10
  <2> QED
    BY <1>3, <1>10, <2>1 DEF PrefixValues
<1> QED
  BY <1>9, <1>10, <1>11 DEF n, V, PrefixValues
------------------------------------------------------------------------------
(* What the folds compute, one element at a time *)

\* Two sequences of values that start and go on alike end alike.
GoAlike(h, g, n) == h[0] = g[0] /\ \A i \in 1..n : h[i - 1] = g[i - 1] => h[i] = g[i]

LEMMA AlikeToTheEnd ==
  ASSUME NEW n \in Nat, NEW h, NEW g, GoAlike(h, g, n)
  PROVE  h[n] = g[n]
<1> DEFINE N == {i \in Nat : i <= n => h[i] = g[i]}
<1>1. 0 \in N
  BY DEF GoAlike
<1>2. ASSUME NEW i \in Nat, i \in N PROVE i + 1 \in N
  <2> SUFFICES ASSUME i + 1 <= n PROVE h[i + 1] = g[i + 1]
    OBVIOUS
  <2>1. i + 1 \in 1..n /\ (i + 1) - 1 = i /\ h[i] = g[i]
    BY <1>2
  <2> QED
    BY <2>1 DEF GoAlike
<1>3. n \in N
  <2> HIDE DEF N
  <2> QED
    BY <1>1, <1>2, InductionOnNumbers
<1> QED
  BY <1>3

LEMMA AcceptAllOfNone ==
  ASSUME NEW log \in Logs, NEW txs \in Logs, NEW t
  PROVE  Len(txs) = 0 => AcceptAll(log, txs, t) = log
<1>1. PICK h \in [0..Len(txs) -> Logs] : Accepting(h, log, txs, t)
  BY AcceptAllByPrefix
<1> QED
  BY <1>1 DEF Accepting

LEMMA AcceptAllNothing ==
  ASSUME NEW log \in Logs, NEW t
  PROVE  AcceptAll(log, <<>>, t) = log
<1>1. <<>> \in Logs /\ Len(<<>>) = 0
  BY DEF Logs
<1> QED
  BY <1>1, AcceptAllOfNone

LEMMA AcceptAllAppend ==
  ASSUME NEW log \in Logs, NEW txs \in Logs, NEW m \in Microblocks, NEW t
  PROVE  AcceptAll(log, Append(txs, m), t) = Accept(AcceptAll(log, txs, t), m, t)
<1> DEFINE n == Len(txs)
           all == Append(txs, m)
<1>1. /\ n \in Nat /\ all \in Logs /\ Len(all) = n + 1 /\ all[n + 1] = m
      /\ \A i \in 1..n : all[i] = txs[i]
  BY DEF Logs
<1>2. PICK h \in [0..n -> Logs] :
         /\ h[0] = log /\ h[n] = AcceptAll(log, txs, t)
         /\ \A i \in 1..n : h[i] = Accept(h[i - 1], txs[i], t)
  BY AcceptAllByPrefix DEF Accepting
<1>3. PICK g \in [0..Len(all) -> Logs] :
         /\ g[0] = log /\ g[Len(all)] = AcceptAll(log, all, t)
         /\ \A i \in 1..Len(all) : g[i] = Accept(g[i - 1], all[i], t)
  BY <1>1, AcceptAllByPrefix DEF Accepting
<1> HIDE DEF n, all
<1>4. GoAlike(h, g, n)
  <2>1. ASSUME NEW i \in 1..n, h[i - 1] = g[i - 1] PROVE h[i] = g[i]
    <3>1. i \in 1..Len(all)
      BY <1>1
    <3> QED
      BY <1>1, <1>2, <1>3, <2>1, <3>1
  <2> QED
    BY <1>2, <1>3, <2>1 DEF GoAlike
<1>5. h[n] = g[n]
  BY <1>1, <1>4, AlikeToTheEnd
<1>6. g[n + 1] = Accept(g[n], m, t)
  <2>1. n + 1 \in 1..Len(all) /\ (n + 1) - 1 = n
    BY <1>1
  <2> QED
    BY <1>1, <1>3, <2>1
<1> QED
  BY <1>1, <1>2, <1>3, <1>5, <1>6 DEF n, all

LEMMA LogType ==
  ASSUME NEW blocks \in Seq(Blocks), NEW heights
  PROVE  LogOf(blocks, heights) \in Logs
<1>1. PICK h \in [0..Len(blocks) -> Logs] : h[Len(blocks)] = LogOf(blocks, heights)
  BY LogByPrefix
<1>2. Len(blocks) \in 0..Len(blocks)
  OBVIOUS
<1> QED
  BY <1>1, <1>2

LEMMA LogOfNothing ==
  ASSUME NEW heights
  PROVE  LogOf(<<>>, heights) = <<>>
<1>1. <<>> \in Seq(Blocks) /\ Len(<<>>) = 0
  OBVIOUS
<1>2. PICK h \in [0..Len(<<>>) -> Logs] : h[0] = <<>> /\ h[Len(<<>>)] = LogOf(<<>>, heights)
  BY <1>1, LogByPrefix
<1> QED
  BY <1>1, <1>2

\* A block that is decided, but not recorded, leaves the log alone.
LEMMA LogOfUnrecorded ==
  ASSUME NEW blocks \in Seq(Blocks), NEW b \in Blocks, NEW heights,
         Len(blocks) + 1 \notin heights
  PROVE  LogOf(Append(blocks, b), heights) = LogOf(blocks, heights)
<1> DEFINE n == Len(blocks)
           all == Append(blocks, b)
<1>1. /\ n \in Nat /\ all \in Seq(Blocks) /\ Len(all) = n + 1
      /\ \A i \in 1..n : all[i] = blocks[i]
  OBVIOUS
<1>2. PICK h \in [0..n -> Logs] :
         /\ h[0] = <<>> /\ h[n] = LogOf(blocks, heights)
         /\ \A i \in 1..n : h[i] = AfterBlock(h[i - 1], blocks, heights, i)
  BY LogByPrefix
<1>3. PICK g \in [0..Len(all) -> Logs] :
         /\ g[0] = <<>> /\ g[Len(all)] = LogOf(all, heights)
         /\ \A i \in 1..Len(all) : g[i] = AfterBlock(g[i - 1], all, heights, i)
  BY <1>1, LogByPrefix
<1>4. n + 1 \notin heights
  OBVIOUS
<1> HIDE DEF n, all
<1>5. GoAlike(h, g, n)
  <2>1. ASSUME NEW i \in 1..n, h[i - 1] = g[i - 1] PROVE h[i] = g[i]
    <3>1. i \in 1..Len(all)
      BY <1>1
    <3>2. AfterBlock(h[i - 1], blocks, heights, i) = AfterBlock(g[i - 1], all, heights, i)
      BY <1>1, <2>1 DEF AfterBlock
    <3> QED
      BY <1>2, <1>3, <3>1, <3>2
  <2> QED
    BY <1>2, <1>3, <2>1 DEF GoAlike
<1>6. h[n] = g[n]
  BY <1>1, <1>5, AlikeToTheEnd
<1>7. g[n + 1] = g[n]
  <2>1. n + 1 \in 1..Len(all) /\ (n + 1) - 1 = n
    BY <1>1
  <2>2. g[n + 1] = AfterBlock(g[n], all, heights, n + 1)
    BY <1>3, <2>1
  <2> QED
    BY <1>4, <2>2 DEF AfterBlock
<1> QED
  BY <1>1, <1>2, <1>3, <1>6, <1>7 DEF n, all

\* A block that is recorded above all others is executed after them.
LEMMA LogOfRecorded ==
  ASSUME NEW blocks \in Seq(Blocks), NEW heights, NEW k \in 1..Len(blocks),
         \A h \in heights : h \in Nat /\ h < k
  PROVE  LogOf(blocks, heights \cup {k}) =
           AcceptAll(LogOf(blocks, heights), blocks[k].txs, blocks[k].time)
<1> DEFINE n == Len(blocks)
           more == heights \cup {k}
<1>1. /\ n \in Nat /\ k \in 1..n /\ k \in more /\ k - 1 \in Nat
      /\ \A i \in 1..n : i < k => (i \in more <=> i \in heights)
      /\ \A i \in 1..n : i > k => i \notin more
      /\ \A i \in 1..n : i >= k => i \notin heights
  OBVIOUS
<1>2. PICK h \in [0..n -> Logs] :
         /\ h[0] = <<>> /\ h[n] = LogOf(blocks, heights)
         /\ \A i \in 1..n : h[i] = AfterBlock(h[i - 1], blocks, heights, i)
  BY LogByPrefix
<1>3. PICK g \in [0..n -> Logs] :
         /\ g[0] = <<>> /\ g[n] = LogOf(blocks, more)
         /\ \A i \in 1..n : g[i] = AfterBlock(g[i - 1], blocks, more, i)
  BY LogByPrefix
<1> HIDE DEF n, more
<1>4. h[k - 1] = g[k - 1]
  <2>1. ASSUME NEW i \in 1..(k - 1), h[i - 1] = g[i - 1] PROVE h[i] = g[i]
    <3>1. i \in 1..n /\ i < k
      BY <1>1
    <3>2. AfterBlock(h[i - 1], blocks, heights, i) = AfterBlock(g[i - 1], blocks, more, i)
      BY <1>1, <2>1, <3>1 DEF AfterBlock
    <3> QED
      BY <1>2, <1>3, <3>1, <3>2
  <2>2. GoAlike(h, g, k - 1)
    BY <1>2, <1>3, <2>1 DEF GoAlike
  <2> QED
    BY <1>1, <2>2, AlikeToTheEnd
<1>5. g[k] = AcceptAll(h[k - 1], blocks[k].txs, blocks[k].time)
  BY <1>1, <1>3, <1>4 DEF AfterBlock
<1>6. \A i \in 1..n : i >= k => h[i] = h[i - 1]
  BY <1>1, <1>2 DEF AfterBlock
<1>7. \A i \in 1..n : i > k => g[i] = g[i - 1]
  BY <1>1, <1>3 DEF AfterBlock
<1>8. h[n] = h[k - 1] /\ g[n] = g[k]
  <2> DEFINE N == {i \in Nat : i <= n /\ i >= k => h[i] = h[k - 1] /\ g[i] = g[k]}
  <2>1. 0 \in N
    BY <1>1
  <2>2. ASSUME NEW i \in Nat, i \in N PROVE i + 1 \in N
    <3> SUFFICES ASSUME i + 1 <= n, i + 1 >= k
                 PROVE  h[i + 1] = h[k - 1] /\ g[i + 1] = g[k]
      OBVIOUS
    <3>1. i + 1 \in 1..n /\ (i + 1) - 1 = i
      BY <1>1
    <3>2. h[i + 1] = h[i]
      BY <1>6, <3>1
    <3>3. CASE i + 1 = k
      <4>1. i = k - 1
        BY <1>1, <3>3
      <4> QED
        BY <3>2, <3>3, <4>1
    <3>4. CASE i + 1 # k
      <4>1. i + 1 > k /\ i >= k /\ i <= n
        BY <1>1, <3>4
      <4> QED
        BY <1>7, <2>2, <3>1, <3>2, <4>1
    <3> QED
      BY <3>3, <3>4
  <2>3. n \in N
    <3> HIDE DEF N
    <3> QED
      BY <1>1, <2>1, <2>2, InductionOnNumbers
  <2> QED
    BY <1>1, <2>3
<1> QED
  BY <1>2, <1>3, <1>5, <1>8 DEF n, more

LEMMA BytesNothing ==
  ASSUME NEW f
  PROVE  BytesOf(<<>>, f) = <<>>
<1>1. <<>> \in Logs /\ Len(<<>>) = 0
  BY DEF Logs
<1>2. PICK h \in [0..Len(<<>>) -> Seq(Bytes)] : h[0] = <<>> /\ h[Len(<<>>)] = BytesOf(<<>>, f)
  BY <1>1, BytesByPrefix
<1> QED
  BY <1>1, <1>2

LEMMA BytesType ==
  ASSUME NEW log \in Logs, NEW f
  PROVE  BytesOf(log, f) \in Seq(Bytes)
<1>1. PICK h \in [0..Len(log) -> Seq(Bytes)] : h[Len(log)] = BytesOf(log, f)
  BY BytesByPrefix
<1>2. Len(log) \in 0..Len(log)
  BY DEF Logs
<1> QED
  BY <1>1, <1>2

LEMMA BytesAppend ==
  ASSUME NEW log \in Logs, NEW m \in Microblocks, NEW f
  PROVE  BytesOf(Append(log, m), f) = Extended(BytesOf(log, f), m, f)
<1> DEFINE n == Len(log)
           all == Append(log, m)
<1>1. /\ n \in Nat /\ all \in Logs /\ Len(all) = n + 1 /\ all[n + 1] = m
      /\ \A i \in 1..n : all[i] = log[i]
  BY DEF Logs
<1>2. PICK h \in [0..n -> Seq(Bytes)] :
         /\ h[0] = <<>> /\ h[n] = BytesOf(log, f)
         /\ \A i \in 1..n : h[i] = Extended(h[i - 1], log[i], f)
  BY BytesByPrefix
<1>3. PICK g \in [0..Len(all) -> Seq(Bytes)] :
         /\ g[0] = <<>> /\ g[Len(all)] = BytesOf(all, f)
         /\ \A i \in 1..Len(all) : g[i] = Extended(g[i - 1], all[i], f)
  BY <1>1, BytesByPrefix
<1> HIDE DEF n, all
<1>4. GoAlike(h, g, n)
  <2>1. ASSUME NEW i \in 1..n, h[i - 1] = g[i - 1] PROVE h[i] = g[i]
    <3>1. i \in 1..Len(all)
      BY <1>1
    <3> QED
      BY <1>1, <1>2, <1>3, <2>1, <3>1
  <2> QED
    BY <1>2, <1>3, <2>1 DEF GoAlike
<1>5. h[n] = g[n]
  BY <1>1, <1>4, AlikeToTheEnd
<1>6. g[n + 1] = Extended(g[n], m, f)
  <2>1. n + 1 \in 1..Len(all) /\ (n + 1) - 1 = n
    BY <1>1
  <2> QED
    BY <1>1, <1>3, <2>1
<1> QED
  BY <1>1, <1>2, <1>3, <1>5, <1>6 DEF n, all

------------------------------------------------------------------------------
(* Days *)

LEMMA Division ==
  ASSUME NEW d \in Nat \ {0}, NEW t \in Nat
  PROVE  \E q \in Nat : t - (t % d) = d * q /\ t < d * q + d /\ t % d \in 0..(d - 1)
<1>1. t = d * (t \div d) + (t % d) /\ t % d \in 0..(d - 1) /\ t \div d \in Nat
  OBVIOUS
<1> QED
  BY <1>1

LEMMA DaysAreOrdered ==
  ASSUME NEW t \in Nat, NEW u \in Nat, t <= u
  PROVE  DayOf(t) \in Nat /\ DayOf(u) \in Nat /\ DayOf(t) <= DayOf(u)
<1> DEFINE d == DayLength
<1>1. d \in Nat \ {0}
  BY StorageAssumption
<1> HIDE DEF d
<1>2. PICK q \in Nat : t - (t % d) = d * q /\ t < d * q + d /\ t % d \in 0..(d - 1)
  BY <1>1, Division
<1>3. PICK p \in Nat : u - (u % d) = d * p /\ u < d * p + d /\ u % d \in 0..(d - 1)
  BY <1>1, Division
<1>4. d * q <= d * p
  <2> SUFFICES ASSUME d * q > d * p PROVE FALSE
    BY <1>1
  <2>1. q > p
    BY <1>1
  <2>2. q = p + 1 + (q - p - 1) /\ q - p - 1 \in Nat
    BY <2>1
  <2>3. PICK r \in Nat : q = p + 1 + r
    BY <2>2
  <2>4. d * q = d * p + d + d * r /\ d * r >= 0
    BY <1>1, <2>3
  <2>5. d * q <= t
    BY <1>1, <1>2
  <2> QED
    BY <1>1, <1>3, <2>4, <2>5
<1>5. t - (t % d) <= u - (u % d)
  BY <1>1, <1>2, <1>3, <1>4
<1> QED
  BY <1>5, DayOfType DEF DayOf, d

\* A file that a block at time t may write to is not purged on the day of that block.
LEMMA AcceptedIsNotPurged ==
  ASSUME NEW t \in Nat, t <= MaxTime, NEW m \in Microblocks, ~ExpiredAt(m, t)
  PROVE  ~PurgedOn(FileOf[m], DayOf(t))
<1>1. FileOf[m] \in Nat /\ DayOf(t) \in Nat /\ DayOf(t) <= t
  BY DayOfType, StorageAssumption
<1> QED
  BY <1>1, StorageAssumption DEF ExpiredAt, PurgedOn

------------------------------------------------------------------------------
(* The tables are those of the log *)

\* The accepted microblocks, with those that the block under execution has had so far.
LogSoFar ==
  AcceptAll(AcceptedLog, SubSeq(chain[NextHeight].txs, 1, txIndex - 1), chain[NextHeight].time)

\* The tables are those of the microblocks in log, on that day.
TablesMatch(places, sizes, log, today) ==
  /\ \A m \in Microblocks :
       IF m \in ToSet(log)
       THEN places[m] # Missing /\ Holds(BytesOf(log, FileOf[m]), m, places[m].offset)
       ELSE places[m] = Missing
  /\ \A f \in Files :
       sizes[f] = IF BytesOf(log, f) = <<>> \/ PurgedOn(f, today)
                  THEN Missing ELSE Len(BytesOf(log, f))

\* How far the block under execution is.
Progress ==
  /\ NextHeight \notin dbBlocks
  /\ txIndex <= Len(chain[NextHeight].txs) + 1
  /\ pc # "executing" => txIndex = Len(chain[NextHeight].txs) + 1

TablesInv ==
  /\ TablesMatch(mbStorage, dataFile, AcceptedLog, DayOf(TimeOf(DbHeight)))
  /\ Working => /\ Progress
                /\ TablesMatch(NewPlaces, NewSizes, LogSoFar, DayOf(TimeOf(NextHeight)))

LEMMA ElementsOfAppend ==
  ASSUME NEW log \in Logs, NEW m \in Microblocks
  PROVE  ToSet(Append(log, m)) = ToSet(log) \cup {m}
<1> DEFINE n == Len(log)
           all == Append(log, m)
<1>1. /\ n \in Nat /\ DOMAIN log = 1..n /\ DOMAIN all = 1..(n + 1) /\ all[n + 1] = m
      /\ \A i \in 1..n : all[i] = log[i]
  BY DEF Logs
<1> HIDE DEF all, n
<1>2. ToSet(all) = ToSet(log) \cup {m}
  BY <1>1 DEF ToSet
<1> QED
  BY <1>2 DEF all

\* Adding the place of a microblock to the tables and the microblock to the log.
LEMMA AddedMatches ==
  ASSUME NEW log \in Logs, NEW m \in Microblocks, m \notin ToSet(log), NEW today,
         NEW places, NEW sizes, PlacesFit(places, sizes), TablesMatch(places, sizes, log, today),
         NEW size, size = Len(BytesOf(log, FileOf[m])), ~PurgedOn(FileOf[m], today),
         NEW newPlaces, NEW newSizes, Added(m, size, places, sizes, newPlaces, newSizes)
  PROVE  TablesMatch(newPlaces, newSizes, Append(log, m), today)
<1> DEFINE f == FileOf[m]
           all == Append(log, m)
           c == Content(m)
<1>1. f \in Files /\ SizeOf[m] \in Nat \ {0} /\ Missing \notin Nat /\ Missing \notin Locations
  <2>1. f \in Files
    OBVIOUS
  <2>2. SizeOf[m] \in Nat \ {0}
    BY StorageAssumption
  <2>3. Missing \notin Nat /\ Missing \notin Locations
    BY StorageAssumption
  <2> QED
    BY <2>1, <2>2, <2>3
<1>2. c \in Seq(Bytes) /\ Len(c) = SizeOf[m]
  BY ContentType
<1>3. \A g \in Files : /\ BytesOf(log, g) \in Seq(Bytes)
                       /\ BytesOf(all, g) = IF g = f THEN BytesOf(log, g) \o c ELSE BytesOf(log, g)
  <2> SUFFICES ASSUME NEW g \in Files
               PROVE  /\ BytesOf(log, g) \in Seq(Bytes)
                      /\ BytesOf(all, g) =
                           IF g = f THEN BytesOf(log, g) \o c ELSE BytesOf(log, g)
    OBVIOUS
  <2>1. BytesOf(all, g) = Extended(BytesOf(log, g), m, g)
    BY BytesAppend
  <2> QED
    BY <2>1, BytesType DEF Extended
<1>4. ToSet(all) = ToSet(log) \cup {m}
  BY ElementsOfAppend
<1>5. size \in Nat /\ Len(BytesOf(all, f)) = size + SizeOf[m] /\ BytesOf(all, f) # <<>>
  <2> DEFINE b == BytesOf(log, f)
  <2>1. b \in Seq(Bytes) /\ size = Len(b) /\ BytesOf(all, f) = b \o c
    BY <1>1, <1>3
  <2> HIDE DEF b, c, f, all
  <2>2. Len(b \o c) = Len(b) + Len(c) /\ Len(b) \in Nat
    BY <1>2, <2>1, ConcatProperties, LenProperties
  <2>3. Len(BytesOf(all, f)) = size + SizeOf[m] /\ size \in Nat
    BY <1>2, <2>1, <2>2
  <2>4. Len(BytesOf(all, f)) # 0
    BY <1>1, <2>3
  <2>5. Len(<<>>) = 0
    OBVIOUS
  <2> QED
    BY <2>3, <2>4, <2>5
<1>6. /\ newPlaces[m] = Place(m, size) /\ \A n \in Microblocks \ {m} : newPlaces[n] = places[n]
      /\ newSizes[f] = size + SizeOf[m] /\ \A g \in Files \ {f} : newSizes[g] = sizes[g]
  BY <1>1 DEF Added
<1>7. Place(m, size) \in Locations /\ Place(m, size).offset = size /\ Place(m, size) # Missing
  BY <1>1, <1>5 DEF Place, Locations
<1> HIDE DEF all, c, f
<1>8. ASSUME NEW n \in Microblocks
      PROVE  IF n \in ToSet(all)
             THEN newPlaces[n] # Missing
                  /\ Holds(BytesOf(all, FileOf[n]), n, newPlaces[n].offset)
             ELSE newPlaces[n] = Missing
  <2>1. CASE n = m
    <3>1. Holds(BytesOf(log, f) \o c, m, Len(BytesOf(log, f)))
      BY <1>1, <1>3, HoldsWhenAppended DEF c
    <3>2. Holds(BytesOf(all, FileOf[n]), n, newPlaces[n].offset)
      BY <1>1, <1>3, <1>6, <1>7, <2>1, <3>1 DEF f
    <3> QED
      BY <1>4, <1>6, <1>7, <2>1, <3>2
  <2>2. CASE n # m /\ n \notin ToSet(log)
    BY <1>4, <1>6, <2>2 DEF TablesMatch
  <2>3. CASE n # m /\ n \in ToSet(log)
    <3>1. newPlaces[n] = places[n] /\ places[n] # Missing
          /\ Holds(BytesOf(log, FileOf[n]), n, places[n].offset)
      BY <1>6, <2>3 DEF TablesMatch
    <3>2. places[n].offset \in Nat /\ FileOf[n] \in Files
      BY <3>1 DEF PlacesFit, Locations
    <3>3. Holds(BytesOf(all, FileOf[n]), n, places[n].offset)
      <4>1. CASE FileOf[n] = f
        <5>1. Holds(BytesOf(log, f) \o c, n, places[n].offset)
          BY <1>1, <1>2, <1>3, <3>1, <3>2, <4>1, HoldsInExtension
        <5> QED
          BY <1>1, <1>3, <4>1, <5>1
      <4>2. CASE FileOf[n] # f
        BY <1>3, <3>1, <3>2, <4>2
      <4> QED
        BY <4>1, <4>2
    <3> QED
      BY <1>4, <2>3, <3>1, <3>3
  <2> QED
    BY <2>1, <2>2, <2>3
<1>9. ASSUME NEW g \in Files
      PROVE  newSizes[g] = IF BytesOf(all, g) = <<>> \/ PurgedOn(g, today)
                           THEN Missing ELSE Len(BytesOf(all, g))
  <2>1. CASE g = f
    BY <1>5, <1>6, <2>1 DEF f
  <2>2. CASE g # f
    BY <1>3, <1>6, <2>2 DEF TablesMatch
  <2> QED
    BY <2>1, <2>2
<1> QED
  BY <1>8, <1>9 DEF TablesMatch, all

------------------------------------------------------------------------------
(* The log of the block under execution *)

LEMMA AcceptedLogType ==
  ASSUME TypeOK
  PROVE  AcceptedLog \in Logs
BY LogType DEF AcceptedLog, TypeOK

\* The transactions of the block under execution.
LEMMA TxsOfBlock ==
  ASSUME TypeInv, Working
  PROVE  /\ NextHeight \in 1..Len(chain) /\ chain[NextHeight] \in Blocks
         /\ chain[NextHeight].txs \in Logs
         /\ TimeOf(NextHeight) = chain[NextHeight].time
<1>1. NextHeight <= Len(chain) /\ TypeOK
  BY DEF TypeInv, ExecutingABlock, Working
<1>2. NextHeight \in Nat \ {0} /\ chain[NextHeight] \in Blocks
  BY <1>1, BlockOfChain DEF TypeOK, NextHeight
<1>3. TimeOf(NextHeight) = chain[NextHeight].time
  BY <1>2 DEF TimeOf
<1>4. chain[NextHeight].txs \in Logs
  BY <1>2 DEF Blocks, Logs
<1>5. Len(chain) \in Nat
  BY <1>1 DEF TypeOK
<1> QED
  BY <1>1, <1>2, <1>3, <1>4, <1>5

LEMMA TxsByOne ==
  ASSUME NEW txs \in Logs
  PROVE  /\ SubSeq(txs, 1, 0) = <<>>
         /\ SubSeq(txs, 1, Len(txs)) = txs
         /\ \A i \in 1..Len(txs) : /\ SubSeq(txs, 1, i - 1) \in Logs
                                   /\ SubSeq(txs, 1, i) = Append(SubSeq(txs, 1, i - 1), txs[i])
<1>1. txs \in Seq(Microblocks) /\ Len(txs) \in Nat
  BY DEF Logs
<1>2. SubSeq(txs, 1, 0) = <<>>
  BY <1>1, SubSeqEmpty
<1>3. SubSeq(txs, 1, Len(txs)) = txs
  BY <1>1, SubSeqFull
<1>4. ASSUME NEW i \in 1..Len(txs)
      PROVE  /\ SubSeq(txs, 1, i - 1) \in Logs
             /\ SubSeq(txs, 1, i) = Append(SubSeq(txs, 1, i - 1), txs[i])
  <2> DEFINE a == SubSeq(txs, 1, i - 1)
             b == SubSeq(txs, 1, i)
  <2>1. /\ a \in Seq(Microblocks) /\ Len(a) = i - 1 /\ \A j \in 1..(i - 1) : a[j] = txs[j]
        /\ b \in Seq(Microblocks) /\ Len(b) = i /\ \A j \in 1..i : b[j] = txs[j]
    BY <1>1, <1>4
  <2>2. txs[i] \in Microblocks
    BY <1>1, <1>4
  <2> HIDE DEF a, b
  <2>3. b = Append(a, txs[i])
    <3>1. Append(a, txs[i]) \in Seq(Microblocks) /\ Len(Append(a, txs[i])) = i
          /\ \A j \in 1..i : Append(a, txs[i])[j] = b[j]
      BY <1>4, <2>1, <2>2
    <3> QED
      BY <2>1, <3>1, SeqEqual
  <2> QED
    BY <2>1, <2>3 DEF a, b, Logs
<1> QED
  BY <1>2, <1>3, <1>4

LEMMA LogSoFarAtStart ==
  ASSUME TypeInv, NextHeight <= Len(chain), txIndex = 1
  PROVE  LogSoFar = AcceptedLog
<1>1. chain[NextHeight].txs \in Logs
  BY BlockOfChain DEF TypeInv, Blocks, Logs
<1>2. SubSeq(chain[NextHeight].txs, 1, txIndex - 1) = <<>>
  BY <1>1, TxsByOne
<1>3. AcceptedLog \in Logs
  BY AcceptedLogType DEF TypeInv
<1> QED
  BY <1>2, <1>3, AcceptAllNothing DEF LogSoFar

LEMMA LogSoFarType ==
  ASSUME TypeInv, Working, Progress
  PROVE  LogSoFar \in Logs
<1> DEFINE txs == chain[NextHeight].txs
<1>1. txs \in Logs /\ Len(txs) \in Nat /\ txIndex \in Nat \ {0} /\ txIndex <= Len(txs) + 1
  BY TxsOfBlock DEF TypeInv, TypeOK, Progress, Logs
<1>2. AcceptedLog \in Logs
  BY AcceptedLogType DEF TypeInv
<1>3. SubSeq(txs, 1, txIndex - 1) \in Logs
  <2>1. CASE txIndex \in 1..Len(txs)
    BY <1>1, <2>1, TxsByOne
  <2>2. CASE txIndex = Len(txs) + 1
    <3>1. txIndex - 1 = Len(txs)
      BY <1>1, <2>2
    <3>2. SubSeq(txs, 1, Len(txs)) = txs
      BY <1>1, TxsByOne
    <3> QED
      BY <1>1, <3>1, <3>2
  <2> QED
    BY <1>1, <2>1, <2>2
<1> QED
  BY <1>2, <1>3, AcceptAllType DEF LogSoFar

\* Once all transactions are executed, the log is that of the blocks with this one.
LEMMA LogSoFarAtEnd ==
  ASSUME TypeInv, PlacesInv, Working, Progress, pc # "executing"
  PROVE  LogSoFar = LogOf(chain, dbBlocks \cup {NextHeight})
<1> DEFINE k == NextHeight
           txs == chain[k].txs
<1>1. /\ k \in 1..Len(chain) /\ txs \in Logs /\ chain \in Seq(Blocks)
      /\ Len(txs) \in Nat /\ txIndex = Len(txs) + 1 /\ txIndex - 1 = Len(txs)
  <2>1. k \in 1..Len(chain) /\ txs \in Logs
    BY TxsOfBlock
  <2>2. Len(txs) \in Nat
    BY <2>1 DEF Logs
  <2>3. txIndex = Len(txs) + 1 /\ chain \in Seq(Blocks)
    BY DEF Progress, TypeInv, TypeOK
  <2> QED
    BY <2>1, <2>2, <2>3
<1>2. \A h \in dbBlocks : h \in Nat /\ h < k
  BY <1>1 DEF TypeInv, TypeOK, PlacesInv, DatabaseNotAhead, Progress
<1>3. SubSeq(txs, 1, txIndex - 1) = txs
  BY <1>1, TxsByOne
<1> HIDE DEF k
<1>4. LogOf(chain, dbBlocks \cup {k}) = AcceptAll(LogOf(chain, dbBlocks), chain[k].txs, chain[k].time)
  BY <1>1, <1>2, LogOfRecorded
<1> QED
  BY <1>3, <1>4 DEF LogSoFar, AcceptedLog, k

LEMMA HighestBlock ==
  ASSUME TypeOK, NEW n \in dbBlocks, \A k \in dbBlocks : k <= n
  PROVE  DbHeight = n
<1>1. \A k \in dbBlocks : k \in Nat
  BY DEF TypeOK
<1>2. \A k \in dbBlocks : n >= k
  BY <1>1
<1>3. DbHeight \in dbBlocks /\ \A k \in dbBlocks : DbHeight >= k
  BY <1>2 DEF DbHeight, Max
<1> QED
  BY <1>1, <1>3

------------------------------------------------------------------------------
(* The steps *)

LEMMA TablesInit == Init => TablesInv
<1> SUFFICES ASSUME Init PROVE TablesInv
  OBVIOUS
<1>1. AcceptedLog = <<>>
  BY LogOfNothing DEF Init, AcceptedLog
<1>2. \A f : BytesOf(AcceptedLog, f) = <<>>
  BY <1>1, BytesNothing
<1>3. ToSet(AcceptedLog) = {}
  BY <1>1 DEF ToSet
<1>4. TablesMatch(mbStorage, dataFile, AcceptedLog, DayOf(TimeOf(DbHeight)))
  BY <1>2, <1>3 DEF Init, TablesMatch
<1> QED
  BY <1>4 DEF Init, TablesInv, Working

\* A step that leaves the chain, the tables and the height to execute alone, and the caches
\* too unless it ends the block.
LEMMA TablesKept ==
  ASSUME TablesInv, UNCHANGED <<chain, acked, mbStorage, dataFile, dbBlocks>>,
         Working' => Working /\ Progress' /\ UNCHANGED <<wStorage, wDataFile, txIndex>>
  PROVE  TablesInv'
<1>1. AcceptedLog' = AcceptedLog /\ NextHeight' = NextHeight /\ DbHeight' = DbHeight
  BY DEF AcceptedLog, NextHeight, DbHeight
<1>2. TablesMatch(mbStorage, dataFile, AcceptedLog, DayOf(TimeOf(DbHeight)))'
  BY <1>1 DEF TablesInv, TablesMatch, TimeOf, DayOf, Holds
<1>3. ASSUME Working'
      PROVE  TablesMatch(NewPlaces, NewSizes, LogSoFar, DayOf(TimeOf(NextHeight)))'
  <2>1. /\ NewPlaces' = NewPlaces /\ NewSizes' = NewSizes /\ LogSoFar' = LogSoFar
        /\ Working
    BY <1>1, <1>3 DEF NewPlaces, NewSizes, LogSoFar
  <2> QED
    BY <1>1, <2>1 DEF TablesInv, TablesMatch, TimeOf, DayOf, Holds
<1> QED
  BY <1>2, <1>3 DEF TablesInv

\* A decided block is not a recorded one.
LEMMA DecideLog ==
  ASSUME TypeInv, PlacesInv, NEW t \in GenesisTime..MaxTime,
         NEW txs \in SeqOf(Microblocks, MaxTxs), Decide(t, txs)
  PROVE  AcceptedLog' = AcceptedLog
<1> DEFINE b == [time |-> t, txs |-> txs]
<1>1. UNCHANGED dbBlocks /\ chain' = Append(chain, b)
  BY DEF Decide, diskVars
<1>2. b \in Blocks /\ chain \in Seq(Blocks)
  <2>1. txs \in Seq(Microblocks) /\ t \in Nat
    BY StorageAssumption DEF SeqOf
  <2> QED
    BY <2>1 DEF Blocks, TypeInv, TypeOK
<1> HIDE DEF b
<1>3. Len(chain) \in Nat /\ \A h \in dbBlocks : h \in 0..Len(chain)
  BY HeightsAreNumbers
<1>4. Len(chain) + 1 \notin dbBlocks
  BY <1>3
<1>5. LogOf(Append(chain, b), dbBlocks) = LogOf(chain, dbBlocks)
  BY <1>2, <1>4, LogOfUnrecorded
<1> QED
  BY <1>1, <1>5 DEF AcceptedLog

LEMMA DecideTables ==
  ASSUME TypeInv, PlacesInv, TablesInv, NEW t \in GenesisTime..MaxTime,
         NEW txs \in SeqOf(Microblocks, MaxTxs), Decide(t, txs)
  PROVE  TablesInv'
<1>1. UNCHANGED <<mbStorage, dataFile, dbBlocks>> /\ ~Working'
  BY DEF Decide, diskVars, Working
<1>3. Len(chain) \in Nat /\ \A h \in dbBlocks : h \in 0..Len(chain)
  BY HeightsAreNumbers
<1>4. AcceptedLog' = AcceptedLog
  BY DecideLog
<1>5. DbHeight' = DbHeight /\ DbHeight \in dbBlocks
  BY <1>1, DbHeightIsHighest DEF DbHeight, TypeInv
<1>6. TimeOf(DbHeight)' = TimeOf(DbHeight)
  <2>1. \A h \in 0..Len(chain) : TimeOf(h)' = TimeOf(h)
    BY DecideTimes DEF TypeInv, PlacesInv
  <2>2. PICK h \in 0..Len(chain) : h = DbHeight
    BY <1>3, <1>5
  <2>3. TimeOf(h)' = TimeOf(h)
    BY <2>1
  <2> QED
    BY <1>5, <2>2, <2>3 DEF TimeOf
<1>7. TablesMatch(mbStorage, dataFile, AcceptedLog, DayOf(TimeOf(DbHeight)))'
  BY <1>1, <1>4, <1>6 DEF TablesInv, TablesMatch, DayOf, Holds
<1> QED
  BY <1>1, <1>7 DEF TablesInv

\* The height to execute next moves while no block is being executed.
LEMMA HeightMovesTables ==
  ASSUME TablesInv, ~Working', UNCHANGED <<chain, mbStorage, dataFile, dbBlocks>>
  PROVE  TablesInv'
<1>1. AcceptedLog' = AcceptedLog /\ DbHeight' = DbHeight
  BY DEF AcceptedLog, DbHeight
<1>2. TablesMatch(mbStorage, dataFile, AcceptedLog, DayOf(TimeOf(DbHeight)))'
  BY <1>1 DEF TablesInv, TablesMatch, TimeOf, DayOf, Holds
<1> QED
  BY <1>2 DEF TablesInv

LEMMA WriteBatchTables == TypeInv /\ TypeInv' /\ PlacesInv /\ TablesInv /\ WriteBatch => TablesInv'
<1> SUFFICES ASSUME TypeInv, TypeInv', PlacesInv, TablesInv, WriteBatch PROVE TablesInv'
  OBVIOUS
<1>1. /\ mbStorage' = NewPlaces /\ dataFile' = NewSizes /\ dbBlocks' = dbBlocks \cup {NextHeight}
      /\ UNCHANGED <<chain, acked>> /\ ~Working' /\ Working /\ pc # "executing"
  BY DEF WriteBatch, NewPlaces, NewSizes, Working
<1>2. Progress /\ TablesMatch(NewPlaces, NewSizes, LogSoFar, DayOf(TimeOf(NextHeight)))
  BY <1>1 DEF TablesInv
<1>3. AcceptedLog' = LogSoFar
  BY <1>1, <1>2, LogSoFarAtEnd DEF AcceptedLog
<1>4. DbHeight' = NextHeight
  <2>1. PICK n : n = NextHeight
    OBVIOUS
  <2>2. n \in dbBlocks' /\ \A k \in dbBlocks' : k <= n
    BY <1>1, <2>1, HeightsAreNumbers DEF PlacesInv, DatabaseNotAhead
  <2>3. \A k \in dbBlocks' : k \in Nat
    BY DEF TypeInv, TypeOK
  <2>4. \A k \in dbBlocks' : n >= k
    BY <2>2, <2>3
  <2>5. DbHeight' \in dbBlocks' /\ \A k \in dbBlocks' : DbHeight' >= k
    BY <2>2, <2>4 DEF DbHeight, Max
  <2> QED
    BY <2>1, <2>2, <2>3, <2>5
<1>5. TimeOf(DbHeight)' = TimeOf(NextHeight)
  BY <1>1, <1>4 DEF TimeOf
<1>6. TablesMatch(mbStorage, dataFile, AcceptedLog, DayOf(TimeOf(DbHeight)))'
  BY <1>1, <1>2, <1>3, <1>5 DEF TablesMatch, DayOf, Holds
<1> QED
  BY <1>1, <1>6 DEF TablesInv

\* The day of the block under execution is not before that of the last recorded block, and
\* is the same if BeginBlock takes it to be.
LEMMA DayOfNextBlock ==
  ASSUME TypeInv, PlacesInv, NextHeight <= Len(chain), NextHeight \notin dbBlocks
  PROVE  /\ DayOf(TimeOf(NextHeight)) \in Nat /\ DayOf(TimeOf(DbHeight)) \in Nat
         /\ DayOf(TimeOf(DbHeight)) <= DayOf(TimeOf(NextHeight))
         /\ DayOf(TimeOf(NextHeight)) = PreviousDay(NextHeight) =>
              \/ DayOf(TimeOf(DbHeight)) = DayOf(TimeOf(NextHeight))
              \/ DayOf(TimeOf(NextHeight)) = 0
<1>1. DbHeight \in dbBlocks /\ DbHeight \in Nat
  BY DbHeightIsHighest DEF TypeInv
<1>2. TimeOf(DbHeight) \in Nat /\ TimeOf(NextHeight) \in Nat /\ TimeOf(DbHeight) <= TimeOf(NextHeight)
  <2>1. /\ Len(chain) \in Nat /\ NextHeight \in Nat /\ DbHeight \in 0..Len(chain)
        /\ TimeOf(DbHeight) <= TimeOf(NextHeight)
    BY <1>1, HeightsAreNumbers
  <2>2. DbHeight <= Len(chain) /\ TimesOrdered
    BY <2>1 DEF PlacesInv
  <2>3. TimeOf(DbHeight) \in Nat
    BY <1>1, <2>1, <2>2, TimesAreNumbers
  <2>4. TimeOf(NextHeight) \in Nat
    BY <2>1, <2>2, TimesAreNumbers
  <2> QED
    BY <2>1, <2>3, <2>4
<1>3. /\ DayOf(TimeOf(NextHeight)) \in Nat /\ DayOf(TimeOf(DbHeight)) \in Nat
      /\ DayOf(TimeOf(DbHeight)) <= DayOf(TimeOf(NextHeight))
  BY <1>2, DaysAreOrdered
<1>4. ASSUME NextHeight - 1 \in dbBlocks PROVE DbHeight = NextHeight - 1
  <2>1. PICK n : n = NextHeight - 1
    OBVIOUS
  <2>2. \A k \in dbBlocks : k <= n
    BY <2>1 DEF TypeInv, TypeOK, PlacesInv, DatabaseNotAhead, NextHeight
  <2>3. DbHeight = n
    BY <1>4, <2>1, <2>2, HighestBlock DEF TypeInv
  <2> QED
    BY <2>1, <2>3
<1>5. DayOf(TimeOf(NextHeight)) = PreviousDay(NextHeight) =>
        \/ DayOf(TimeOf(DbHeight)) = DayOf(TimeOf(NextHeight))
        \/ DayOf(TimeOf(NextHeight)) = 0
  BY <1>4 DEF PreviousDay
<1> QED
  BY <1>3, <1>5

LEMMA BeginBlockTables == TypeInv /\ PlacesInv /\ TablesInv /\ BeginBlock => TablesInv'
<1> SUFFICES ASSUME TypeInv, PlacesInv, TablesInv, BeginBlock PROVE TablesInv'
  OBVIOUS
<1> DEFINE before == DayOf(TimeOf(DbHeight))
           today == DayOf(TimeOf(NextHeight))
           purged == {f \in Files : dataFile[f] # Missing /\ PurgedOn(f, today)}
<1>1. /\ UNCHANGED <<chain, acked, mbStorage, dataFile, dbBlocks>>
      /\ wStorage' = EmptyCache(Microblocks) /\ txIndex' = 1 /\ pc' = "executing"
      /\ NextHeight <= Len(chain) /\ NextHeight \notin dbBlocks
      /\ wDataFile' = IF today # PreviousDay(NextHeight)
                      THEN DelAll(EmptyCache(Files), purged) ELSE EmptyCache(Files)
  BY DEF BeginBlock, diskVars
<1>2. /\ AcceptedLog' = AcceptedLog /\ NextHeight' = NextHeight /\ DbHeight' = DbHeight
      /\ TimeOf(DbHeight)' = TimeOf(DbHeight) /\ TimeOf(NextHeight)' = TimeOf(NextHeight)
  BY <1>1 DEF AcceptedLog, NextHeight, DbHeight, TimeOf
<1>3. TablesMatch(mbStorage, dataFile, AcceptedLog, before)
  BY DEF TablesInv
<1>4. TablesMatch(mbStorage, dataFile, AcceptedLog, DayOf(TimeOf(DbHeight)))'
  BY <1>1, <1>2, <1>3 DEF TablesMatch, DayOf, Holds
<1>5. LogSoFar' = AcceptedLog
  <2>1. chain[NextHeight].txs \in Logs
    BY <1>1, BlockOfChain DEF TypeInv, Blocks, Logs
  <2>2. SubSeq(chain[NextHeight].txs, 1, txIndex' - 1) = <<>>
    BY <1>1, <2>1, TxsByOne
  <2>3. AcceptedLog \in Logs
    BY AcceptedLogType DEF TypeInv
  <2>4. AcceptAll(AcceptedLog, <<>>, chain[NextHeight].time) = AcceptedLog
    BY <2>3, AcceptAllNothing
  <2>5. LogSoFar' = AcceptAll(AcceptedLog, <<>>, chain[NextHeight].time)
    BY <1>1, <1>2, <2>2 DEF LogSoFar
  <2> QED
    BY <2>4, <2>5
<1>6. Progress'
  <2>1. Len(chain[NextHeight].txs) \in Nat
    BY <1>1, BlockOfChain DEF TypeInv, Blocks
  <2> QED
    BY <1>1, <1>2, <2>1 DEF Progress
<1>7. NewPlaces' = mbStorage
  BY <1>1, BatchWriteNothing DEF NewPlaces, PlaceTables, TypeInv, TypeOK
<1>8. /\ today \in Nat /\ before \in Nat /\ before <= today
      /\ today = PreviousDay(NextHeight) => before = today \/ today = 0
  BY <1>1, DayOfNextBlock
<1>9. ASSUME NEW f \in Files
      PROVE  NewSizes'[f] = IF BytesOf(AcceptedLog, f) = <<>> \/ PurgedOn(f, today)
                            THEN Missing ELSE Len(BytesOf(AcceptedLog, f))
  <2>1. dataFile[f] = IF BytesOf(AcceptedLog, f) = <<>> \/ PurgedOn(f, before)
                      THEN Missing ELSE Len(BytesOf(AcceptedLog, f))
    BY <1>3 DEF TablesMatch
  <2>2. f \in Nat
    BY StorageAssumption
  <2>3. PurgedOn(f, before) => PurgedOn(f, today)
    BY <1>8, <2>2 DEF PurgedOn
  <2>4. NewSizes' = BatchWrite(dataFile, wDataFile') /\ dataFile \in FileTables
    BY <1>1 DEF NewSizes, TypeInv, TypeOK
  <2>5. CASE today # PreviousDay(NextHeight)
    <3>1. NewSizes'[f] = IF f \in purged THEN Missing ELSE dataFile[f]
      <4> HIDE DEF purged, today
      <4>1. DelAll(EmptyCache(Files), purged).del = purged
            /\ DelAll(EmptyCache(Files), purged).ins[f] = Missing
        BY DEF EmptyCache, DelAll
      <4> QED
        BY <1>1, <2>4, <2>5, <4>1 DEF BatchWrite, FileTables
    <3> QED
      BY <2>1, <2>3, <3>1
  <2>6. CASE today = PreviousDay(NextHeight)
    <3>1. NewSizes'[f] = dataFile[f]
      <4> HIDE DEF purged, today
      <4>1. EmptyCache(Files).del = {} /\ EmptyCache(Files).ins[f] = Missing
        BY DEF EmptyCache
      <4> QED
        BY <1>1, <2>4, <2>6, <4>1 DEF BatchWrite, FileTables
    <3>2. PurgedOn(f, today) => PurgedOn(f, before)
      BY <1>8, <2>2, <2>6 DEF PurgedOn
    <3> QED
      BY <2>1, <2>3, <3>1, <3>2
  <2> QED
    BY <2>5, <2>6
<1>10. TablesMatch(NewPlaces, NewSizes, LogSoFar, DayOf(TimeOf(NextHeight)))'
  BY <1>2, <1>3, <1>5, <1>7, <1>9 DEF TablesMatch, DayOf, Holds
<1> QED
  BY <1>4, <1>6, <1>10 DEF TablesInv

\* An accepted microblock is the next one in the log, and is put where the log has it.
LEMMA AcceptedIsNext ==
  ASSUME TypeInv, PlacesInv, TablesInv, pc = "executing", NEW m \in Microblocks
  PROVE  /\ Acceptable(m, TimeOf(NextHeight)) <=>
              m \notin ToSet(LogSoFar) /\ ~ExpiredAt(m, TimeOf(NextHeight))
         /\ Acceptable(m, TimeOf(NextHeight)) =>
              /\ ~PurgedOn(FileOf[m], DayOf(TimeOf(NextHeight)))
              /\ RecordedSize(FileOf[m]) = Len(BytesOf(LogSoFar, FileOf[m]))
<1> DEFINE f == FileOf[m]
<1>1. /\ Working /\ TablesMatch(NewPlaces, NewSizes, LogSoFar, DayOf(TimeOf(NextHeight)))
      /\ wStorage.del = {}
  BY DEF Working, TablesInv, PlacesInv, WorkingPlaces
<1>2. /\ mbStorage \in PlaceTables /\ dataFile \in FileTables /\ f \in Files
  BY DEF TypeInv, TypeOK
<1>3. GetRaw(mbStorage, wStorage, m) = NewPlaces[m]
  BY <1>1, <1>2 DEF GetRaw, NewPlaces, BatchWrite, PlaceTables
<1>4. NewPlaces[m] = Missing <=> m \notin ToSet(LogSoFar)
  BY <1>1 DEF TablesMatch
<1>5. ASSUME Acceptable(m, TimeOf(NextHeight))
      PROVE  /\ ~PurgedOn(f, DayOf(TimeOf(NextHeight)))
             /\ RecordedSize(f) = Len(BytesOf(LogSoFar, f))
  <2>1. TimeOf(NextHeight) \in Nat /\ TimeOf(NextHeight) <= MaxTime
    BY <1>1, TxsOfBlock DEF PlacesInv, TimesOrdered
  <2>2. ~PurgedOn(f, DayOf(TimeOf(NextHeight)))
    BY <1>5, <2>1, AcceptedIsNotPurged DEF Acceptable
  <2>3. Extensible(m, RecordedSize(f), NewPlaces, NewSizes) /\ f \notin wDataFile.del
    BY <1>5, AcceptedExtendsFile
  <2>4. NewSizes[f] = IF BytesOf(LogSoFar, f) = <<>> THEN Missing ELSE Len(BytesOf(LogSoFar, f))
    BY <1>1, <1>2, <2>2 DEF TablesMatch
  <2>5. RecordedSize(f) = Len(BytesOf(LogSoFar, f))
    <3>1. CASE NewSizes[f] # Missing
      <4>1. RecordedSize(f) = NewSizes[f]
        BY <2>3, <3>1 DEF Extensible
      <4>2. NewSizes[f] = Len(BytesOf(LogSoFar, f))
        BY <2>4, <3>1
      <4> QED
        BY <4>1, <4>2
    <3>2. CASE NewSizes[f] = Missing
      <4>1. GetRaw(dataFile, wDataFile, f) = Missing
        BY <1>2, <2>3, <3>2 DEF NewSizes, BatchWrite, GetRaw, FileTables
      <4>2. BytesOf(LogSoFar, f) = <<>>
        <5>1. Progress /\ LogSoFar \in Logs
          BY <1>1, LogSoFarType DEF TablesInv
        <5>2. Len(BytesOf(LogSoFar, f)) \in Nat
          BY <5>1, BytesType
        <5> QED
          BY <2>4, <3>2, <5>2, StorageAssumption
      <4>3. RecordedSize(f) = 0 /\ Len(<<>>) = 0
        BY <4>1 DEF RecordedSize
      <4> QED
        BY <4>2, <4>3
    <3> QED
      BY <3>1, <3>2
  <2> QED
    BY <2>2, <2>5
<1> QED
  BY <1>3, <1>4, <1>5 DEF Acceptable

\* What one transaction adds to the log.
LEMMA ExecTxLog ==
  ASSUME TypeInv, PlacesInv, TablesInv, ExecTx,
         NEW m, m = chain[NextHeight].txs[txIndex]
  PROVE  /\ LogSoFar' = IF Acceptable(m, TimeOf(NextHeight))
                        THEN Append(LogSoFar, m) ELSE LogSoFar
         /\ LogSoFar \in Logs
<1> DEFINE txs == chain[NextHeight].txs
           t == chain[NextHeight].time
           done == SubSeq(txs, 1, txIndex - 1)
<1>1. /\ UNCHANGED <<chain, acked, dbBlocks>> /\ pc = "executing" /\ Working
      /\ txIndex' = txIndex + 1 /\ txIndex <= Len(txs)
  BY DEF ExecTx, diskVars, Working
<1>2. m \in Microblocks
  BY TxIsMicroblock DEF ExecTx, TypeInv, ExecutingABlock
<1>3. txs \in Logs /\ TimeOf(NextHeight) = t /\ txIndex \in 1..Len(txs) /\ m = txs[txIndex]
  BY <1>1, TxsOfBlock DEF TypeInv, TypeOK, Logs
<1>4. AcceptedLog' = AcceptedLog /\ NextHeight' = NextHeight
  BY <1>1 DEF AcceptedLog, NextHeight
<1>5. done \in Logs /\ SubSeq(txs, 1, txIndex) = Append(done, m)
  BY <1>3, TxsByOne
<1>6. AcceptedLog \in Logs
  BY AcceptedLogType DEF TypeInv
<1>7. LogSoFar' = AcceptAll(AcceptedLog, SubSeq(txs, 1, txIndex), t)
  <2>1. txIndex' - 1 = txIndex
    BY <1>1, <1>3
  <2> QED
    BY <1>1, <1>4, <2>1 DEF LogSoFar
<1>8. LogSoFar = AcceptAll(AcceptedLog, done, t)
  BY DEF LogSoFar
<1>9. Acceptable(m, TimeOf(NextHeight)) <=> m \notin ToSet(LogSoFar) /\ ~ExpiredAt(m, t)
  BY <1>1, <1>2, <1>3, AcceptedIsNext
<1> HIDE DEF done, t, txs
<1>10. AcceptAll(AcceptedLog, Append(done, m), t) = Accept(AcceptAll(AcceptedLog, done, t), m, t)
  BY <1>2, <1>5, <1>6, AcceptAllAppend
<1>11. LogSoFar' = Accept(LogSoFar, m, t)
  BY <1>5, <1>7, <1>8, <1>10
<1>12. LogSoFar' = IF Acceptable(m, TimeOf(NextHeight)) THEN Append(LogSoFar, m) ELSE LogSoFar
  BY <1>9, <1>11 DEF Accept
<1>13. LogSoFar \in Logs
  BY <1>1, LogSoFarType DEF TablesInv
<1> QED
  BY <1>12, <1>13

LEMMA ExecTxTables == TypeInv /\ PlacesInv /\ TablesInv /\ ExecTx => TablesInv'
<1> SUFFICES ASSUME TypeInv, PlacesInv, TablesInv, ExecTx PROVE TablesInv'
  OBVIOUS
<1> DEFINE txs == chain[NextHeight].txs
           t == chain[NextHeight].time
           m == txs[txIndex]
           today == DayOf(TimeOf(NextHeight))
<1>1. /\ UNCHANGED <<chain, acked, mbStorage, dataFile, dbBlocks, pc>>
      /\ pc = "executing" /\ Working /\ Working' /\ txIndex' = txIndex + 1
      /\ txIndex <= Len(txs)
  BY DEF ExecTx, diskVars, Working
<1>2. m \in Microblocks
  BY TxIsMicroblock DEF ExecTx, TypeInv, ExecutingABlock
<1>3. txs \in Logs /\ TimeOf(NextHeight) = t /\ txIndex \in 1..Len(txs)
  BY <1>1, TxsOfBlock DEF TypeInv, TypeOK, Logs
<1>4. /\ AcceptedLog' = AcceptedLog /\ NextHeight' = NextHeight /\ DbHeight' = DbHeight
      /\ TimeOf(DbHeight)' = TimeOf(DbHeight) /\ TimeOf(NextHeight)' = TimeOf(NextHeight)
  BY <1>1 DEF AcceptedLog, NextHeight, DbHeight, TimeOf
<1>5. TablesMatch(mbStorage, dataFile, AcceptedLog, DayOf(TimeOf(DbHeight)))'
  BY <1>1, <1>4 DEF TablesInv, TablesMatch, DayOf, Holds
<1>6. Progress'
  <2>1. Len(txs) \in Nat /\ NextHeight \notin dbBlocks
    BY <1>1, <1>3 DEF Logs, TablesInv, Progress
  <2> QED
    BY <1>1, <1>3, <1>4, <2>1 DEF Progress
<1>7. LogSoFar \in Logs
  BY <1>1, LogSoFarType DEF TablesInv
<1>8. LogSoFar' = IF Acceptable(m, TimeOf(NextHeight)) THEN Append(LogSoFar, m) ELSE LogSoFar
  <2> HIDE DEF m
  <2>1. m = chain[NextHeight].txs[txIndex]
    BY DEF m
  <2> QED
    BY <2>1, ExecTxLog
<1>9. /\ Acceptable(m, TimeOf(NextHeight)) <=> m \notin ToSet(LogSoFar) /\ ~ExpiredAt(m, t)
      /\ Acceptable(m, TimeOf(NextHeight)) =>
           /\ ~PurgedOn(FileOf[m], today)
           /\ RecordedSize(FileOf[m]) = Len(BytesOf(LogSoFar, FileOf[m]))
  <2> HIDE DEF m
  <2> QED
    BY <1>1, <1>2, <1>3, AcceptedIsNext
<1>10. TablesMatch(NewPlaces, NewSizes, LogSoFar, today)
  BY <1>1 DEF TablesInv
<1>11. TablesMatch(NewPlaces', NewSizes', LogSoFar', today)
  <2>1. CASE ~Acceptable(m, TimeOf(NextHeight))
    <3>1. NewPlaces' = NewPlaces /\ NewSizes' = NewSizes
      BY <1>1, <2>1 DEF ExecTx, NewPlaces, NewSizes
    <3>2. LogSoFar' = LogSoFar
      BY <1>8, <2>1
    <3> QED
      BY <1>10, <3>1, <3>2
  <2>2. CASE Acceptable(m, TimeOf(NextHeight))
    <3> DEFINE size == RecordedSize(FileOf[m])
    <3>1. Added(m, size, NewPlaces, NewSizes, NewPlaces', NewSizes')
      BY <1>1, <1>2, <2>2, AddMicroblockTables DEF ExecTx
    <3>2. LogSoFar' = Append(LogSoFar, m) /\ m \notin ToSet(LogSoFar)
      BY <1>8, <1>9, <2>2
    <3>3. size = Len(BytesOf(LogSoFar, FileOf[m])) /\ ~PurgedOn(FileOf[m], today)
      BY <1>9, <2>2
    <3>4. PlacesFit(NewPlaces, NewSizes)
      BY <1>1 DEF PlacesInv, WorkingPlaces
    <3> HIDE DEF m, size, today
    <3>5. TablesMatch(NewPlaces', NewSizes', Append(LogSoFar, m), today)
      BY <1>2, <1>7, <1>10, <3>1, <3>2, <3>3, <3>4, AddedMatches
    <3> QED
      BY <3>2, <3>5
  <2> QED
    BY <2>1, <2>2
<1>12. TablesMatch(NewPlaces, NewSizes, LogSoFar, DayOf(TimeOf(NextHeight)))'
  BY <1>4, <1>11 DEF TablesMatch, DayOf, Holds
<1> QED
  BY <1>5, <1>6, <1>12 DEF TablesInv

LEMMA TablesStep ==
  TypeInv /\ TypeInv' /\ PlacesInv /\ TablesInv /\ [Next]_vars => TablesInv'
<1> SUFFICES ASSUME TypeInv, TypeInv', PlacesInv, TablesInv, [Next]_vars PROVE TablesInv'
  OBVIOUS
<1>0. Working /\ UNCHANGED <<chain, acked, dbBlocks, txIndex>> /\ pc # "executing" => Progress'
  BY DEF TablesInv, Progress, NextHeight
<1>1. ASSUME NEW t \in GenesisTime..MaxTime, NEW txs \in SeqOf(Microblocks, MaxTxs),
             Decide(t, txs)
      PROVE  TablesInv'
  BY <1>1, DecideTables
<1>2. CASE BeginBlock
  BY <1>2, BeginBlockTables
<1>3. CASE ExecTx
  BY <1>3, ExecTxTables
<1>4. CASE EndBlock
  <2>1. Progress'
    <3>1. /\ UNCHANGED <<chain, acked, dbBlocks, txIndex>> /\ NextHeight' = NextHeight
          /\ txIndex > Len(chain[NextHeight].txs) /\ Working
      BY <1>4 DEF EndBlock, diskVars, memoryVars, NextHeight, Working
    <3>2. Progress
      BY <3>1 DEF TablesInv
    <3>3. Len(chain[NextHeight].txs) \in Nat /\ txIndex \in Nat
      BY <3>1, TxsOfBlock DEF TypeInv, TypeOK, Logs
    <3> QED
      BY <3>1, <3>2, <3>3 DEF Progress
  <2> QED
    BY <1>4, <2>1, TablesKept DEF EndBlock, diskVars, memoryVars, Working
<1>5. ASSUME NEW f \in Files, FlushFile(f) PROVE TablesInv'
  BY <1>0, <1>5, TablesKept DEF FlushFile, Working
<1>6. CASE FlushDone
  BY <1>0, <1>6, TablesKept DEF FlushDone, diskVars, Working
<1>7. CASE WriteBatch
  BY <1>7, WriteBatchTables
<1>8. CASE LoseBatch \/ Crash
  BY <1>8, TablesKept DEF LoseBatch, Crash, ForgetMemory, diskVars, Working
<1>9. CASE CleanUp \/ Restart
  BY <1>9, HeightMovesTables DEF CleanUp, Restart, diskVars, Working
<1>10. ASSUME NEW f \in Files, NEW n \in 1..Len(buffer[f]), CrashWhileWriting(f, n)
       PROVE  TablesInv'
  BY <1>10, TablesKept DEF CrashWhileWriting, ForgetMemory, Working
<1>11. CASE UNCHANGED vars
  <2>1. Working' => Working /\ Progress'
    BY <1>11 DEF vars, diskVars, memoryVars, Working, TablesInv, Progress, NextHeight
  <2> QED
    BY <1>11, <2>1, TablesKept DEF vars, diskVars, memoryVars
<1>12. QED
  BY <1>1, <1>2, <1>3, <1>4, <1>5, <1>6, <1>7, <1>8, <1>9, <1>10, <1>11 DEF Next, Node, Fault

\* Whatever blocks are lost, interrupted or replayed and wherever the node is killed, the
\* tables are those obtained by executing the recorded blocks once, in order: every accepted
\* microblock has a place that designates it in the reference file, no other has one, and
\* the sizes are those of the reference files that have not expired.
THEOREM TablesAreThoseOfTheBlocks == Spec => []TablesMatchBlocks
<1> DEFINE Inv == TypeInv /\ PlacesInv /\ TablesInv
<1>1. Init => Inv
  BY TypeInvInit, PlacesInit, TablesInit
<1>2. Inv /\ [Next]_vars => Inv'
  BY TypeInvStep, PlacesStep, TablesStep
<1>3. Inv => TablesMatchBlocks
  <2> SUFFICES ASSUME Inv PROVE TablesMatchBlocks
    OBVIOUS
  <2>1. TablesMatch(mbStorage, dataFile, AcceptedLog, DayOf(TimeOf(DbHeight)))
    BY DEF TablesInv
  <2>2. ASSUME NEW m \in Microblocks, mbStorage[m] # Missing
        PROVE  mbStorage[m].file = FileOf[m] /\ mbStorage[m].size = SizeOf[m]
    BY <2>2 DEF PlacesInv, CommittedPlaces, PlacesFit
  <2>3. ASSUME NEW m \in Microblocks
        PROVE  IF m \in ToSet(AcceptedLog)
               THEN /\ mbStorage[m] # Missing
                    /\ SubSeq(ReferenceBytes(mbStorage[m].file), mbStorage[m].offset + 1,
                              mbStorage[m].offset + mbStorage[m].size) = Content(m)
               ELSE mbStorage[m] = Missing
    BY <2>1, <2>2 DEF TablesMatch, Holds, ReferenceBytes
  <2>4. \A f \in Files :
          dataFile[f] = IF ReferenceBytes(f) = <<>> \/ PurgedOn(f, DayOf(TimeOf(DbHeight)))
                        THEN Missing ELSE Len(ReferenceBytes(f))
    BY <2>1 DEF TablesMatch, ReferenceBytes
  <2> QED
    BY <2>3, <2>4 DEF TablesMatchBlocks
<1>4. QED
  BY <1>1, <1>2, <1>3, PTL DEF Spec

------------------------------------------------------------------------------
(* The data files are those of the log *)

\* Without a commit cut short, the committed part of a data file and what the block under
\* execution adds to it are exactly the content of the accepted microblocks; only a file
\* that is being flushed is ahead of the recorded blocks.
FilesInv ==
  /\ \A f \in Files : \E s \in Seq(Bytes) : disk[f] = ReferenceBytes(f) \o s
  /\ ~FilesAhead => \A f \in Files : disk[f] = ReferenceBytes(f)
  /\ Working => \A f \in Files : Written[f] = BytesOf(LogSoFar, f)

LEMMA FilesInit == Init => FilesInv
<1> SUFFICES ASSUME Init PROVE FilesInv
  OBVIOUS
<1>1. AcceptedLog = <<>>
  BY LogOfNothing DEF Init, AcceptedLog
<1>2. \A f \in Files : ReferenceBytes(f) = <<>> /\ disk[f] = <<>>
  BY <1>1, BytesNothing DEF ReferenceBytes, Init
<1>3. <<>> \in Seq(Bytes) /\ <<>> \o <<>> = <<>>
  BY ConcatEmptySeq
<1> QED
  BY <1>2, <1>3 DEF Init, FilesInv, Working

\* A file that has gone past its reference stays past it.
LEMMA StillAhead ==
  ASSUME TypeOK, [Next]_vars, FilesInv, NEW f \in Files, ReferenceBytes(f)' = ReferenceBytes(f)
  PROVE  \E s \in Seq(Bytes) : disk'[f] = ReferenceBytes(f) \o s
<1>1. PICK s \in Seq(Bytes) : disk[f] = ReferenceBytes(f) \o s
  BY DEF FilesInv
<1>2. CASE disk'[f] = disk[f]
  BY <1>1, <1>2
<1>3. CASE \E r \in Seq(Bytes) : disk'[f] = disk[f] \o r
  <2>1. PICK r \in Seq(Bytes) : disk'[f] = disk[f] \o r
    BY <1>3
  <2>2. PICK b : b = ReferenceBytes(f)
    OBVIOUS
  <2>3. b \in Seq(Bytes)
    BY <2>2, AcceptedLogType, BytesType DEF ReferenceBytes
  <2>4. (b \o s) \o r = b \o (s \o r) /\ s \o r \in Seq(Bytes)
    BY <2>3, ConcatAssociative, ConcatProperties
  <2> QED
    BY <1>1, <2>1, <2>2, <2>4
<1> QED
  BY <1>2, <1>3, FilesOnlyGrow

\* A step that leaves the recorded blocks alone.
LEMMA FilesKept ==
  ASSUME TypeInv, [Next]_vars, FilesInv, AcceptedLog' = AcceptedLog,
         ~FilesAhead' => ~FilesAhead /\ UNCHANGED disk,
         Working' => \A f \in Files : Written'[f] = BytesOf(LogSoFar', f)
  PROVE  FilesInv'
<1>1. \A f \in Files : ReferenceBytes(f)' = ReferenceBytes(f)
  BY DEF ReferenceBytes
<1>2. \A f \in Files : \E s \in Seq(Bytes) : disk'[f] = ReferenceBytes(f) \o s
  BY <1>1, StillAhead DEF TypeInv
<1>3. ~FilesAhead' => \A f \in Files : disk'[f] = ReferenceBytes(f)
  BY DEF FilesInv
<1> QED
  BY <1>1, <1>2, <1>3 DEF FilesInv, ReferenceBytes

LEMMA BeginBlockFiles == TypeInv /\ FilesInv /\ BeginBlock => FilesInv'
<1> SUFFICES ASSUME TypeInv, FilesInv, BeginBlock PROVE FilesInv'
  OBVIOUS
<1>1. /\ UNCHANGED <<chain, acked, dbBlocks, disk>> /\ ~FilesAhead /\ ~FilesAhead'
      /\ txIndex' = 1 /\ NextHeight <= Len(chain)
  BY DEF BeginBlock, diskVars, FilesAhead
<1>2. AcceptedLog' = AcceptedLog /\ NextHeight' = NextHeight
  BY <1>1 DEF AcceptedLog, NextHeight
<1>3. LogSoFar' = AcceptedLog
  <2>1. chain[NextHeight].txs \in Logs
    BY <1>1, BlockOfChain DEF TypeInv, Blocks, Logs
  <2>2. SubSeq(chain[NextHeight].txs, 1, 0) = <<>>
    BY <2>1, TxsByOne
  <2>3. AcceptedLog \in Logs
    BY AcceptedLogType DEF TypeInv
  <2>4. LogSoFar' = AcceptAll(AcceptedLog, SubSeq(chain[NextHeight].txs, 1, 0),
                              chain[NextHeight].time)
    BY <1>1, <1>2 DEF LogSoFar
  <2> QED
    BY <2>2, <2>3, <2>4, AcceptAllNothing
<1>4. \A f \in Files : Written'[f] = disk[f]
  <2>1. \A f \in Files : disk[f] \in Seq(Bytes)
    BY DEF TypeInv, TypeOK
  <2>2. \A f \in Files : disk[f] \o <<>> = disk[f]
    BY <2>1, ConcatEmptySeq
  <2> QED
    BY <1>1, <2>2 DEF BeginBlock, Written
<1>5. \A f \in Files : Written'[f] = BytesOf(LogSoFar', f)
  BY <1>1, <1>3, <1>4 DEF FilesInv, ReferenceBytes
<1>6. [Next]_vars
  BY DEF Next, Node
<1> QED
  BY <1>1, <1>2, <1>5, <1>6, FilesKept

LEMMA ExecTxFiles == TypeInv /\ PlacesInv /\ TablesInv /\ FilesInv /\ ExecTx => FilesInv'
<1> SUFFICES ASSUME TypeInv, PlacesInv, TablesInv, FilesInv, ExecTx PROVE FilesInv'
  OBVIOUS
<1>1. PICK m : m = chain[NextHeight].txs[txIndex]
  OBVIOUS
<1>2. /\ UNCHANGED <<chain, acked, dbBlocks, disk, pc>> /\ Working /\ [Next]_vars
  BY DEF ExecTx, diskVars, Working, Next, Node
<1>3. m \in Microblocks
  BY <1>1, TxIsMicroblock DEF ExecTx, TypeInv, ExecutingABlock
<1>4. AcceptedLog' = AcceptedLog /\ (FilesAhead' <=> FilesAhead)
  BY <1>2 DEF AcceptedLog, FilesAhead
<1>5. LogSoFar \in Logs
  BY <1>1, ExecTxLog
<1>6. \A f \in Files : Written[f] = BytesOf(LogSoFar, f)
  BY <1>2 DEF FilesInv
<1>7. \A f \in Files : Written'[f] = BytesOf(LogSoFar', f)
  <2>1. CASE ~Acceptable(m, TimeOf(NextHeight))
    <3>1. Written' = Written
      BY <1>1, <1>2, <2>1 DEF ExecTx, Written
    <3>2. LogSoFar' = LogSoFar
      BY <1>1, <2>1, ExecTxLog
    <3> QED
      BY <1>6, <3>1, <3>2
  <2>2. CASE Acceptable(m, TimeOf(NextHeight))
    <3>1. buffer' = [buffer EXCEPT ![FileOf[m]] = @ \o Content(m)]
      BY <1>1, <2>2 DEF ExecTx, AddMicroblockToBuffer
    <3>2. LogSoFar' = Append(LogSoFar, m)
      BY <1>1, <2>2, ExecTxLog
    <3> SUFFICES ASSUME NEW f \in Files PROVE Written'[f] = BytesOf(Append(LogSoFar, m), f)
      BY <3>2
    <3>3. BytesOf(Append(LogSoFar, m), f) = Extended(Written[f], m, f)
      BY <1>3, <1>5, <1>6, BytesAppend
    <3>4. /\ disk[f] \in Seq(Bytes) /\ buffer[f] \in Seq(Bytes) /\ DOMAIN buffer = Files
          /\ Written[f] = disk[f] \o buffer[f] /\ Written'[f] = disk[f] \o buffer'[f]
      BY <1>2, WrittenType DEF TypeInv, TypeOK, Written
    <3>5. CASE f # FileOf[m]
      BY <3>1, <3>3, <3>4, <3>5 DEF Extended
    <3>6. CASE f = FileOf[m]
      <4> DEFINE a == disk[f]
                 b == buffer[f]
                 c == Content(m)
      <4>1. a \in Seq(Bytes) /\ b \in Seq(Bytes) /\ c \in Seq(Bytes)
        BY <1>3, <3>4, ContentType
      <4>2. buffer'[f] = b \o c
        BY <3>1, <3>4, <3>6
      <4> HIDE DEF a, b, c
      <4>3. (a \o b) \o c = a \o (b \o c)
        BY <4>1, ConcatAssociative
      <4>4. Extended(Written[f], m, f) = Written[f] \o c
        BY <3>6 DEF Extended, c
      <4> QED
        BY <3>3, <3>4, <4>2, <4>3, <4>4 DEF a, b
    <3> QED
      BY <3>5, <3>6
  <2> QED
    BY <2>1, <2>2
<1> QED
  BY <1>2, <1>4, <1>7, FilesKept

LEMMA WriteBatchFiles ==
  TypeInv /\ CoverInv /\ PlacesInv /\ TablesInv /\ FilesInv /\ WriteBatch => FilesInv'
<1> SUFFICES ASSUME TypeInv, CoverInv, PlacesInv, TablesInv, FilesInv, WriteBatch
             PROVE  FilesInv'
  OBVIOUS
<1>1. /\ dbBlocks' = dbBlocks \cup {NextHeight} /\ UNCHANGED <<chain, acked, disk>>
      /\ ~Working' /\ Working /\ pc # "executing"
  BY DEF WriteBatch, Working
<1>2. AcceptedLog' = LogSoFar
  BY <1>1, LogSoFarAtEnd DEF AcceptedLog, TablesInv
<1>3. \A f \in Files : Written[f] = disk[f] /\ disk[f] \in Seq(Bytes)
  BY WrittenType DEF TypeInv, CoverInv, NothingPendingOnceFlushed, WriteBatch, Pending
<1>4. \A f \in Files : disk'[f] = ReferenceBytes(f)'
  BY <1>1, <1>2, <1>3 DEF FilesInv, ReferenceBytes
<1>5. \A f \in Files : disk[f] = disk[f] \o <<>> /\ <<>> \in Seq(Bytes)
  BY <1>3, ConcatEmptySeq
<1>6. \A f \in Files : \E s \in Seq(Bytes) : disk'[f] = ReferenceBytes(f)' \o s
  BY <1>1, <1>4, <1>5
<1> QED
  BY <1>1, <1>4, <1>6 DEF FilesInv

\* What the block under execution has done, when it goes on to its next phase.
LEMMA LogSoFarKept ==
  ASSUME UNCHANGED <<chain, acked, dbBlocks, txIndex>>
  PROVE  AcceptedLog' = AcceptedLog /\ LogSoFar' = LogSoFar
<1>1. AcceptedLog' = AcceptedLog /\ NextHeight' = NextHeight
  BY DEF AcceptedLog, NextHeight
<1> QED
  BY <1>1 DEF LogSoFar

LEMMA FlushFileFiles ==
  ASSUME TypeInv, FilesInv, NEW f \in Files, FlushFile(f)
  PROVE  FilesInv'
<1>1. /\ UNCHANGED <<chain, acked, dbBlocks, txIndex>> /\ Working /\ FilesAhead'
      /\ [Next]_vars
  BY DEF FlushFile, Working, FilesAhead, Next, Node
<1>2. AcceptedLog' = AcceptedLog /\ LogSoFar' = LogSoFar
  BY <1>1, LogSoFarKept
<1>3. /\ disk'[f] = disk[f] \o buffer[f] /\ buffer'[f] = <<>>
      /\ \A g \in Files \ {f} : disk'[g] = disk[g] /\ buffer'[g] = buffer[g]
  BY DEF FlushFile, Appended, TypeInv, TypeOK
<1>4. \A g \in Files : Written[g] = disk[g] \o buffer[g] /\ Written[g] \in Seq(Bytes)
  BY WrittenType DEF TypeInv
<1>5. \A g \in Files : Written'[g] = Written[g]
  <2>1. \A g \in Files : Written'[g] = disk'[g] \o buffer'[g]
    BY DEF Written
  <2>2. Written[f] \o <<>> = Written[f]
    BY <1>4, ConcatEmptySeq
  <2>3. Written'[f] = Written[f]
    BY <1>3, <1>4, <2>1, <2>2
  <2>4. \A g \in Files \ {f} : Written'[g] = Written[g]
    BY <1>3, <1>4, <2>1
  <2> QED
    BY <2>3, <2>4
<1>6. \A g \in Files : Written'[g] = BytesOf(LogSoFar', g)
  BY <1>1, <1>2, <1>5 DEF FilesInv
<1> QED
  BY <1>1, <1>2, <1>6, FilesKept

\* The files written, the buffers are empty.
LEMMA FlushDoneFiles == TypeInv /\ FilesInv /\ FlushDone => FilesInv'
<1> SUFFICES ASSUME TypeInv, FilesInv, FlushDone PROVE FilesInv'
  OBVIOUS
<1>1. /\ UNCHANGED <<chain, acked, dbBlocks, txIndex, disk>> /\ Working /\ FilesAhead'
      /\ [Next]_vars
  BY DEF FlushDone, Working, FilesAhead, diskVars, Next, Node
<1>2. AcceptedLog' = AcceptedLog /\ LogSoFar' = LogSoFar
  BY <1>1, LogSoFarKept
<1>3. \A f \in Files : buffer'[f] = buffer[f]
  BY DEF FlushDone, FlushComplete, Pending
<1>4. Written' = Written
  BY <1>1, <1>3 DEF Written
<1>5. \A f \in Files : Written'[f] = BytesOf(LogSoFar', f)
  BY <1>1, <1>2, <1>4 DEF FilesInv
<1> QED
  BY <1>1, <1>2, <1>5, FilesKept

LEMMA FilesStep ==
  ASSUME NoCommitCutShort, TypeInv, CoverInv, PlacesInv, TablesInv, FilesInv, [Next]_vars
  PROVE  FilesInv'
<1>1. ASSUME NEW t \in GenesisTime..MaxTime, NEW txs \in SeqOf(Microblocks, MaxTxs),
             Decide(t, txs)
      PROVE  FilesInv'
  <2>1. AcceptedLog' = AcceptedLog
    BY <1>1, DecideLog
  <2>2. UNCHANGED <<disk, pc>> /\ ~Working'
    BY <1>1 DEF Decide, diskVars, Working
  <2> QED
    BY <2>1, <2>2, FilesKept DEF FilesAhead
<1>2. CASE BeginBlock
  BY <1>2, BeginBlockFiles
<1>3. CASE ExecTx
  BY <1>3, ExecTxFiles
<1>4. CASE EndBlock \/ UNCHANGED vars
  <2>1. /\ UNCHANGED <<chain, acked, dbBlocks, txIndex, disk, buffer>>
        /\ Working' => Working
        /\ FilesAhead' <=> FilesAhead
    BY <1>4 DEF EndBlock, vars, diskVars, memoryVars, Working, FilesAhead
  <2>2. AcceptedLog' = AcceptedLog /\ LogSoFar' = LogSoFar /\ Written' = Written
    BY <2>1, LogSoFarKept DEF Written
  <2>3. Working' => \A f \in Files : Written'[f] = BytesOf(LogSoFar', f)
    BY <2>1, <2>2 DEF FilesInv
  <2> QED
    BY <2>1, <2>2, <2>3, FilesKept
<1>5. ASSUME NEW f \in Files, FlushFile(f) PROVE FilesInv'
  BY <1>5, FlushFileFiles
<1>6. CASE FlushDone
  BY <1>6, FlushDoneFiles
<1>7. CASE WriteBatch
  BY <1>7, WriteBatchFiles
<1>8. CASE CleanUp \/ Restart \/ Crash
  <2>1. UNCHANGED <<chain, dbBlocks, disk>> /\ ~Working'
    BY <1>8, CleanUpKeepsFiles
       DEF CleanUp, Restart, Crash, ForgetMemory, diskVars, Working, TypeInv
  <2>2. ~FilesAhead
    BY <1>8 DEF CleanUp, Restart, Crash, FilesAhead, NoCommitCutShort
  <2>3. AcceptedLog' = AcceptedLog
    BY <2>1 DEF AcceptedLog
  <2> QED
    BY <2>1, <2>2, <2>3, FilesKept
<1>9. ~LoseBatch /\ ~\E f \in Files : \E n \in 1..Len(buffer[f]) : CrashWhileWriting(f, n)
  BY DEF NoCommitCutShort, LoseBatch, CrashWhileWriting
<1>10. QED
  BY <1>1, <1>2, <1>3, <1>4, <1>5, <1>6, <1>7, <1>8, <1>9 DEF Next, Node, Fault

\* A node whose file begins with the reference content, at its length, answers every draw
\* as a node with nothing else.
LEMMA ReadsLikeItsPrefix ==
  ASSUME NEW reference \in Seq(Bytes), NEW s \in Seq(Bytes), reference # <<>>
  PROVE  ReadsLike(reference \o s, Len(reference), reference)
<1> DEFINE n == Len(reference)
           bytes == reference \o s
<1>1. /\ n \in Nat \ {0} /\ Len(bytes) = n + Len(s) /\ Len(s) \in Nat
      /\ \A k \in 1..n : bytes[k] = reference[k]
  <2>1. n \in Nat /\ n # 0
    BY EmptySeq, LenProperties
  <2> QED
    BY <2>1, ConcatProperties, LenProperties
<1> HIDE DEF n, bytes
<1>2. ASSUME NEW offset \in Offsets(n)
      PROVE  ReadPart(bytes, n, offset) = ReadPart(reference, n, offset)
  <2>1. ASSUME NEW i \in 1..PartSize
        PROVE  bytes[((offset + i - 1) % n) + 1] = reference[((offset + i - 1) % n) + 1]
    <3>1. PICK a \in Nat : a = offset + i - 1
      BY <1>1, <1>2, <2>1, ChallengeAssumption DEF Offsets
    <3>2. a % n \in 0..(n - 1)
      BY <1>1
    <3>3. (a % n) + 1 \in 1..n
      BY <1>1, <3>2
    <3> QED
      BY <1>1, <3>1, <3>3
  <2> QED
    BY <2>1 DEF ReadPart
<1>3. ReadsLike(bytes, n, reference)
  BY <1>1, <1>2 DEF ReadsLike, Opens, n
<1> QED
  BY <1>3 DEF n, bytes

\* As long as no commit is cut short, every storage challenge can be answered, and reads
\* what a node that never crashed reads: its part of the application hash is the same on
\* every node, wherever the nodes were killed and restarted.
THEOREM StorageHashesAgree ==
  ASSUME NoCommitCutShort PROVE Spec => []StorageHashAgrees
<1> DEFINE Inv == TypeInv /\ CoverInv /\ PlacesInv /\ TablesInv /\ FilesInv
<1>1. Init => Inv
  BY TypeInvInit, CoverInit, PlacesInit, TablesInit, FilesInit
<1>2. Inv /\ [Next]_vars => Inv'
  BY TypeInvStep, CoverStep, PlacesStep, TablesStep, FilesStep
<1>3. Inv => StorageHashAgrees
  <2> SUFFICES ASSUME Inv, NEW f \in Files, dataFile[f] # Missing
               PROVE  ReadsLike(disk[f], dataFile[f], ReferenceBytes(f))
    BY DEF StorageHashAgrees
  <2>1. ReferenceBytes(f) # <<>> /\ dataFile[f] = Len(ReferenceBytes(f))
    BY DEF TablesInv, TablesMatch, ReferenceBytes
  <2>2. PICK s \in Seq(Bytes) : disk[f] = ReferenceBytes(f) \o s
    BY DEF FilesInv
  <2>3. PICK b : b = ReferenceBytes(f)
    OBVIOUS
  <2>4. b \in Seq(Bytes)
    BY <2>3, AcceptedLogType, BytesType DEF ReferenceBytes, TypeInv
  <2> QED
    BY <2>1, <2>2, <2>3, <2>4, ReadsLikeItsPrefix
<1>4. QED
  BY <1>1, <1>2, <1>3, PTL DEF Spec
==============================================================================
