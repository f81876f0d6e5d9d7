----------------------------- MODULE NodeStorage -----------------------------
(***************************************************************************)
(* How a block reaches the disk of a node, and what a crash leaves there.  *)
(*                                                                         *)
(* FinalizeBlock executes the transactions of a decided block: each        *)
(* accepted microblock is appended to the write buffer of a data file      *)
(* (CachedStorage) and its position recorded in the cached tables          *)
(* MICROBLOCK_STORAGE and DATA_FILE (CachedLevelDb).  Commit appends the   *)
(* buffers to the data files, one file at a time, then writes the cached   *)
(* tables in one LevelDB batch, then removes expired data files.  A crash  *)
(* loses whatever is in memory; after a restart CometBFT learns from Info  *)
(* the last committed height and replays the blocks above it.              *)
(*                                                                         *)
(* Heights count the blocks after the genesis block, which is height 0     *)
(* here (1 in the code).  Times are integers, DayLength to a day.  A data  *)
(* file is named by its identifier: a day for files that expire, a number  *)
(* from EndlessBase up for endless storage.  A byte is a pair <<m, i>>,    *)
(* the i-th unit of microblock m.                                          *)
(***************************************************************************)
EXTENDS Naturals, Sequences, FiniteSets, SequencesExt, Overlay, Challenge

CONSTANTS
  Microblocks,   \* the microblocks users may submit
  FileOf,        \* the data file of each: Storage.getFileIdentifier()
  SizeOf,        \* the serialized size of each
  DayLength,     \* length of a day, in time units
  EndlessBase,   \* identifiers from here up never expire (0xff000000)
  GenesisTime,   \* timestamp of the genesis block
  MaxHeight,     \* bound: blocks decided after genesis
  MaxTime,       \* bound: last block timestamp
  MaxTxs,        \* bound: transactions in a block
  MaxCrashes,    \* bound: crashes of the node
  CrashPoints,   \* the phases of pc in which the node may be killed
  BatchMayFail   \* whether LevelDB may refuse the batch of a commit

\* The names of the data files, and the rows of MICROBLOCK_STORAGE.
Files == {FileOf[m] : m \in Microblocks}
Locations == [file : Files, offset : Nat, size : Nat]

ASSUME StorageAssumption ==
  /\ FileOf \in [Microblocks -> Nat]
  /\ SizeOf \in [Microblocks -> Nat \ {0}]
  /\ DayLength \in Nat \ {0}
  /\ EndlessBase \in Nat
  /\ GenesisTime \in Nat
  /\ MaxHeight \in Nat /\ MaxTime \in Nat /\ MaxTxs \in Nat /\ MaxCrashes \in Nat
  /\ BatchMayFail \in BOOLEAN
  /\ Missing \notin Nat \cup Locations
  /\ MaxTime < EndlessBase   \* no block is of 2105 or later

VARIABLES
  chain,      \* the decided blocks (CometBFT's block store)
  acked,      \* height up to which CometBFT holds the blocks to be committed
  crashes,    \* number of crashes so far
  \* on disk
  disk,       \* the bytes of each data file
  dataFile,   \* table DATA_FILE: the recorded size of each data file
  mbStorage,  \* table MICROBLOCK_STORAGE: file, offset and size of each microblock
  dbBlocks,   \* table BLOCK_CONTENT: the heights of the recorded blocks
  \* in memory
  pc,         \* where the consensus handlers are
  txIndex,    \* the transaction FinalizeBlock executes next
  wDataFile,  \* cache over DATA_FILE
  wStorage,   \* cache over MICROBLOCK_STORAGE
  buffer,     \* contentToBeWritten: the bytes to append to each file
  expected,   \* expectedFileSizeBeforeToWrite of each buffered file
  mbCache,    \* cachedSerializedMicroblockByHash
  newDay      \* newDayTimestamp: the day to clean up for, or 0

diskVars   == <<disk, dataFile, mbStorage, dbBlocks>>
memoryVars == <<txIndex, wDataFile, wStorage, buffer, expected, mbCache>>
vars == <<chain, acked, crashes, diskVars, pc, memoryVars, newDay>>

------------------------------------------------------------------------------
Bytes == Microblocks \X Nat
Blocks == [time : Nat, txs : Seq(Microblocks)]
FileTables == [Files -> Nat \cup {Missing}]
FileCaches == [ins : FileTables, del : SUBSET Files]
PlaceTables == [Microblocks -> Locations \cup {Missing}]
PlaceCaches == [ins : PlaceTables, del : SUBSET Microblocks]
Phases == {"idle", "executing", "finalized", "flushing", "flushed", "committed", "down"}

\* The serialized microblock.
Content(m) == [i \in 1..SizeOf[m] |-> <<m, i>>]

\* Utils.addDaysToTimestamp(t, 0): midnight of the day of t.
DayOf(t) == t - (t % DayLength)

\* A microblock of a virtual blockchain that expired before t is refused.
ExpiredAt(m, t) == FileOf[m] < EndlessBase /\ t > FileOf[m]

\* purgeDataFileTable() and the cleaner remove what expired before the given day.
\* (Identifiers from EndlessBase up are larger than any day.)
PurgedOn(f, day) == f < day

TimeOf(h) == IF h = 0 THEN GenesisTime ELSE chain[h].time

\* getChainInformation().height
DbHeight == Max(dbBlocks)

\* The block CometBFT asks the application to execute next.
NextHeight == acked + 1

Pending == {f \in Files : buffer[f] # <<>>}

Init ==
  /\ chain = <<>>
  /\ acked = 0
  /\ crashes = 0
  /\ disk = [f \in Files |-> <<>>]
  /\ dataFile = [f \in Files |-> Missing]
  /\ mbStorage = [m \in Microblocks |-> Missing]
  /\ dbBlocks = {0}
  /\ pc = "idle"
  /\ txIndex = 1
  /\ wDataFile = EmptyCache(Files)
  /\ wStorage = EmptyCache(Microblocks)
  /\ buffer = [f \in Files |-> <<>>]
  /\ expected = [f \in Files |-> 0]
  /\ mbCache = {}
  /\ newDay = 0

------------------------------------------------------------------------------
(* The network *)

\* The validators decide the next block, whether or not this node is up.  Block
\* timestamps never decrease.  (A decision taken while the node is in the middle of a
\* block commutes with the steps of that block, so it is left out.)
Decide(t, txs) ==
  /\ pc \in {"idle", "down"}
  /\ Len(chain) < MaxHeight
  /\ t >= TimeOf(Len(chain))
  /\ chain' = Append(chain, [time |-> t, txs |-> txs])
  /\ UNCHANGED <<acked, crashes, diskVars, pc, memoryVars, newDay>>

------------------------------------------------------------------------------
(* FinalizeBlock *)

\* The day of the block before the one at height h, 0 if the database does not hold it.
PreviousDay(h) == IF h - 1 \in dbBlocks THEN DayOf(TimeOf(h - 1)) ELSE 0

\* clearCaches() and updateGlobalStateOnBlock(): on the first block of a day the
\* rows of expired files are deleted from DATA_FILE and the cleanup is scheduled.
BeginBlock ==
  /\ pc = "idle"
  /\ NextHeight <= Len(chain)
  /\ NextHeight \notin dbBlocks
  /\ LET day == DayOf(TimeOf(NextHeight)) IN
       IF day # PreviousDay(NextHeight)
       THEN /\ wDataFile' = DelAll(EmptyCache(Files),
                              {f \in Files : dataFile[f] # Missing /\ PurgedOn(f, day)})
            /\ newDay' = day
       ELSE /\ wDataFile' = EmptyCache(Files)
            /\ UNCHANGED newDay
  /\ wStorage' = EmptyCache(Microblocks)
  /\ buffer' = [f \in Files |-> <<>>]
  /\ mbCache' = {}
  /\ txIndex' = 1
  /\ pc' = "executing"
  /\ UNCHANGED <<chain, acked, crashes, diskVars, expected>>

\* Mutation: the offset of a microblock is taken from the committed table, so that two
\* microblocks of one block get the same place in their file.
RecordedSize_Committed(f) == IF dataFile[f] = Missing THEN 0 ELSE dataFile[f]

\* The size of a data file as the block under execution sees it.
RecordedSize(f) ==
  LET size == GetRaw(dataFile, wDataFile, f) IN IF size = Missing THEN 0 ELSE size

\* A transaction fails if its microblock is already on the chain (it then does not
\* extend the local state of its virtual blockchain) or has expired.
Acceptable(m, t) ==
  /\ GetRaw(mbStorage, wStorage, m) = Missing
  /\ ~ExpiredAt(m, t)

\* Mutation: the place of a microblock is recorded without its offset.
Place_NoOffset(m, offset) == [file |-> FileOf[m], size |-> SizeOf[m]]

\* The row of MICROBLOCK_STORAGE.
Place(m, offset) == [file |-> FileOf[m], offset |-> offset, size |-> SizeOf[m]]

\* addMicroblockToBuffer()
AddMicroblockToBuffer(m) ==
  LET f == FileOf[m]
      size == RecordedSize(f) IN
    /\ mbCache' = mbCache \cup {m}
    /\ buffer' = [buffer EXCEPT ![f] = @ \o Content(m)]
    /\ expected' = IF f \in Pending THEN expected ELSE [expected EXCEPT ![f] = size]
    /\ wStorage' = PutRaw(wStorage, m, Place(m, size))
    /\ wDataFile' = PutRaw(wDataFile, f, size + SizeOf[m])

\* One iteration of the loop over the transactions: a failed one leaves the tables of
\* this module alone and gets a non-zero code.
ExecTx ==
  /\ pc = "executing"
  /\ txIndex <= Len(chain[NextHeight].txs)
  /\ LET m == chain[NextHeight].txs[txIndex] IN
       IF Acceptable(m, TimeOf(NextHeight))
       THEN AddMicroblockToBuffer(m)
       ELSE UNCHANGED <<wDataFile, wStorage, buffer, expected, mbCache>>
  /\ txIndex' = txIndex + 1
  /\ UNCHANGED <<chain, acked, crashes, diskVars, pc, newDay>>

\* finalizeBlockApproval(): the block enters the cached tables and the application
\* hash is computed, with a storage challenge over the committed part of the files.
EndBlock ==
  /\ pc = "executing"
  /\ txIndex > Len(chain[NextHeight].txs)
  /\ pc' = "finalized"
  /\ UNCHANGED <<chain, acked, crashes, diskVars, memoryVars, newDay>>

------------------------------------------------------------------------------
(* Commit *)

\* Mutation: the position is that of an empty file.
Appended_AtStart(f) ==
  buffer[f] \o SubSeq(disk[f], Len(buffer[f]) + 1, Len(disk[f]))

\* writeTransactions() writes at the end of the file, wherever that is.
Appended(f) == disk[f] \o buffer[f]

\* flush() writes and fsyncs one buffered file.
FlushFile(f) ==
  /\ pc \in {"finalized", "flushing"}
  /\ f \in Pending
  /\ disk' = [disk EXCEPT ![f] = Appended(f)]
  /\ buffer' = [buffer EXCEPT ![f] = <<>>]
  /\ pc' = "flushing"
  /\ UNCHANGED <<chain, acked, crashes, dataFile, mbStorage, dbBlocks,
                 txIndex, wDataFile, wStorage, expected, mbCache, newDay>>

\* Mutation: the tables are written as soon as the flush starts.
FlushComplete_Early == TRUE

\* flush() has gone through every buffered file.
FlushComplete == Pending = {}

\* The end of flush(): both caches of CachedStorage are emptied.
FlushDone ==
  /\ pc \in {"finalized", "flushing"}
  /\ FlushComplete
  /\ buffer' = [f \in Files |-> <<>>]
  /\ mbCache' = {}
  /\ pc' = "flushed"
  /\ UNCHANGED <<chain, acked, crashes, diskVars, txIndex, wDataFile, wStorage,
                 expected, newDay>>

\* The LevelDB batch: every table at once.
WriteBatch ==
  /\ pc = "flushed"
  /\ dataFile' = BatchWrite(dataFile, wDataFile)
  /\ mbStorage' = BatchWrite(mbStorage, wStorage)
  /\ dbBlocks' = dbBlocks \cup {NextHeight}
  /\ wDataFile' = EmptyCache(Files)
  /\ wStorage' = EmptyCache(Microblocks)
  /\ pc' = "committed"
  /\ UNCHANGED <<chain, acked, crashes, disk, txIndex, buffer, expected, mbCache, newDay>>

\* The batch is refused: LevelDb.getBatch().write() catches the exception, nobody
\* looks at its result, and Commit goes on as if the block were stored.
LoseBatch ==
  /\ BatchMayFail
  /\ pc = "flushed"
  /\ wDataFile' = EmptyCache(Files)
  /\ wStorage' = EmptyCache(Microblocks)
  /\ pc' = "committed"
  /\ UNCHANGED <<chain, acked, crashes, diskVars, txIndex, buffer, expected, mbCache,
                 newDay>>

\* getFilesWithExpirationDayBefore(): the files whose name is eight digits.  Every
\* data file is written as YYYYMMDD.bin or NN.bin, so the pattern matches none.
NameIsEightDigits(f) == FALSE

Removable(f, day) == PurgedOn(f, day) /\ NameIsEightDigits(f)

\* removeExpiredDataFiles() on the first commit of a day, then the response to CometBFT.
CleanUp ==
  /\ pc = "committed"
  /\ disk' = [f \in Files |-> IF newDay # 0 /\ Removable(f, newDay) THEN <<>> ELSE disk[f]]
  /\ newDay' = 0
  /\ acked' = NextHeight
  /\ pc' = "idle"
  /\ UNCHANGED <<chain, crashes, dataFile, mbStorage, dbBlocks, memoryVars>>

------------------------------------------------------------------------------
(* Crash and restart *)

ForgetMemory ==
  /\ txIndex' = 1
  /\ wDataFile' = EmptyCache(Files)
  /\ wStorage' = EmptyCache(Microblocks)
  /\ buffer' = [f \in Files |-> <<>>]
  /\ expected' = [f \in Files |-> 0]
  /\ mbCache' = {}
  /\ newDay' = 0
  /\ pc' = "down"
  /\ crashes' = crashes + 1

\* The node is killed between two steps.
Crash ==
  /\ pc \in CrashPoints \ {"down"}
  /\ crashes < MaxCrashes
  /\ ForgetMemory
  /\ UNCHANGED <<chain, acked, diskVars>>

\* The node is killed, or power fails, while a file is being written: some prefix of
\* the buffer has reached the file.
CrashWhileWriting(f, n) ==
  /\ "flushing" \in CrashPoints
  /\ crashes < MaxCrashes
  /\ pc \in {"finalized", "flushing"}
  /\ f \in Pending
  /\ n \in 1..Len(buffer[f])
  /\ disk' = [disk EXCEPT ![f] = @ \o SubSeq(buffer[f], 1, n)]
  /\ ForgetMemory
  /\ UNCHANGED <<chain, acked, dataFile, mbStorage, dbBlocks>>

\* Mutation: the block that was being executed counts as done.
ReportedHeight_Started == acked + 1

\* Mutation: one block too few is reported.
ReportedHeight_OneLess == DbHeight - 1

\* The last_block_height of the response to Info.
ReportedHeight == DbHeight

\* CometBFT replays the blocks above the height that Info reports.
Restart ==
  /\ pc = "down"
  /\ pc' = "idle"
  /\ acked' = ReportedHeight
  /\ UNCHANGED <<chain, crashes, diskVars, memoryVars, newDay>>

------------------------------------------------------------------------------
Node ==
  \/ BeginBlock
  \/ ExecTx
  \/ EndBlock
  \/ \E f \in Files : FlushFile(f)
  \/ FlushDone
  \/ WriteBatch
  \/ LoseBatch
  \/ CleanUp
  \/ Restart

Fault ==
  \/ Crash
  \/ \E f \in Files : \E n \in 1..Len(buffer[f]) : CrashWhileWriting(f, n)

Next ==
  \/ \E t \in GenesisTime..MaxTime, txs \in SeqOf(Microblocks, MaxTxs) : Decide(t, txs)
  \/ Node
  \/ Fault

Spec == Init /\ [][Next]_vars

\* The handlers run to completion (CometBFT waits for each answer and retries nothing)
\* and a supervisor restarts a node that is down.
FairSpec == Spec /\ WF_vars(Node)

------------------------------------------------------------------------------
(* Properties *)

TypeOK ==
  /\ chain \in Seq(Blocks)
  /\ acked \in Nat
  /\ crashes \in Nat
  /\ disk \in [Files -> Seq(Bytes)]
  /\ dataFile \in FileTables
  /\ mbStorage \in PlaceTables
  /\ dbBlocks \in SUBSET Nat
  /\ pc \in Phases
  /\ txIndex \in Nat \ {0}
  /\ wDataFile \in FileCaches
  /\ wStorage \in PlaceCaches
  /\ buffer \in [Files -> Seq(Bytes)]
  /\ expected \in [Files -> Nat]
  /\ mbCache \in SUBSET Microblocks
  /\ newDay \in Nat

\* A data file is never smaller than what the database, and an open write buffer,
\* say of it, wherever the node is killed: the two PANIC conditions of
\* Storage.writeTransactions() and ChallengeFile.open() cannot arise.
FilesCoverTables ==
  \A f \in Files :
    /\ dataFile[f] # Missing => Len(disk[f]) >= dataFile[f]
    /\ f \in Pending => Len(disk[f]) >= expected[f]

\* The places that the database records for two microblocks of one file never overlap,
\* and lie inside the recorded size of the file unless its row has been purged.
PlacesDisjoint ==
  \A m \in Microblocks : mbStorage[m] # Missing =>
    LET p == mbStorage[m] IN
      /\ dataFile[p.file] # Missing => p.offset + p.size <= dataFile[p.file]
      /\ \A n \in Microblocks \ {m} :
           mbStorage[n] # Missing /\ mbStorage[n].file = p.file
             => \/ p.offset + p.size <= mbStorage[n].offset
                \/ mbStorage[n].offset + mbStorage[n].size <= p.offset

\* The microblocks on the chain after those in txs have been executed, at time t, on top of
\* those in log.
Accept(log, m, t) == IF m \in ToSet(log) \/ ExpiredAt(m, t) THEN log ELSE Append(log, m)

AcceptAll(log, txs, t) == FoldLeft(LAMBDA l, m : Accept(l, m, t), log, txs)

\* The microblocks accepted by executing, in order, those of the blocks that have the given
\* heights.
LogOf(blocks, heights) ==
  FoldLeftDomain(LAMBDA log, h : IF h \in heights
                                 THEN AcceptAll(log, blocks[h].txs, blocks[h].time)
                                 ELSE log,
                 <<>>, blocks)

\* What the recorded blocks stand for, the reference against which the tables and files are
\* compared: the microblocks accepted, and the content of a data file on a node that never
\* crashed.
AcceptedLog == LogOf(chain, dbBlocks)

BytesOf(log, f) ==
  FoldLeft(LAMBDA bytes, m : IF FileOf[m] = f THEN bytes \o Content(m) ELSE bytes, <<>>, log)

ReferenceBytes(f) == BytesOf(AcceptedLog, f)

\* Whatever blocks were lost, interrupted or replayed, the tables are those of the
\* blocks the database holds: each recorded place designates the microblock in the
\* reference file, and DATA_FILE has exactly the unexpired files, at their size.
TablesMatchBlocks ==
  LET today == DayOf(TimeOf(DbHeight)) IN
    /\ \A m \in Microblocks :
         IF m \in ToSet(AcceptedLog)
         THEN /\ mbStorage[m] # Missing
              /\ SubSeq(ReferenceBytes(mbStorage[m].file), mbStorage[m].offset + 1,
                        mbStorage[m].offset + mbStorage[m].size) = Content(m)
         ELSE mbStorage[m] = Missing
    /\ \A f \in Files :
         dataFile[f] = IF ReferenceBytes(f) = <<>> \/ PurgedOn(f, today)
                       THEN Missing ELSE Len(ReferenceBytes(f))

\* Bytes the database accounts for are never written again: no step changes the part
\* of a data file below its recorded size.
CommittedBytesImmutable ==
  [][\A f \in Files : dataFile[f] # Missing =>
       SubSeq(disk'[f], 1, dataFile[f]) = SubSeq(disk[f], 1, dataFile[f])]_vars

\* Storage.readMicroblock()
ReadFromDisk(m) ==
  IF mbStorage[m] = Missing THEN Missing
  ELSE LET p == mbStorage[m] IN
    IF p.offset + p.size > Len(disk[p.file]) THEN Missing
    ELSE SubSeq(disk[p.file], p.offset + 1, p.offset + p.size)

\* CachedStorage.readMicroblock(), as a query between any two steps would run it.
ReadMicroblock(m) == IF m \in mbCache THEN Content(m) ELSE ReadFromDisk(m)

\* "Reads a full microblock from its hash": a microblock whose block is committed and
\* that has not expired reads back as it was submitted, at any moment.
CommittedReadable ==
  \A m \in Microblocks :
    mbStorage[m] # Missing /\ ~PurgedOn(FileOf[m], DayOf(TimeOf(DbHeight)))
      => ReadMicroblock(m) = Content(m)

\* Whatever the storage challenge of a block draws, it can be read, and the parts that go
\* into the application hash are those of a node that never crashed.
StorageHashAgrees ==
  \A f \in Files : dataFile[f] # Missing => ReadsLike(disk[f], dataFile[f], ReferenceBytes(f))

\* The blocks in the database have no gap, and every block whose commit CometBFT saw
\* complete is there.
NoBlockMissing == dbBlocks = 0..DbHeight /\ acked <= DbHeight

\* "Removes expired data files": after the cleanup of a day nothing that expired
\* before it is left.
ExpiredFilesRemoved ==
  pc = "idle" => \A f \in Files :
    PurgedOn(f, DayOf(TimeOf(DbHeight))) => disk[f] = <<>>

\* Every decided block ends up in the database, in spite of the crashes: an interrupted
\* block is found to be missing at the next Info and is executed again.
DecidedIsStored ==
  \A h \in 1..MaxHeight : Len(chain) >= h ~> h \in dbBlocks
==============================================================================
