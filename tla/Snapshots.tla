------------------------------ MODULE Snapshots ------------------------------
(***************************************************************************)
(* State sync: a node creates snapshots in the background of its commits   *)
(* and serves their chunks; another node that joins imports one of them.   *)
(*                                                                         *)
(* A snapshot is a dump of the database, a description of its chunks and   *)
(* a JSON entry that lists it.  The chunks hold the dump and the committed *)
(* part of the data files, which stay where Storage keeps them.            *)
(*                                                                         *)
(* Each block appends one unit, named by its height, to one data file, and *)
(* a row of the database is one unit of the dump.  The rows that matter    *)
(* are the height of the chain and the size of each data file.  Everything *)
(* is awaited file operation by file operation, and blocks, creation,      *)
(* serving and importing interleave.  NodeStorage shows that committed     *)
(* bytes of data files are never rewritten; here they only grow.           *)
(***************************************************************************)
EXTENDS Integers, Sequences, FiniteSets, SequencesExt

CONSTANTS
  FileOfBlock,   \* the data file each block writes to
  Period,        \* snapshot_block_period
  MaxSnapshots,  \* max_snapshots
  ChunkSize,     \* max_snapshot_chunk_size, in units
  BatchSize,     \* DB_BATCH_SIZE, in rows
  MaxHeight,     \* bound: blocks after genesis
  MaxCrashes,    \* bound: crashes of either node
  Missing,       \* no such file
  Torn           \* a JSON file that does not parse

ASSUME SnapshotsAssumption ==
  /\ MaxHeight \in Nat
  /\ FileOfBlock \in [1..MaxHeight -> Nat \ {0}]
  /\ Period \in Nat \ {0}
  /\ MaxSnapshots \in Nat
  /\ ChunkSize \in Nat \ {0}
  /\ BatchSize \in Nat \ {0}
  /\ MaxCrashes \in Nat

VARIABLES
  height,      \* height of the database of the serving node
  commitPc,    \* where its Commit handler is
  clearList,   \* the snapshots clear() has still to consider, latest first
  creation,    \* the snapshot being created
  dump,        \* db-dump-in-progress.bin
  dbFile,      \* snapshot-<height>-db.bin
  chunksFile,  \* snapshot-<height>-chunks.bin
  json,        \* snapshot-<height>.json: the number of chunks it announces
  crashes,     \* crashes so far
  \* the chunk being served, and the node that imports it
  sync,        \* where the exchange is
  offered,     \* importedSnapshot
  index,       \* the chunk being fetched or applied
  records,     \* the records of the chunk still to be copied
  payload,     \* what is still to be used of the chunk (a description or units), or of the dump
  importedChunks, \* imported-chunks.bin
  importedDb,  \* the dump received for each height
  importedFiles,  \* the data files of the importing node
  importedRows \* its database

serving   == <<height, commitPc, clearList, creation, dump, dbFile, chunksFile, json>>
importing == <<sync, offered, index, records, payload, importedChunks,
               importedDb, importedFiles, importedRows>>
vars == <<serving, crashes, importing>>

Heights == 1..MaxHeight
DataFiles == {FileOfBlock[h] : h \in Heights}
DbFileIdentifier == 0

------------------------------------------------------------------------------
(* What a node holds at height h *)

\* The elements of a set of numbers, in order.
InOrder(S) ==
  CHOOSE s \in [1..Cardinality(S) -> S] :
    ToSet(s) = S /\ \A i, j \in DOMAIN s : i < j => s[i] < s[j]

FilesUpTo(h) == {FileOfBlock[b] : b \in 1..h}
FilesAt(h) == InOrder(FilesUpTo(h))

\* Every block is appended to its file.
Bytes(f, h) ==
  LET held[b \in 0..MaxHeight] ==
        IF b = 0 THEN <<>>
        ELSE IF FileOfBlock[b] = f THEN Append(held[b - 1], b) ELSE held[b - 1]
  IN held[h]

\* The database, in the order of its keys: CHAIN_INFORMATION, then DATA_FILE.
ChainInformation == 0
Rows(h) ==
  <<<<ChainInformation, h>>>>
    \o [i \in 1..Len(FilesAt(h)) |-> <<FilesAt(h)[i], Len(Bytes(FilesAt(h)[i], h))>>]

------------------------------------------------------------------------------
(* The chunks: files laid end to end and cut every ChunkSize units *)

Record(f, offset, size) == [file |-> f, offset |-> offset, size |-> size]
\* Mutation: a file that does not fit at all leaves an empty record.
WithRecord_Empty(chunk, r) == Append(chunk, r)

WithRecord(chunk, r) == IF r.size > 0 THEN Append(chunk, r) ELSE chunk
NoChunks == [chunks |-> <<>>, current |-> <<>>, fill |-> 0, offset |-> 0]

\* File f completes the current chunk.
CutChunk(s, f) ==
  [chunks  |-> Append(s.chunks, WithRecord(s.current, Record(f, s.offset, ChunkSize - s.fill))),
   current |-> <<>>,
   fill    |-> 0,
   offset  |-> s.offset + ChunkSize - s.fill]

\* A turn of the inner loop, as long as what is left exceeds the current chunk.
CutIfFull(s, f, size) ==
  IF s.fill + size - s.offset > ChunkSize THEN CutChunk(s, f) ELSE s

\* (An operator's value at x, such that TLC evaluates x once.)
TheOne(S) == CHOOSE x \in S : TRUE

\* The inner loop.  Each turn but the first takes ChunkSize units: size + 1 turns are enough.
CutChunks(s, f, size) ==
  LET turn[k \in 0..(size + 1)] ==
        IF k = 0 THEN s ELSE TheOne({CutIfFull(t, f, size) : t \in {turn[k - 1]}})
  IN turn[size + 1]

\* The rest of the file goes to the current chunk.
AddRest(s, f, size) ==
  [chunks  |-> s.chunks,
   current |-> WithRecord(s.current, Record(f, s.offset, size - s.offset)),
   fill    |-> s.fill + size - s.offset,
   offset  |-> s.offset]

\* One turn of the outer loop, for a pair <<file, size>>.
PlaceFile(s, file) ==
  TheOne({AddRest(t, file[1], file[2]) :
            t \in {CutChunks([s EXCEPT !.offset = 0], file[1], file[2])}})

LastChunk(s) == IF s.fill > 0 THEN Append(s.chunks, s.current) ELSE s.chunks

\* createChunksFile(), for a sequence of <<file, size>>.
ChunksOf(files) ==
  LET placed[n \in 0..Len(files)] ==
        IF n = 0 THEN NoChunks ELSE TheOne({PlaceFile(s, files[n]) : s \in {placed[n - 1]}})
  IN TheOne({LastChunk(s) : s \in {placed[Len(files)]}})

------------------------------------------------------------------------------
(* The serving node *)

Listed == {h \in Heights : json[h] \notin {Missing, Torn}}

Init ==
  /\ height = 0
  /\ commitPc = "ready"
  /\ clearList = <<>>
  /\ creation = [pc |-> "off", iterator |-> 0]
  /\ dump = <<>>
  /\ dbFile = [h \in Heights |-> Missing]
  /\ chunksFile = [h \in Heights |-> Missing]
  /\ json = [h \in Heights |-> Missing]
  /\ crashes = 0
  /\ sync = "idle"
  /\ offered = Missing
  /\ index = 0
  /\ records = <<>>
  /\ payload = <<>>
  /\ importedChunks = Missing
  /\ importedDb = [h \in Heights |-> <<>>]
  /\ importedFiles = [f \in DataFiles |-> <<>>]
  /\ importedRows = {}

\* A block is committed; every Period blocks Commit turns to the snapshots.
CommitBlock ==
  /\ commitPc = "ready"
  /\ height < MaxHeight
  /\ height' = height + 1
  /\ commitPc' = IF height' % Period = 0 THEN "list" ELSE "ready"
  /\ UNCHANGED <<clearList, creation, dump, dbFile, chunksFile, json, crashes, importing>>

\* clear(): getList(), which sees the JSON entries that parse, sorted by height.
ReadList ==
  /\ commitPc = "list"
  /\ clearList' = Reverse(InOrder(Listed))
  /\ commitPc' = "clear"
  /\ UNCHANGED <<height, creation, dump, dbFile, chunksFile, json, crashes, importing>>

\* Mutation: the snapshot about to be created is not counted.
ClearGoesOn_KeepsMax == Len(clearList) > MaxSnapshots

\* clear(max - 1) goes on while the list is longer than that.  (For max_snapshots = 0
\* the loop keeps popping an empty list and never ends: no action is enabled then.)
ClearGoesOn == Len(clearList) > MaxSnapshots - 1

RemoveJson ==
  /\ commitPc = "clear"
  /\ ClearGoesOn
  /\ clearList # <<>>
  /\ json' = [json EXCEPT ![Last(clearList)] = Missing]
  /\ commitPc' = "removeDb"
  /\ UNCHANGED <<height, clearList, creation, dump, dbFile, chunksFile, crashes, importing>>

RemoveDbFile ==
  /\ commitPc = "removeDb"
  /\ dbFile' = [dbFile EXCEPT ![Last(clearList)] = Missing]
  /\ commitPc' = "removeChunks"
  /\ UNCHANGED <<height, clearList, creation, dump, chunksFile, json, crashes, importing>>

RemoveChunksFile ==
  /\ commitPc = "removeChunks"
  /\ chunksFile' = [chunksFile EXCEPT ![Last(clearList)] = Missing]
  /\ clearList' = Front(clearList)
  /\ commitPc' = "clear"
  /\ UNCHANGED <<height, creation, dump, dbFile, json, crashes, importing>>

\* Commit starts create() and answers.  The iterator of the database is taken at once.
\* If the previous snapshot is still in progress create() throws, and this one is skipped.
StartCreation ==
  /\ commitPc = "clear"
  /\ ~ClearGoesOn
  /\ commitPc' = "ready"
  /\ clearList' = <<>>
  /\ \/ /\ creation.pc = "off"
        /\ creation' = [pc |-> "dump", iterator |-> height]
        /\ dump' = <<>>
     \/ /\ creation.pc # "off"
        /\ UNCHANGED <<creation, dump>>
  /\ UNCHANGED <<height, dbFile, chunksFile, json, crashes, importing>>

\* Mutation: the rows are read from the live database.
SeenByIterator_Live == Rows(height)

\* The iterator sees the database as it was when it was taken.
SeenByIterator == Rows(creation.iterator)

DumpRow ==
  /\ creation.pc = "dump"
  /\ Len(dump) < Len(SeenByIterator)
  /\ dump' = Append(dump, SeenByIterator[Len(dump) + 1])
  /\ UNCHANGED <<height, commitPc, clearList, creation, dbFile, chunksFile, json, crashes, importing>>

\* The height and the files of the snapshot are those found in the dump.
DumpHeight(d) == d[1][2]
DumpFiles(d) == Tail(d) \o <<<<DbFileIdentifier, Len(d)>>>>

RenameDump ==
  /\ creation.pc = "dump"
  /\ Len(dump) = Len(SeenByIterator)
  /\ dbFile' = [dbFile EXCEPT ![DumpHeight(dump)] = dump]
  /\ creation' = [creation EXCEPT !.pc = "chunks"]
  /\ UNCHANGED <<height, commitPc, clearList, dump, chunksFile, json, crashes, importing>>

WriteChunksFile ==
  /\ creation.pc = "chunks"
  /\ chunksFile' = [chunksFile EXCEPT ![DumpHeight(dump)] =
                      [height |-> DumpHeight(dump), chunks |-> ChunksOf(DumpFiles(dump))]]
  /\ creation' = [creation EXCEPT !.pc = "json"]
  /\ UNCHANGED <<height, commitPc, clearList, dump, dbFile, json, crashes, importing>>

WriteJson ==
  /\ creation.pc = "json"
  /\ json' = [json EXCEPT ![DumpHeight(dump)] = Len(chunksFile[DumpHeight(dump)].chunks) + 1]
  /\ creation' = [creation EXCEPT !.pc = "off"]
  /\ UNCHANGED <<height, commitPc, clearList, dump, dbFile, chunksFile, crashes, importing>>

\* The serving node is killed: clear() and create() stop where they are, the JSON file
\* possibly half written.  CometBFT fetches the chunk in progress again.
ServerCrash ==
  /\ crashes < MaxCrashes
  /\ crashes' = crashes + 1
  /\ commitPc' = "ready"
  /\ clearList' = <<>>
  /\ creation' = [pc |-> "off", iterator |-> 0]
  /\ \/ UNCHANGED json
     \/ /\ creation.pc = "json"
        /\ json' = [json EXCEPT ![DumpHeight(dump)] = Torn]
  /\ sync' = IF sync \in {"opening", "copying"} THEN "fetch" ELSE sync
  /\ records' = IF sync = "copying" THEN <<>> ELSE records
  /\ payload' = IF sync = "copying" THEN <<>> ELSE payload
  /\ UNCHANGED <<height, dump, dbFile, chunksFile, offered, index, importedChunks,
                 importedDb, importedFiles, importedRows>>

------------------------------------------------------------------------------
(* LoadSnapshotChunk: getChunk() on the serving node *)

\* CometBFT takes an empty chunk or an error for a missing one; it gives the snapshot up
\* when no peer delivers, for a snapshot that was removed does not come back.
SnapshotGone == sync' = "idle" /\ records' = <<>> /\ payload' = <<>>

ReadJson ==
  /\ sync = "fetch"
  /\ \/ /\ offered.height \in Listed
        /\ sync' = "opening"
        /\ UNCHANGED <<records, payload>>
     \/ /\ offered.height \notin Listed
        /\ SnapshotGone
  /\ UNCHANGED <<serving, crashes, offered, index, importedChunks, importedDb,
                 importedFiles, importedRows>>

\* The chunks file may be gone by now.  Chunk 0 is that file.  (CometBFT asks for the
\* chunks that were announced only, so getChunk() meets no index out of range.)
OpenChunks ==
  /\ sync = "opening"
  /\ LET description == chunksFile[offered.height] IN
     \/ /\ description = Missing
        /\ SnapshotGone
     \/ /\ description # Missing
        /\ index = 0
        /\ sync' = "apply"
        /\ payload' = description
        /\ UNCHANGED records
     \/ /\ description # Missing
        /\ index \in 1..Len(description.chunks)
        /\ sync' = "copying"
        /\ records' = description.chunks[index]
        /\ payload' = <<>>
  /\ UNCHANGED <<serving, crashes, offered, index, importedChunks, importedDb,
                 importedFiles, importedRows>>

\* The file a record refers to, as it is now.
SourceOf(r) ==
  IF r.file = DbFileIdentifier THEN dbFile[offered.height] ELSE Bytes(r.file, height)

\* copyFileToBuffer() throws if the file is gone or too short.
CopyRecord ==
  /\ sync = "copying"
  /\ records # <<>>
  /\ LET r == Head(records) IN
     \/ /\ SourceOf(r) # Missing
        /\ Len(SourceOf(r)) >= r.offset + r.size
        /\ payload' = payload \o SubSeq(SourceOf(r), r.offset + 1, r.offset + r.size)
        /\ records' = Tail(records)
        /\ UNCHANGED sync
     \/ /\ SourceOf(r) = Missing
        /\ SnapshotGone
  /\ UNCHANGED <<serving, crashes, offered, index, importedChunks, importedDb,
                 importedFiles, importedRows>>

ChunkServed ==
  /\ sync = "copying"
  /\ records = <<>>
  /\ sync' = "apply"
  /\ UNCHANGED <<serving, crashes, offered, index, records, payload, importedChunks,
                 importedDb, importedFiles, importedRows>>

------------------------------------------------------------------------------
(* The importing node *)

\* The answer to ListSnapshots: the number of chunks of each snapshot.
Advertised == [h \in Listed |-> json[h]]

\* OfferSnapshot: CometBFT offers a snapshot that a peer lists; it is always accepted.
OfferSnapshot(h) ==
  /\ sync = "idle"
  /\ h \in DOMAIN Advertised
  /\ offered' = [height |-> h, chunks |-> Advertised[h]]
  /\ index' = 0
  /\ sync' = "fetch"
  /\ UNCHANGED <<serving, crashes, records, payload, importedChunks, importedDb,
                 importedFiles, importedRows>>

\* ApplySnapshotChunk, chunk 0: the description is saved.
SaveDescription ==
  /\ sync = "apply"
  /\ index = 0
  /\ importedChunks' = payload
  /\ payload' = <<>>
  /\ index' = 1
  /\ sync' = "fetch"
  /\ UNCHANGED <<serving, crashes, offered, records, importedDb, importedFiles, importedRows>>

\* The other chunks: processChunk() finds their records in the saved description.
ApplyChunk ==
  /\ sync = "apply"
  /\ index > 0
  /\ records' = importedChunks.chunks[index]
  /\ sync' = "writing"
  /\ UNCHANGED <<serving, crashes, offered, index, payload, importedChunks, importedDb,
                 importedFiles, importedRows>>

\* Mutation: a left-over file is not truncated.
Written_Appends(content, r) == content \o SubSeq(payload, 1, r.size)

\* copyBufferToFile() truncates the file for offset 0 and appends otherwise.
Written(content, r) ==
  (IF r.offset = 0 THEN <<>> ELSE content) \o SubSeq(payload, 1, r.size)

\* The file of the importing node that a record goes to.
TargetOf(r) ==
  IF r.file = DbFileIdentifier THEN importedDb[importedChunks.height] ELSE importedFiles[r.file]

WriteRecord ==
  /\ sync = "writing"
  /\ records # <<>>
  /\ LET r == Head(records) IN
     /\ \/ /\ r.file = DbFileIdentifier
           /\ importedDb' = [importedDb EXCEPT ![importedChunks.height] = Written(@, r)]
           /\ UNCHANGED importedFiles
        \/ /\ r.file # DbFileIdentifier
           /\ importedFiles' = [importedFiles EXCEPT ![r.file] = Written(@, r)]
           /\ UNCHANGED importedDb
     /\ payload' = SubSeq(payload, r.size + 1, Len(payload))
  /\ records' = Tail(records)
  /\ UNCHANGED <<serving, crashes, sync, offered, index, importedChunks, importedRows>>

\* Mutation: chunks are counted without the description.
LastIndex_TooLate == offered.chunks

\* isLast
LastIndex == offered.chunks - 1

NextChunk ==
  /\ sync = "writing"
  /\ records = <<>>
  /\ index # LastIndex
  /\ index' = index + 1
  /\ sync' = "fetch"
  /\ UNCHANGED <<serving, crashes, offered, records, payload, importedChunks, importedDb,
                 importedFiles, importedRows>>

\* Mutation: the database is not cleared.
ClearDatabase_Skipped ==
  /\ sync = "writing"
  /\ records = <<>>
  /\ index = LastIndex
  /\ payload' = importedDb[importedChunks.height]
  /\ sync' = "loading"
  /\ UNCHANGED <<serving, crashes, offered, index, records, importedChunks,
                 importedDb, importedFiles, importedRows>>

\* importDbFile() first clears the database ...
ClearDatabase ==
  /\ sync = "writing"
  /\ records = <<>>
  /\ index = LastIndex
  /\ importedRows' = {}
  /\ payload' = importedDb[importedChunks.height]
  /\ sync' = "loading"
  /\ UNCHANGED <<serving, crashes, offered, index, records, importedChunks,
                 importedDb, importedFiles>>

\* ... then puts the rows of the dump in batches.
Put(rows, batch) == {r \in rows : \A b \in batch : b[1] # r[1]} \cup batch

LoadBatch ==
  /\ sync = "loading"
  /\ \/ /\ Len(payload) > BatchSize
        /\ importedRows' = Put(importedRows, ToSet(SubSeq(payload, 1, BatchSize)))
        /\ payload' = SubSeq(payload, BatchSize + 1, Len(payload))
        /\ UNCHANGED sync
     \/ /\ Len(payload) <= BatchSize
        /\ importedRows' = Put(importedRows, ToSet(payload))
        /\ payload' = <<>>
        /\ sync' = "imported"
  /\ UNCHANGED <<serving, crashes, offered, index, records, importedChunks,
                 importedDb, importedFiles>>

\* The importing node is killed: its files stay, and CometBFT, which has no state yet,
\* begins again with an offer.
ImporterCrash ==
  /\ crashes < MaxCrashes
  /\ sync # "idle"
  /\ crashes' = crashes + 1
  /\ sync' = "idle"
  /\ offered' = Missing
  /\ index' = 0
  /\ records' = <<>>
  /\ payload' = <<>>
  /\ UNCHANGED <<serving, importedChunks, importedDb, importedFiles, importedRows>>

------------------------------------------------------------------------------
\* SnapshotsManager.clear() and create(); LoadSnapshotChunk; ApplySnapshotChunk.
Clear == ReadList \/ RemoveJson \/ RemoveDbFile \/ RemoveChunksFile
Create == DumpRow \/ RenameDump \/ WriteChunksFile \/ WriteJson
GetChunk == ReadJson \/ OpenChunks \/ CopyRecord \/ ChunkServed
Import == SaveDescription \/ ApplyChunk \/ WriteRecord \/ NextChunk \/ ClearDatabase \/ LoadBatch
Offer == \E h \in Heights : OfferSnapshot(h)

Next ==
  \/ CommitBlock \/ Clear \/ StartCreation \/ Create \/ ServerCrash
  \/ Offer \/ GetChunk \/ Import \/ ImporterCrash

\* Pending file operations complete, and CometBFT goes on offering and fetching.
Fairness ==
  /\ WF_vars(Clear) /\ WF_vars(StartCreation) /\ WF_vars(Create)
  /\ WF_vars(Offer) /\ WF_vars(GetChunk) /\ WF_vars(Import)

Spec == Init /\ [][Next]_vars
FairSpec == Spec /\ Fairness

------------------------------------------------------------------------------
(* Properties *)

Records == [file : DataFiles \cup {DbFileIdentifier}, offset : Nat, size : Nat \ {0}]
Descriptions == [height : Heights, chunks : Seq(Seq(Records))]
RowSet == (DataFiles \cup {ChainInformation}) \X Heights
Offers == [height : Heights, chunks : Nat]

\* Missing stands for no file, and for no offer.
ASSUME MissingAssumption == Missing \notin Seq(RowSet) \cup Descriptions \cup Offers

\* Types of the files and of the phases of both nodes.
TypeOK ==
  /\ height \in 0..MaxHeight
  /\ commitPc \in {"ready", "list", "clear", "removeDb", "removeChunks"}
  /\ clearList \in Seq(Heights)
  /\ creation \in [pc : {"off", "dump", "chunks", "json"}, iterator : 0..MaxHeight]
  /\ dump \in Seq(RowSet)
  /\ dbFile \in [Heights -> Seq(RowSet) \cup {Missing}]
  /\ chunksFile \in [Heights -> Descriptions \cup {Missing}]
  /\ json \in [Heights -> Nat \cup {Missing, Torn}]
  /\ sync \in {"idle", "fetch", "opening", "copying", "apply", "writing", "loading", "imported"}
  /\ offered \in Offers \cup {Missing}
  /\ offered = Missing => sync = "idle"
  /\ index \in Nat /\ (offered # Missing => index < offered.chunks)
  /\ records \in Seq(Records)
  /\ importedChunks \in Descriptions \cup {Missing}
  /\ importedDb \in [Heights -> Seq(RowSet)]
  /\ importedFiles \in [DataFiles -> Seq(Heights)]
  /\ importedRows \subseteq RowSet

\* The records of a description, by chunk and rank, in the order they are applied.
Positions(chunks) == UNION {{c} \X DOMAIN chunks[c] : c \in DOMAIN chunks}
RecordAt(chunks, p) == chunks[p[1]][p[2]]
PlacesOf(chunks, f) == {p \in Positions(chunks) : RecordAt(chunks, p).file = f}
Precedes(p, q) == p[1] < q[1] \/ (p[1] = q[1] /\ p[2] < q[2])
EndOf(r) == r.offset + r.size

\* The records of file f tile a file of that size, from its start to its end and in order.
Tiled(chunks, f, size) ==
  /\ \E p \in PlacesOf(chunks, f) : EndOf(RecordAt(chunks, p)) = size
  /\ \A p \in PlacesOf(chunks, f) :
       /\ EndOf(RecordAt(chunks, p)) <= size
       /\ \/ RecordAt(chunks, p).offset = 0
          \/ \E q \in PlacesOf(chunks, f) : EndOf(RecordAt(chunks, q)) = RecordAt(chunks, p).offset
       /\ \A q \in PlacesOf(chunks, f) :
            Precedes(p, q) => EndOf(RecordAt(chunks, p)) <= RecordAt(chunks, q).offset

UnitsIn(chunk) == SumFunctionOnSet([i \in DOMAIN chunk |-> chunk[i].size], DOMAIN chunk)

\* ListSnapshots offers only snapshots that can be served: each listed one has a dump of
\* the database at its height, whatever blocks were committed meanwhile, and chunks that
\* tile the dump and the committed part of every data file, none above ChunkSize; and
\* this across the removals and crashes of clear() and create().
ListedComplete ==
  \A h \in Listed :
    /\ dbFile[h] = Rows(h)
    /\ chunksFile[h] # Missing
    /\ chunksFile[h].height = h
    /\ json[h] = Len(chunksFile[h].chunks) + 1
    /\ Tiled(chunksFile[h].chunks, DbFileIdentifier, Len(Rows(h)))
    /\ \A f \in FilesUpTo(h) : Tiled(chunksFile[h].chunks, f, Len(Bytes(f, h)))
    /\ \A i \in 1..Len(chunksFile[h].chunks) : UnitsIn(chunksFile[h].chunks[i]) <= ChunkSize

\* clear(max - 1) does not see the snapshot in progress: there may be one more than
\* max_snapshots, but never two.
AtMostOneExtra == Cardinality(Listed) <= MaxSnapshots + 1

\* "Maximum number of snapshots preserved by the node".
AtMostMaxSnapshots == Cardinality(Listed) <= MaxSnapshots

\* copyBufferToFile() never finds a file whose size is not the offset of the record, even
\* if an earlier import, perhaps of another snapshot, was interrupted.
OffsetsMatch ==
  sync = "writing" /\ records # <<>> =>
    Head(records).offset \in {0, Len(TargetOf(Head(records)))}

\* A completed import is the state of the serving node at the height of the snapshot:
\* its tables and the committed part of its data files, whatever happened to either node
\* while the chunks were created, served, fetched and applied.  (Data files that only an
\* interrupted import of another snapshot wrote are left behind; no row refers to them.)
ImportFaithful ==
  sync = "imported" =>
    /\ importedRows = ToSet(Rows(offered.height))
    /\ \A f \in FilesUpTo(offered.height) : importedFiles[f] = Bytes(f, offered.height)

\* A node that state syncs gets there if there remains something to sync from.
NodeJoins == []<>(Listed # {}) => <>(sync = "imported")
==============================================================================
