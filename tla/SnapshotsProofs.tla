--------------------------- MODULE SnapshotsProofs ---------------------------
(***************************************************************************)
(* Proofs about Snapshots, for every assignment of blocks to files, every  *)
(* size of chunks and batches, and any number of crashes of both nodes.    *)
(***************************************************************************)
EXTENDS Snapshots, FoldTheorems

------------------------------------------------------------------------------
(* Data files *)

LEMMA Constants ==
  /\ MaxHeight \in Nat /\ MaxSnapshots \in Nat
  /\ ChunkSize \in Nat /\ ChunkSize > 0 /\ BatchSize \in Nat /\ BatchSize > 0
  /\ \A b \in Heights : b \in Nat /\ b >= 1 /\ b <= MaxHeight
  /\ \A b \in Heights : FileOfBlock[b] \in Nat /\ FileOfBlock[b] > 0 /\ FileOfBlock[b] \in DataFiles
BY SnapshotsAssumption DEF Heights, DataFiles

LEMMA TheOnlyOne == ASSUME NEW x PROVE TheOne({x}) = x
BY DEF TheOne

\* g is the recursive function in Bytes(f, h).
IsHeld(g, f) ==
  g = [b \in 0..MaxHeight |->
         IF b = 0 THEN <<>>
         ELSE IF FileOfBlock[b] = f THEN Append(g[b - 1], b) ELSE g[b - 1]]

LEMMA BytesDefinition ==
  ASSUME NEW f, NEW h
  PROVE  Bytes(f, h) = (CHOOSE g : IsHeld(g, f))[h]
BY DEF Bytes, IsHeld

LEMMA BytesHeld ==
  ASSUME NEW f
  PROVE  \E g : g \in [0..MaxHeight -> Seq(Heights)] /\ IsHeld(g, f)
<1> DEFINE V == Seq(Heights)
           step == [p \in (1..MaxHeight) \X V |->
                      IF FileOfBlock[p[1]] = f THEN Append(p[2], p[1]) ELSE p[2]]
<1>1. step \in [(1..MaxHeight) \X V -> V]
  <2> SUFFICES ASSUME NEW p \in (1..MaxHeight) \X V
               PROVE  (IF FileOfBlock[p[1]] = f THEN Append(p[2], p[1]) ELSE p[2]) \in V
    OBVIOUS
  <2>1. p[1] \in Heights /\ p[2] \in V
    BY DEF Heights
  <2> QED
    BY <2>1
<1>2. <<>> \in V /\ MaxHeight \in Nat
  BY Constants
<1>3. PICK g \in [0..MaxHeight -> V] :
        IsRecursion(g, <<>>, step, MaxHeight)
  <2> HIDE DEF step, V
  <2> QED
    BY <1>1, <1>2, RecursionExists
<1>4. \A i \in 1..MaxHeight : g[i] = IF FileOfBlock[i] = f THEN Append(g[i - 1], i) ELSE g[i - 1]
  <2> SUFFICES ASSUME NEW i \in 1..MaxHeight
               PROVE  g[i] = IF FileOfBlock[i] = f THEN Append(g[i - 1], i) ELSE g[i - 1]
    OBVIOUS
  <2>1. g[i - 1] \in V
    BY Constants
  <2> QED
    BY <1>3, <2>1 DEF IsRecursion
<1>5. IsHeld(g, f)
  <2>1. ASSUME NEW b \in 0..MaxHeight
        PROVE  g[b] = IF b = 0 THEN <<>>
                      ELSE IF FileOfBlock[b] = f THEN Append(g[b - 1], b) ELSE g[b - 1]
    <3>1. CASE b = 0
      BY <1>3, <3>1 DEF IsRecursion
    <3>2. CASE b # 0
      <4>1. b \in 1..MaxHeight
        BY <1>2, <3>2
      <4> QED
        BY <1>4, <3>2, <4>1
    <3> QED
      BY <3>1, <3>2
  <2> QED
    BY <2>1 DEF IsHeld
<1> QED
  BY <1>5

LEMMA BytesRecursion ==
  ASSUME NEW f
  PROVE  /\ Bytes(f, 0) = <<>>
         /\ \A h \in Heights :
              Bytes(f, h) = IF FileOfBlock[h] = f THEN Append(Bytes(f, h - 1), h) ELSE Bytes(f, h - 1)
<1>1. PICK g : g = (CHOOSE k : IsHeld(k, f))
  OBVIOUS
<1>2. IsHeld(g, f)
  BY <1>1, BytesHeld
<1>3. \A h : Bytes(f, h) = g[h]
  BY <1>1, BytesDefinition
<1>4. \A b \in 0..MaxHeight :
        g[b] = IF b = 0 THEN <<>>
               ELSE IF FileOfBlock[b] = f THEN Append(g[b - 1], b) ELSE g[b - 1]
  BY <1>2 DEF IsHeld
<1>5. 0 \in 0..MaxHeight /\ \A h \in Heights : h \in 0..MaxHeight /\ h # 0
  BY Constants
<1> QED
  BY <1>3, <1>4, <1>5

\* A data file only grows.
LEMMA BytesGrow ==
  ASSUME NEW f, NEW h \in Nat, h <= MaxHeight
  PROVE  /\ Bytes(f, h) \in Seq(Heights)
         /\ Len(Bytes(f, h)) \in 0..h
         /\ f \in FilesUpTo(h) => Len(Bytes(f, h)) >= 1
         /\ \A g \in 0..h : /\ Len(Bytes(f, g)) <= Len(Bytes(f, h))
                            /\ \A i \in 1..Len(Bytes(f, g)) : Bytes(f, g)[i] = Bytes(f, h)[i]
<1> DEFINE P(k) == /\ Bytes(f, k) \in Seq(Heights)
                   /\ Len(Bytes(f, k)) \in 0..k
                   /\ f \in FilesUpTo(k) => Len(Bytes(f, k)) >= 1
                   /\ \A g \in 0..k : /\ Len(Bytes(f, g)) <= Len(Bytes(f, k))
                                      /\ \A i \in 1..Len(Bytes(f, g)) : Bytes(f, g)[i] = Bytes(f, k)[i]
           N == {k \in Nat : k <= MaxHeight => P(k)}
<1>1. 0 \in N
  <2>1. Bytes(f, 0) = <<>>
    BY BytesRecursion
  <2>2. FilesUpTo(0) = {}
    BY DEF FilesUpTo
  <2>3. \A g \in 0..0 : g = 0
    OBVIOUS
  <2>4. Len(<<>>) = 0 /\ <<>> \in Seq(Heights)
    OBVIOUS
  <2>5. \A g \in 0..0 : /\ Len(Bytes(f, g)) <= Len(Bytes(f, 0))
                        /\ \A i \in 1..Len(Bytes(f, g)) : Bytes(f, g)[i] = Bytes(f, 0)[i]
    BY <2>1, <2>3, <2>4
  <2>6. Bytes(f, 0) \in Seq(Heights) /\ Len(Bytes(f, 0)) \in 0..0
    <3>1. Len(Bytes(f, 0)) = 0
      BY <2>1, <2>4
    <3>2. 0 \in 0..0
      OBVIOUS
    <3>3. Bytes(f, 0) \in Seq(Heights)
      BY <2>1, <2>4, Zenon
    <3> QED
      BY <3>1, <3>2, <3>3, Zenon
  <2>7. f \notin FilesUpTo(0)
    BY <2>2
  <2>8. P(0)
    BY <2>5, <2>6, <2>7
  <2> QED
    BY <2>8
<1>2. ASSUME NEW k \in Nat, k \in N PROVE k + 1 \in N
  <2> SUFFICES ASSUME k + 1 <= MaxHeight PROVE P(k + 1)
    OBVIOUS
  <2>1. PICK old : old = Bytes(f, k)
    OBVIOUS
  <2>2. PICK new : new = Bytes(f, k + 1)
    OBVIOUS
  <2>3. k + 1 \in Heights /\ (k + 1) - 1 = k
    BY Constants DEF Heights
  <2>4. new = IF FileOfBlock[k + 1] = f THEN Append(old, k + 1) ELSE old
    BY <2>1, <2>2, <2>3, BytesRecursion
  <2>5. P(k)
    BY <1>2, Constants
  <2>6. old \in Seq(Heights) /\ Len(old) \in 0..k
    BY <2>1, <2>5
  <2>7. /\ new \in Seq(Heights) /\ Len(new) \in 0..(k + 1) /\ Len(old) <= Len(new)
        /\ \A i \in 1..Len(old) : new[i] = old[i]
    BY <2>3, <2>4, <2>6
  <2>8. f \in FilesUpTo(k + 1) => Len(new) >= 1
    <3> SUFFICES ASSUME f \in FilesUpTo(k + 1) PROVE Len(new) >= 1
      OBVIOUS
    <3>1. PICK b \in 1..(k + 1) : FileOfBlock[b] = f
      BY DEF FilesUpTo
    <3>2. CASE b = k + 1
      BY <2>4, <2>6, <3>1, <3>2
    <3>3. CASE b # k + 1
      <4>1. f \in FilesUpTo(k)
        BY <3>1, <3>3 DEF FilesUpTo
      <4>2. Len(old) >= 1
        BY <2>1, <2>5, <4>1
      <4> QED
        BY <2>6, <2>7, <4>2
    <3> QED
      BY <3>2, <3>3
  <2>9. ASSUME NEW g \in 0..(k + 1)
        PROVE  /\ Len(Bytes(f, g)) <= Len(new)
               /\ \A i \in 1..Len(Bytes(f, g)) : Bytes(f, g)[i] = new[i]
    <3>1. CASE g = k + 1
      <4>1. Bytes(f, g) = new
        BY <2>2, <3>1
      <4> QED
        BY <2>7, <4>1
    <3>2. CASE g # k + 1
      <4>1. g \in 0..k
        BY <2>9, <3>2
      <4>2. PICK s : s = Bytes(f, g)
        OBVIOUS
      <4>3. Len(s) <= Len(old) /\ \A i \in 1..Len(s) : s[i] = old[i]
        BY <2>1, <2>5, <4>1, <4>2
      <4>4. Len(s) \in Int
        <5>1. g \in Nat /\ g <= MaxHeight
          BY <4>1, <2>3, Constants
        <5> QED
          BY <4>3, <2>6
      <4> QED
        BY <2>6, <2>7, <4>2, <4>3, <4>4
    <3> QED
      BY <3>1, <3>2
  <2> QED
    BY <2>2, <2>7, <2>8, <2>9
<1>3. Nat \subseteq N
  <2> HIDE DEF N
  <2> QED
    BY <1>1, <1>2, InductionOnNumbers
<1> QED
  BY <1>3

------------------------------------------------------------------------------
(* Data files in order *)

LEMMA InOrderSorts ==
  ASSUME NEW S, IsFiniteSet(S), S \subseteq Nat
  PROVE  Sorts(InOrder(S), S)
BY SomethingSorts DEF InOrder, Sorts

LEMMA FilesUpToTypes ==
  ASSUME NEW h \in Heights
  PROVE  /\ IsFiniteSet(FilesUpTo(h)) /\ FilesUpTo(h) \subseteq Nat
         /\ FilesUpTo(h) \subseteq DataFiles /\ DbFileIdentifier \notin FilesUpTo(h)
<1>1. \A b \in 1..h : b \in Heights
  BY Constants DEF Heights
<1>2. IsFiniteSet(1..h)
  BY Constants, FS_Interval
<1> DEFINE g == [b \in 1..h |-> FileOfBlock[b]]
<1>3. g \in Surjection(1..h, FilesUpTo(h))
  BY DEF Surjection, FilesUpTo
<1>4. IsFiniteSet(FilesUpTo(h))
  <2> HIDE DEF g
  <2> QED
    BY <1>2, <1>3, FS_Surjection
<1>5. \A f \in FilesUpTo(h) : f \in Nat /\ f > 0 /\ f \in DataFiles
  BY <1>1, Constants DEF FilesUpTo
<1> QED
  BY <1>4, <1>5 DEF DbFileIdentifier

\* The data files at a height: each once.
LEMMA FilesAtHeight ==
  ASSUME NEW h \in Heights
  PROVE  /\ FilesAt(h) \in Seq(FilesUpTo(h)) /\ Len(FilesAt(h)) \in Nat
         /\ \A f \in FilesUpTo(h) : \E i \in 1..Len(FilesAt(h)) : FilesAt(h)[i] = f
         /\ \A i, j \in 1..Len(FilesAt(h)) : FilesAt(h)[i] = FilesAt(h)[j] => i = j
<1>1. IsFiniteSet(FilesUpTo(h)) /\ FilesUpTo(h) \subseteq Nat
  BY FilesUpToTypes
<1>2. PICK S : S = FilesUpTo(h)
  OBVIOUS
<1>3. PICK s : s = FilesAt(h)
  OBVIOUS
<1>4. Sorts(s, S)
  BY <1>1, <1>2, <1>3, InOrderSorts DEF FilesAt
<1>5. /\ s \in Seq(S) /\ Len(s) \in Nat
      /\ \A x \in S : \E i \in 1..Len(s) : s[i] = x
      /\ \A i, j \in 1..Len(s) : s[i] = s[j] => i = j
  BY <1>1, <1>2, <1>4, SortedElements
<1> QED
  BY <1>2, <1>3, <1>5

\* The rows of a database: its height, then each file with its size.
RowsAre(rows, h) ==
  /\ rows \in Seq(RowSet)
  /\ Len(rows) = Len(FilesAt(h)) + 1
  /\ rows[1] = <<ChainInformation, h>>
  /\ \A i \in 1..Len(FilesAt(h)) : rows[i + 1] = <<FilesAt(h)[i], Len(Bytes(FilesAt(h)[i], h))>>

LEMMA RowsShape ==
  ASSUME NEW h \in Heights
  PROVE  RowsAre(Rows(h), h)
<1>1. PICK s : s = FilesAt(h)
  OBVIOUS
<1>2. s \in Seq(FilesUpTo(h)) /\ Len(s) \in Nat
  BY <1>1, FilesAtHeight
<1>3. PICK first : first = <<ChainInformation, h>>
  OBVIOUS
<1>4. PICK rest : rest = [i \in 1..Len(s) |-> <<s[i], Len(Bytes(s[i], h))>>]
  OBVIOUS
<1>5. first \in RowSet
  BY <1>3 DEF RowSet
<1>6. ASSUME NEW i \in 1..Len(s) PROVE <<s[i], Len(Bytes(s[i], h))>> \in RowSet
  <2>1. s[i] \in FilesUpTo(h) /\ s[i] \in DataFiles
    BY <1>2, FilesUpToTypes
  <2>2. Len(Bytes(s[i], h)) \in 0..h /\ Len(Bytes(s[i], h)) >= 1 /\ h \in Nat /\ h <= MaxHeight
    BY <2>1, BytesGrow, Constants
  <2>3. Len(Bytes(s[i], h)) \in Heights
    BY <2>2, Constants DEF Heights
  <2> QED
    BY <2>1, <2>3 DEF RowSet
<1>7. rest \in Seq(RowSet) /\ Len(rest) = Len(s)
  BY <1>2, <1>4, <1>6
<1>8. PICK rows : rows = <<first>> \o rest
  OBVIOUS
<1>9. /\ rows \in Seq(RowSet) /\ Len(rows) = Len(s) + 1 /\ rows[1] = first
      /\ \A i \in 1..Len(s) : rows[i + 1] = rest[i]
  BY <1>2, <1>5, <1>7, <1>8
<1>10. Rows(h) = rows
  BY <1>1, <1>3, <1>4, <1>8 DEF Rows
<1>11. \A i \in 1..Len(s) : rest[i] = <<s[i], Len(Bytes(s[i], h))>>
  BY <1>4
<1> QED
  BY <1>1, <1>3, <1>9, <1>10, <1>11 DEF RowsAre

\* Every row has its own key.
LEMMA RowKeys ==
  ASSUME NEW h \in Heights, NEW rows, rows = Rows(h),
         NEW i \in 1..Len(rows), NEW j \in 1..Len(rows), rows[i][1] = rows[j][1]
  PROVE  i = j
<1>1. PICK s : s = FilesAt(h)
  OBVIOUS
<1>2. s \in Seq(FilesUpTo(h)) /\ Len(s) \in Nat /\ \A a, b \in 1..Len(s) : s[a] = s[b] => a = b
  BY <1>1, FilesAtHeight
<1>3. /\ Len(rows) = Len(s) + 1
      /\ rows[1] = <<ChainInformation, h>>
      /\ \A a \in 1..Len(s) : rows[a + 1] = <<s[a], Len(Bytes(s[a], h))>>
  BY <1>1, RowsShape DEF RowsAre
<1>4. \A a \in 1..Len(s) : s[a] \in FilesUpTo(h) /\ s[a] # ChainInformation
  BY <1>2, FilesUpToTypes DEF DbFileIdentifier, ChainInformation
<1>5. \A k \in 1..Len(rows) : k # 1 => k - 1 \in 1..Len(s) /\ rows[k][1] = s[k - 1]
  <2> SUFFICES ASSUME NEW k \in 1..Len(rows), k # 1
               PROVE  k - 1 \in 1..Len(s) /\ rows[k][1] = s[k - 1]
    OBVIOUS
  <2>1. k - 1 \in 1..Len(s) /\ (k - 1) + 1 = k
    BY <1>2, <1>3
  <2>2. rows[(k - 1) + 1] = <<s[k - 1], Len(Bytes(s[k - 1], h))>>
    BY <1>3, <2>1
  <2> QED
    BY <2>1, <2>2
<1>6. rows[1][1] = ChainInformation
  BY <1>3
<1>7. CASE i = 1
  BY <1>4, <1>5, <1>6, <1>7
<1>8. CASE j = 1
  BY <1>4, <1>5, <1>6, <1>8
<1>9. CASE i # 1 /\ j # 1
  <2>1. s[i - 1] = s[j - 1] /\ i - 1 \in 1..Len(s) /\ j - 1 \in 1..Len(s)
    BY <1>5, <1>9
  <2>2. i - 1 = j - 1
    BY <1>2, <2>1
  <2> QED
    BY <1>2, <1>3, <2>2
<1> QED
  BY <1>7, <1>8, <1>9

\* The files of a snapshot: the data files with their sizes, then the dump.
FilesAre(files, h) ==
  /\ Len(files) = Len(FilesAt(h)) + 1
  /\ \A i \in 1..Len(FilesAt(h)) : files[i] = <<FilesAt(h)[i], Len(Bytes(FilesAt(h)[i], h))>>
  /\ files[Len(FilesAt(h)) + 1] = <<DbFileIdentifier, Len(Rows(h))>>

LEMMA DumpFilesShape ==
  ASSUME NEW h \in Heights
  PROVE  /\ FilesAre(DumpFiles(Rows(h)), h)
         /\ DumpFiles(Rows(h)) \in Seq((DataFiles \cup {DbFileIdentifier}) \X (Nat \ {0}))
         /\ DumpHeight(Rows(h)) = h
<1>1. PICK n \in Nat : n = Len(FilesAt(h))
  BY FilesAtHeight
<1>2. PICK rows : rows = Rows(h)
  OBVIOUS
<1>3. /\ rows \in Seq(RowSet) /\ Len(rows) = n + 1 /\ rows[1] = <<ChainInformation, h>>
      /\ \A i \in 1..n : rows[i + 1] = <<FilesAt(h)[i], Len(Bytes(FilesAt(h)[i], h))>>
  BY <1>1, <1>2, RowsShape DEF RowsAre
<1> DEFINE Pairs == (DataFiles \cup {DbFileIdentifier}) \X (Nat \ {0})
<1>4. PICK rest : rest = Tail(rows)
  OBVIOUS
<1>5. Len(rest) = n /\ rest \in Seq(RowSet) /\ \A i \in 1..n : rest[i] = rows[i + 1]
  BY <1>3, <1>4
<1>6. \A i \in 1..n : rest[i] \in Pairs
  <2> SUFFICES ASSUME NEW i \in 1..n PROVE rest[i] \in Pairs
    OBVIOUS
  <2>1. rest[i] = <<FilesAt(h)[i], Len(Bytes(FilesAt(h)[i], h))>> /\ rest[i] \in RowSet
    BY <1>3, <1>5
  <2>2. FilesAt(h)[i] \in DataFiles
    BY <1>1, FilesAtHeight, FilesUpToTypes
  <2>3. rest[i][2] \in Heights
    BY <2>1 DEF RowSet
  <2>4. Len(Bytes(FilesAt(h)[i], h)) \in Nat \ {0}
    BY <2>1, <2>3, Constants
  <2> QED
    BY <2>1, <2>2, <2>4
<1>7. rest \in Seq(Pairs)
  <2>1. rest \in [1..n -> Pairs]
    BY <1>5, <1>6
  <2> QED
    BY <2>1
<1>8. PICK last : last = <<DbFileIdentifier, n + 1>>
  OBVIOUS
<1>9. last \in Pairs
  BY <1>8
<1>10. PICK files : files = rest \o <<last>>
  OBVIOUS
<1>11. /\ files \in Seq(Pairs) /\ Len(files) = n + 1 /\ files[n + 1] = last
       /\ \A i \in 1..n : files[i] = rest[i]
  <2> HIDE DEF Pairs
  <2> QED
    BY <1>5, <1>7, <1>9, <1>10
<1>12. DumpFiles(rows) = files
  BY <1>3, <1>4, <1>8, <1>10 DEF DumpFiles
<1>13. DumpHeight(rows) = h
  BY <1>3 DEF DumpHeight
<1> QED
  BY <1>1, <1>2, <1>3, <1>5, <1>8, <1>11, <1>12, <1>13 DEF FilesAre

------------------------------------------------------------------------------
(* Positions of records *)

ChunkSeqs == Seq(Seq(Records))

LEMMA PositionsOfChunks ==
  ASSUME NEW A \in ChunkSeqs
  PROVE  /\ \A p \in Positions(A) :
              /\ p = <<p[1], p[2]>>
              /\ p[1] \in 1..Len(A) /\ p[2] \in 1..Len(A[p[1]])
              /\ RecordAt(A, p) \in Records /\ RecordAt(A, p) = A[p[1]][p[2]]
         /\ \A c \in 1..Len(A) : \A k \in 1..Len(A[c]) : <<c, k>> \in Positions(A)
<1>1. DOMAIN A = 1..Len(A) /\ Len(A) \in Nat
  BY DEF ChunkSeqs
<1>2. \A c \in 1..Len(A) : A[c] \in Seq(Records) /\ DOMAIN A[c] = 1..Len(A[c])
  BY DEF ChunkSeqs
<1>3. ASSUME NEW p \in Positions(A)
      PROVE  /\ p = <<p[1], p[2]>> /\ p[1] \in 1..Len(A) /\ p[2] \in 1..Len(A[p[1]])
             /\ RecordAt(A, p) \in Records /\ RecordAt(A, p) = A[p[1]][p[2]]
  <2>1. PICK c \in 1..Len(A) : p \in {c} \X (1..Len(A[c]))
    BY <1>1, <1>2 DEF Positions
  <2>2. p = <<p[1], p[2]>> /\ p[1] = c /\ p[2] \in 1..Len(A[c])
    BY <2>1
  <2>3. A[c][p[2]] \in Records
    BY <1>2, <2>1, <2>2
  <2> QED
    BY <2>1, <2>2, <2>3 DEF RecordAt
<1>4. ASSUME NEW c \in 1..Len(A), NEW k \in 1..Len(A[c]) PROVE <<c, k>> \in Positions(A)
  BY <1>1, <1>2, <1>4 DEF Positions
<1> QED
  BY <1>3, <1>4

\* B has the records of A, at the same positions.
SameRecords(A, B) ==
  /\ Positions(B) = Positions(A)
  /\ \A p \in Positions(A) : RecordAt(B, p) = RecordAt(A, p)

\* B has one record more, r, behind those of A.
OneMore(A, B, r) ==
  \E last :
    /\ Positions(B) = Positions(A) \cup {last} /\ last \notin Positions(A)
    /\ RecordAt(B, last) = r
    /\ \A p \in Positions(A) : /\ RecordAt(B, p) = RecordAt(A, p)
                               /\ Precedes(p, last) /\ ~Precedes(last, p)
    /\ ~Precedes(last, last)

LEMMA AppendNoRecords ==
  ASSUME NEW A \in ChunkSeqs
  PROVE  Append(A, <<>>) \in ChunkSeqs /\ SameRecords(A, Append(A, <<>>))
<1>1. PICK B : B = Append(A, <<>>)
  OBVIOUS
<1>2. /\ B \in ChunkSeqs /\ Len(B) = Len(A) + 1 /\ Len(A) \in Nat /\ Len(B[Len(A) + 1]) = 0
      /\ \A c \in 1..Len(A) : B[c] = A[c]
  BY <1>1 DEF ChunkSeqs
<1>3. ASSUME NEW p \in Positions(A) PROVE p \in Positions(B) /\ RecordAt(B, p) = RecordAt(A, p)
  <2>1. p = <<p[1], p[2]>> /\ p[1] \in 1..Len(A) /\ p[2] \in 1..Len(A[p[1]])
    BY <1>3, PositionsOfChunks
  <2>2. B[p[1]] = A[p[1]] /\ p[1] \in 1..Len(B)
    BY <1>2, <2>1
  <2>3. <<p[1], p[2]>> \in Positions(B)
    BY <1>2, <2>1, <2>2, PositionsOfChunks
  <2> QED
    BY <2>1, <2>2, <2>3 DEF RecordAt
<1>4. ASSUME NEW p \in Positions(B) PROVE p \in Positions(A)
  <2>1. p = <<p[1], p[2]>> /\ p[1] \in 1..Len(B) /\ p[2] \in 1..Len(B[p[1]])
    BY <1>2, <1>4, PositionsOfChunks
  <2>2. p[1] # Len(A) + 1
    BY <1>2, <2>1
  <2>3. p[1] \in 1..Len(A) /\ B[p[1]] = A[p[1]]
    BY <1>2, <2>1, <2>2
  <2>4. <<p[1], p[2]>> \in Positions(A)
    BY <2>1, <2>3, PositionsOfChunks
  <2> QED
    BY <2>1, <2>4
<1> QED
  BY <1>1, <1>2, <1>3, <1>4 DEF SameRecords

LEMMA AppendOneRecord ==
  ASSUME NEW C \in ChunkSeqs, NEW chunk \in Seq(Records), NEW r \in Records,
         NEW A, A = Append(C, chunk), NEW B, B = Append(C, Append(chunk, r))
  PROVE  A \in ChunkSeqs /\ B \in ChunkSeqs /\ OneMore(A, B, r)
<1>1. PICK m \in Nat : m = Len(C) + 1
  BY DEF ChunkSeqs
<1>2. PICK k \in Nat : k = Len(chunk) + 1
  OBVIOUS
<1>3. PICK longer : longer = Append(chunk, r)
  OBVIOUS
<1>4. /\ longer \in Seq(Records) /\ Len(longer) = k /\ longer[k] = r
      /\ \A i \in 1..(k - 1) : longer[i] = chunk[i]
  BY <1>2, <1>3
<1>5. /\ A \in ChunkSeqs /\ B \in ChunkSeqs /\ Len(A) = m /\ Len(B) = m
      /\ A[m] = chunk /\ B[m] = longer
      /\ \A c \in 1..(m - 1) : A[c] = B[c]
  BY <1>1, <1>3, <1>4 DEF ChunkSeqs
<1>6. PICK last : last = <<m, k>>
  OBVIOUS
<1>7. last \in Positions(B) /\ RecordAt(B, last) = r
  <2>1. m \in 1..Len(B) /\ k \in 1..Len(B[m])
    BY <1>1, <1>2, <1>4, <1>5
  <2> QED
    BY <1>4, <1>5, <1>6, <2>1, PositionsOfChunks DEF RecordAt
<1>8. ASSUME NEW p \in Positions(A)
      PROVE  /\ p \in Positions(B) /\ RecordAt(B, p) = RecordAt(A, p)
             /\ Precedes(p, last) /\ ~Precedes(last, p)
  <2>1. p = <<p[1], p[2]>> /\ p[1] \in 1..m /\ p[2] \in 1..Len(A[p[1]])
    BY <1>5, <1>8, PositionsOfChunks
  <2>2. CASE p[1] = m
    <3>1. p[2] \in 1..(k - 1)
      BY <1>2, <1>5, <2>1, <2>2
    <3>2. p[2] \in 1..Len(B[m]) /\ m \in 1..Len(B) /\ longer[p[2]] = chunk[p[2]]
      BY <1>1, <1>4, <1>5, <3>1
    <3>3. <<m, p[2]>> \in Positions(B)
      BY <1>5, <3>2, PositionsOfChunks
    <3>4. p[1] = m /\ p[2] < k /\ last[1] = m /\ last[2] = k
      BY <1>6, <2>2, <3>1
    <3>5. p \in Positions(B)
      BY <2>1, <2>2, <3>3
    <3>6. RecordAt(B, p) = RecordAt(A, p)
      BY <1>5, <2>2, <3>2 DEF RecordAt
    <3>7. p[2] \in Int /\ k \in Int /\ m \in Int
      BY <1>1, <1>2, <3>1
    <3>8. Precedes(p, last) /\ ~Precedes(last, p)
      BY <3>4, <3>7 DEF Precedes
    <3> QED
      BY <3>5, <3>6, <3>8
  <2>3. CASE p[1] # m
    <3>1. p[1] \in 1..(m - 1) /\ A[p[1]] = B[p[1]] /\ p[1] \in 1..Len(B)
      BY <1>5, <2>1, <2>3
    <3>2. <<p[1], p[2]>> \in Positions(B)
      BY <1>5, <2>1, <3>1, PositionsOfChunks
    <3>3. p[1] < m /\ last[1] = m
      BY <1>6, <3>1
    <3>4. p \in Positions(B)
      BY <2>1, <3>2
    <3>5. RecordAt(B, p) = RecordAt(A, p)
      BY <3>1 DEF RecordAt
    <3>6. p[1] \in Int /\ m \in Int
      BY <1>1, <3>1
    <3>7. Precedes(p, last) /\ ~Precedes(last, p)
      BY <3>3, <3>6 DEF Precedes
    <3> QED
      BY <3>4, <3>5, <3>7
  <2> QED
    BY <2>2, <2>3
<1>9. ASSUME NEW p \in Positions(B), p # last PROVE p \in Positions(A)
  <2>1. p = <<p[1], p[2]>> /\ p[1] \in 1..m /\ p[2] \in 1..Len(B[p[1]])
    BY <1>5, <1>9, PositionsOfChunks
  <2>2. p[2] \in 1..Len(A[p[1]])
    <3>1. CASE p[1] = m
      <4>1. p[2] # k /\ p[2] \in 1..k
        BY <1>4, <1>5, <1>6, <1>9, <2>1, <3>1
      <4> QED
        BY <1>2, <1>5, <3>1, <4>1
    <3>2. CASE p[1] # m
      BY <1>5, <2>1, <3>2
    <3> QED
      BY <3>1, <3>2
  <2>3. <<p[1], p[2]>> \in Positions(A)
    BY <1>5, <2>1, <2>2, PositionsOfChunks
  <2> QED
    BY <2>1, <2>3
<1>10. ~Precedes(last, last)
  BY <1>6 DEF Precedes
<1>11. last \notin Positions(A)
  BY <1>8, <1>10
<1>12. Positions(B) = Positions(A) \cup {last}
  BY <1>7, <1>8, <1>9
<1> QED
  BY <1>5, <1>7, <1>8, <1>10, <1>11, <1>12 DEF OneMore

------------------------------------------------------------------------------
(* Tilings *)

\* What the records of A cover of file f is its first n units.
Covered(A, f, n) == IF n = 0 THEN PlacesOf(A, f) = {} ELSE Tiled(A, f, n)

LEMMA RecordFields ==
  ASSUME NEW r \in Records
  PROVE  /\ r.file \in DataFiles \cup {DbFileIdentifier} /\ r.offset \in Nat /\ r.size \in Nat
         /\ r.size > 0 /\ EndOf(r) \in Nat /\ EndOf(r) = r.offset + r.size /\ EndOf(r) > r.offset
BY DEF Records, EndOf

LEMMA PlacesAreTyped ==
  ASSUME NEW A \in ChunkSeqs, NEW f, NEW p \in PlacesOf(A, f)
  PROVE  p \in Positions(A) /\ RecordAt(A, p) \in Records /\ RecordAt(A, p).file = f
BY PositionsOfChunks DEF PlacesOf

\* Places Q of records B are places P of records A, with the same records.
SamePlaces(A, P, B, Q) == Q = P /\ \A p \in P : RecordAt(B, p) = RecordAt(A, p)

LEMMA TiledAlike ==
  ASSUME NEW A, NEW B, NEW f, NEW n, SamePlaces(A, PlacesOf(A, f), B, PlacesOf(B, f)),
         Covered(A, f, n)
  PROVE  Covered(B, f, n)
<1> DEFINE P == PlacesOf(A, f)
           Q == PlacesOf(B, f)
<1>1. Q = P /\ \A p \in P : RecordAt(B, p) = RecordAt(A, p)
  BY DEF SamePlaces
<1>2. CASE n = 0
  BY <1>1, <1>2 DEF Covered
<1>3. CASE n # 0
  <2>1. Tiled(A, f, n)
    BY <1>3 DEF Covered
  <2>2. \E p \in Q : EndOf(RecordAt(B, p)) = n
    BY <1>1, <2>1 DEF Tiled
  <2>3. ASSUME NEW p \in Q
        PROVE  /\ EndOf(RecordAt(B, p)) <= n
               /\ \/ RecordAt(B, p).offset = 0
                  \/ \E q \in Q : EndOf(RecordAt(B, q)) = RecordAt(B, p).offset
               /\ \A q \in Q : Precedes(p, q) => EndOf(RecordAt(B, p)) <= RecordAt(B, q).offset
    <3>1. p \in P /\ RecordAt(B, p) = RecordAt(A, p)
      BY <1>1, <2>3
    <3>2. EndOf(RecordAt(A, p)) <= n
      BY <2>1, <3>1 DEF Tiled
    <3>3. \/ RecordAt(A, p).offset = 0
          \/ \E q \in P : EndOf(RecordAt(A, q)) = RecordAt(A, p).offset
      BY <2>1, <3>1 DEF Tiled
    <3>4. \A q \in P : Precedes(p, q) => EndOf(RecordAt(A, p)) <= RecordAt(A, q).offset
      BY <2>1, <3>1 DEF Tiled
    <3> HIDE DEF P, Q
    <3>5. \A q \in Q : Precedes(p, q) => EndOf(RecordAt(B, p)) <= RecordAt(B, q).offset
      BY <1>1, <3>1, <3>4
    <3>6. \/ RecordAt(B, p).offset = 0
          \/ \E q \in Q : EndOf(RecordAt(B, q)) = RecordAt(B, p).offset
      BY <1>1, <3>1, <3>3
    <3> QED
      BY <3>1, <3>2, <3>5, <3>6
  <2> QED
    BY <1>3, <2>2, <2>3 DEF Covered, Tiled
<1> QED
  BY <1>2, <1>3

LEMMA CoveredBySame ==
  ASSUME NEW A, NEW B, SameRecords(A, B), NEW f, NEW n, Covered(A, f, n)
  PROVE  Covered(B, f, n)
<1>1. SamePlaces(A, PlacesOf(A, f), B, PlacesOf(B, f))
  BY DEF SameRecords, SamePlaces, PlacesOf
<1> QED
  BY <1>1, TiledAlike

LEMMA OtherFileCovered ==
  ASSUME NEW A, NEW B, NEW r, OneMore(A, B, r), NEW f, f # r.file, NEW n, Covered(A, f, n)
  PROVE  Covered(B, f, n)
<1>1. PICK last :
        /\ Positions(B) = Positions(A) \cup {last} /\ RecordAt(B, last) = r
        /\ \A p \in Positions(A) : RecordAt(B, p) = RecordAt(A, p)
  BY DEF OneMore
<1>2. SamePlaces(A, PlacesOf(A, f), B, PlacesOf(B, f))
  BY <1>1 DEF SamePlaces, PlacesOf
<1> QED
  BY <1>2, TiledAlike

LEMMA FileCoveredFurther ==
  ASSUME NEW A \in ChunkSeqs, NEW B \in ChunkSeqs, NEW r \in Records, OneMore(A, B, r),
         NEW f, f = r.file, NEW n, n = r.offset, Covered(A, f, n)
  PROVE  Tiled(B, f, EndOf(r))
<1>1. PICK last :
        /\ Positions(B) = Positions(A) \cup {last} /\ RecordAt(B, last) = r
        /\ \A p \in Positions(A) : /\ RecordAt(B, p) = RecordAt(A, p)
                                   /\ Precedes(p, last) /\ ~Precedes(last, p)
        /\ ~Precedes(last, last)
  BY DEF OneMore
<1>2. PICK P : P = PlacesOf(A, f)
  OBVIOUS
<1>3. PICK Q : Q = PlacesOf(B, f)
  OBVIOUS
<1>4. /\ Q = P \cup {last}
      /\ \A p \in P : RecordAt(B, p) = RecordAt(A, p) /\ RecordAt(A, p) \in Records
                      /\ Precedes(p, last) /\ ~Precedes(last, p)
  BY <1>1, <1>2, <1>3, PlacesAreTyped DEF PlacesOf
<1>5. n \in Nat /\ EndOf(r) \in Nat /\ n < EndOf(r)
  BY RecordFields
<1>6. n # 0 => Tiled(A, f, n)
  BY DEF Covered
<1>7. n = 0 => P = {}
  BY <1>2 DEF Covered
<1>8. \A p \in P : EndOf(RecordAt(A, p)) \in Nat /\ EndOf(RecordAt(A, p)) <= n
  BY <1>2, <1>4, <1>6, <1>7, RecordFields DEF Tiled
<1>9. \E p \in Q : EndOf(RecordAt(B, p)) = EndOf(r)
  BY <1>1, <1>4
<1>10. ASSUME NEW p \in Q PROVE EndOf(RecordAt(B, p)) <= EndOf(r)
  <2>1. CASE p = last
    BY <1>1, <1>5, <2>1
  <2>2. CASE p # last
    BY <1>4, <1>5, <1>8, <1>10, <2>2
  <2> QED
    BY <2>1, <2>2
<1>11. ASSUME NEW p \in Q
       PROVE  \/ RecordAt(B, p).offset = 0
              \/ \E q \in Q : EndOf(RecordAt(B, q)) = RecordAt(B, p).offset
  <2>1. CASE p = last
    <3>1. CASE n = 0
      BY <1>1, <2>1, <3>1
    <3>2. CASE n # 0
      <4>1. PICK q \in P : EndOf(RecordAt(A, q)) = n
        BY <1>2, <1>6, <3>2 DEF Tiled
      <4> QED
        BY <1>1, <1>4, <2>1, <4>1
    <3> QED
      BY <3>1, <3>2
  <2>2. CASE p # last
    <3>1. p \in P /\ n # 0 /\ RecordAt(B, p) = RecordAt(A, p)
      BY <1>4, <1>7, <1>11, <2>2
    <3>2. \/ RecordAt(A, p).offset = 0
          \/ \E q \in P : EndOf(RecordAt(A, q)) = RecordAt(A, p).offset
      BY <1>2, <1>6, <3>1 DEF Tiled
    <3> QED
      BY <1>4, <3>1, <3>2
  <2> QED
    BY <2>1, <2>2
<1>12. ASSUME NEW p \in Q, NEW q \in Q, Precedes(p, q)
       PROVE  EndOf(RecordAt(B, p)) <= RecordAt(B, q).offset
  <2>1. p # last
    BY <1>1, <1>4, <1>12
  <2>2. p \in P /\ n # 0 /\ RecordAt(B, p) = RecordAt(A, p)
    BY <1>4, <1>7, <1>12, <2>1
  <2>3. CASE q = last
    BY <1>1, <1>8, <2>2, <2>3
  <2>4. CASE q # last
    <3>1. q \in P /\ RecordAt(B, q) = RecordAt(A, q)
      BY <1>4, <1>12, <2>4
    <3>2. EndOf(RecordAt(A, p)) <= RecordAt(A, q).offset
      BY <1>2, <1>6, <1>12, <2>2, <3>1 DEF Tiled
    <3> QED
      BY <2>2, <3>1, <3>2
  <2> QED
    BY <2>3, <2>4
<1> QED
  BY <1>3, <1>9, <1>10, <1>11, <1>12 DEF Tiled

------------------------------------------------------------------------------
(* Units of a chunk *)

SizesOf(chunk) == [i \in DOMAIN chunk |-> chunk[i].size]

LEMMA SizesSummable ==
  ASSUME NEW chunk \in Seq(Records), NEW n \in Nat, n = Len(chunk)
  PROVE  /\ DOMAIN chunk = 1..n
         /\ Summable(SizesOf(chunk), 1..n)
         /\ UnitsIn(chunk) = SumFunctionOnSet(SizesOf(chunk), 1..n)
<1>1. DOMAIN chunk = 1..n
  OBVIOUS
<1>2. \A i \in 1..n : SizesOf(chunk)[i] \in Int
  <2>1. \A i \in 1..n : chunk[i] \in Records /\ chunk[i].size \in Nat
    BY RecordFields
  <2> QED
    BY <1>1, <2>1 DEF SizesOf
<1>3. IsFiniteSet(1..n)
  BY FS_Interval
<1> QED
  BY <1>1, <1>2, <1>3 DEF Summable, UnitsIn, SizesOf

LEMMA UnitsOfNothing == UnitsIn(<<>>) = 0
<1>1. DOMAIN <<>> = {}
  OBVIOUS
<1> QED
  BY <1>1, SumOfNothing DEF UnitsIn

LEMMA UnitsOfAppend ==
  ASSUME NEW chunk \in Seq(Records), NEW r \in Records
  PROVE  /\ UnitsIn(chunk) \in Int
         /\ UnitsIn(Append(chunk, r)) = UnitsIn(chunk) + r.size
<1>1. PICK n \in Nat : n = Len(chunk)
  OBVIOUS
<1>2. PICK longer : longer = Append(chunk, r)
  OBVIOUS
<1>3. /\ longer \in Seq(Records) /\ Len(longer) = n + 1 /\ longer[n + 1] = r
      /\ \A i \in 1..n : longer[i] = chunk[i]
  BY <1>1, <1>2
<1>4. PICK f : f = SizesOf(chunk)
  OBVIOUS
<1>5. PICK g : g = SizesOf(longer)
  OBVIOUS
<1>6. DOMAIN chunk = 1..n /\ Summable(f, 1..n) /\ UnitsIn(chunk) = SumFunctionOnSet(f, 1..n)
  BY <1>1, <1>4, SizesSummable
<1>7. /\ DOMAIN longer = 1..(n + 1) /\ Summable(g, 1..(n + 1))
      /\ UnitsIn(longer) = SumFunctionOnSet(g, 1..(n + 1))
  BY <1>3, <1>5, SizesSummable
<1>8. g[n + 1] = r.size /\ \A i \in 1..n : g[i] = f[i]
  BY <1>3, <1>4, <1>5, <1>6, <1>7 DEF SizesOf
<1>9. n + 1 \in 1..(n + 1) /\ (1..(n + 1)) \ {n + 1} = 1..n
  OBVIOUS
<1>10. SumFunctionOnSet(g, 1..(n + 1)) = g[n + 1] + SumFunctionOnSet(g, 1..n)
  <2>1. PICK T : T = 1..(n + 1)
    OBVIOUS
  <2>2. SumFunctionOnSet(g, T) = g[n + 1] + SumFunctionOnSet(g, T \ {n + 1})
    BY <1>7, <1>9, <2>1, SumRemove
  <2> QED
    BY <1>9, <2>1, <2>2
<1>11. SumFunctionOnSet(g, 1..n) = SumFunctionOnSet(f, 1..n)
  BY <1>6, <1>8, SumOfSame
<1>12. SumFunctionOnSet(f, 1..n) \in Int
  BY <1>6, SumType
<1>13. r.size \in Int
  BY RecordFields
<1> QED
  BY <1>2, <1>6, <1>7, <1>8, <1>10, <1>11, <1>12, <1>13

------------------------------------------------------------------------------
(* createChunksFile() *)

FileSizes == (DataFiles \cup {DbFileIdentifier}) \X (Nat \ {0})

\* Files with their sizes, each once.
IsListing(files) ==
  /\ files \in Seq(FileSizes)
  /\ \A i, j \in 1..Len(files) : files[i][1] = files[j][1] => i = j

LEMMA ListingTypes ==
  ASSUME NEW files, IsListing(files), NEW i \in 1..Len(files)
  PROVE  /\ Len(files) \in Nat
         /\ files[i][1] \in DataFiles \cup {DbFileIdentifier}
         /\ files[i][2] \in Nat /\ files[i][2] > 0
<1>1. files \in Seq(FileSizes) /\ Len(files) \in Nat
  BY DEF IsListing
<1>2. files[i] \in FileSizes
  BY <1>1
<1> QED
  BY <1>1, <1>2 DEF FileSizes

ChunkStates ==
  [chunks : ChunkSeqs, current : Seq(Records), fill : Nat, offset : Nat]

AllChunks(s) == Append(s.chunks, s.current)

\* No chunk is larger than ChunkSize.
WellFilled(s) ==
  /\ s \in ChunkStates
  /\ s.fill = UnitsIn(s.current) /\ s.fill <= ChunkSize
  /\ s.fill = 0 => s.current = <<>>
  /\ \A c \in 1..Len(s.chunks) : UnitsIn(s.chunks[c]) <= ChunkSize

OnlyFiles(A, files) ==
  \A p \in Positions(A) : \E i \in 1..Len(files) : RecordAt(A, p).file = files[i][1]

\* The first n files are laid, and m units of the next one.
Reach(files, n, m, i) == IF i <= n THEN files[i][2] ELSE IF i = n + 1 THEN m ELSE 0
Laid(s, files, n, m) ==
  /\ WellFilled(s)
  /\ OnlyFiles(AllChunks(s), files)
  /\ \A i \in 1..Len(files) : Covered(AllChunks(s), files[i][1], Reach(files, n, m, i))

LEMMA ChunkStateFields ==
  ASSUME NEW s \in ChunkStates
  PROVE  /\ s.chunks \in ChunkSeqs /\ s.current \in Seq(Records) /\ AllChunks(s) \in ChunkSeqs
         /\ s.fill \in Nat /\ s.offset \in Nat
BY DEF ChunkStates, ChunkSeqs, AllChunks

LEMMA LaidAlike ==
  ASSUME NEW s, NEW files, NEW n, NEW m, Laid(s, files, n, m), NEW t \in ChunkStates,
         t.chunks = s.chunks, t.current = s.current, t.fill = s.fill
  PROVE  Laid(t, files, n, m)
BY DEF Laid, WellFilled, AllChunks

LEMMA RecordLaid ==
  ASSUME NEW files, IsListing(files), NEW n \in Nat, n < Len(files), NEW s, NEW m,
         Laid(s, files, n, m),
         NEW r \in Records, r.file = files[n + 1][1], r.offset = m,
         NEW t \in ChunkStates, t.chunks = s.chunks, t.current = Append(s.current, r),
         t.fill = s.fill + r.size, t.fill <= ChunkSize, NEW e, e = EndOf(r)
  PROVE  Laid(t, files, n, e)
<1>1. PICK A : A = AllChunks(s)
  OBVIOUS
<1>2. PICK B : B = AllChunks(t)
  OBVIOUS
<1>3. s \in ChunkStates /\ s.chunks \in ChunkSeqs /\ s.current \in Seq(Records) /\ s.fill \in Nat
  BY ChunkStateFields DEF Laid, WellFilled
<1>4. A \in ChunkSeqs /\ B \in ChunkSeqs /\ OneMore(A, B, r)
  BY <1>1, <1>2, <1>3, AppendOneRecord DEF AllChunks
<1>5. WellFilled(t)
  <2>1. UnitsIn(t.current) = UnitsIn(s.current) + r.size
    BY <1>3, UnitsOfAppend
  <2>2. t.fill = UnitsIn(t.current) /\ r.size \in Nat /\ r.size > 0
    BY <2>1, RecordFields DEF Laid, WellFilled
  <2>3. t.fill # 0
    BY <1>3, <2>2
  <2> QED
    BY <2>2, <2>3 DEF Laid, WellFilled
<1>6. n + 1 \in 1..Len(files) /\ Len(files) \in Nat
  BY DEF IsListing
<1>7. OnlyFiles(B, files)
  <2> SUFFICES ASSUME NEW p \in Positions(B)
               PROVE  \E i \in 1..Len(files) : RecordAt(B, p).file = files[i][1]
    BY DEF OnlyFiles
  <2>1. CASE p \in Positions(A)
    <3>1. RecordAt(B, p) = RecordAt(A, p)
      BY <1>4, <2>1 DEF OneMore
    <3>2. \E i \in 1..Len(files) : RecordAt(A, p).file = files[i][1]
      BY <1>1, <2>1 DEF Laid, OnlyFiles
    <3> QED
      BY <3>1, <3>2
  <2>2. CASE p \notin Positions(A)
    <3>1. RecordAt(B, p) = r
      BY <1>4, <2>2 DEF OneMore
    <3> QED
      BY <1>6, <3>1
  <2> QED
    BY <2>1, <2>2
<1>8. ASSUME NEW i \in 1..Len(files) PROVE Covered(B, files[i][1], Reach(files, n, e, i))
  <2>1. Covered(A, files[i][1], Reach(files, n, m, i))
    BY <1>1 DEF Laid
  <2>2. CASE i = n + 1
    <3>1. Reach(files, n, m, i) = m /\ Reach(files, n, e, i) = e
      BY <2>2 DEF Reach
    <3>2. Covered(A, r.file, r.offset)
      BY <2>1, <2>2, <3>1
    <3>3. Tiled(B, r.file, e)
      BY <1>4, <3>2, FileCoveredFurther
    <3>4. e # 0
      BY RecordFields
    <3> QED
      BY <2>2, <3>1, <3>3, <3>4 DEF Covered
  <2>3. CASE i # n + 1
    <3>1. Reach(files, n, e, i) = Reach(files, n, m, i)
      BY <2>3 DEF Reach
    <3>2. files[i][1] # r.file
      BY <1>6, <2>3 DEF IsListing
    <3> QED
      BY <1>4, <2>1, <3>1, <3>2, OtherFileCovered
  <2> QED
    BY <2>2, <2>3
<1> QED
  BY <1>2, <1>5, <1>7, <1>8 DEF Laid

LEMMA ChunkClosed ==
  ASSUME NEW files, NEW n, NEW m, NEW s, Laid(s, files, n, m), NEW t \in ChunkStates,
         t.chunks = AllChunks(s), t.current = <<>>, t.fill = 0
  PROVE  Laid(t, files, n, m)
<1>1. PICK A : A = AllChunks(s)
  OBVIOUS
<1>2. PICK B : B = AllChunks(t)
  OBVIOUS
<1>3. s \in ChunkStates /\ s.chunks \in ChunkSeqs /\ s.current \in Seq(Records) /\ A \in ChunkSeqs
  BY <1>1, ChunkStateFields DEF Laid, WellFilled
<1>4. B \in ChunkSeqs /\ SameRecords(A, B)
  BY <1>1, <1>2, <1>3, AppendNoRecords DEF AllChunks
<1>5. ASSUME NEW c \in 1..Len(t.chunks) PROVE UnitsIn(t.chunks[c]) <= ChunkSize
  <2>1. t.chunks = Append(s.chunks, s.current) /\ Len(s.chunks) \in Nat
    BY <1>3 DEF AllChunks, ChunkSeqs
  <2>2. CASE c = Len(s.chunks) + 1
    <3>1. t.chunks[c] = s.current
      BY <1>3, <2>1, <2>2 DEF ChunkSeqs
    <3> QED
      BY <3>1 DEF Laid, WellFilled
  <2>3. CASE c # Len(s.chunks) + 1
    <3>1. c \in 1..Len(s.chunks) /\ t.chunks[c] = s.chunks[c]
      BY <1>3, <1>5, <2>1, <2>3 DEF ChunkSeqs
    <3> QED
      BY <3>1 DEF Laid, WellFilled
  <2> QED
    BY <2>2, <2>3
<1>6. WellFilled(t)
  BY <1>5, Constants, UnitsOfNothing DEF WellFilled
<1>7. OnlyFiles(B, files)
  BY <1>1, <1>4 DEF Laid, OnlyFiles, SameRecords
<1>8. \A i \in 1..Len(files) : Covered(B, files[i][1], Reach(files, n, m, i))
  BY <1>1, <1>4, CoveredBySame DEF Laid
<1> QED
  BY <1>2, <1>6, <1>7, <1>8 DEF Laid

\* The next part of a file goes to the current chunk, if it is not empty.
LEMMA PartLaid ==
  ASSUME NEW files, IsListing(files), NEW n \in Nat, n < Len(files), NEW s, NEW m \in Nat,
         Laid(s, files, n, m), NEW size \in Nat, s.fill + size <= ChunkSize,
         NEW offset \in Nat,
         NEW t, t = [chunks |-> s.chunks,
                     current |-> WithRecord(s.current, Record(files[n + 1][1], m, size)),
                     fill |-> s.fill + size, offset |-> offset]
  PROVE  Laid(t, files, n, m + size) /\ t \in ChunkStates
<1>1. s \in ChunkStates /\ s.chunks \in ChunkSeqs /\ s.current \in Seq(Records) /\ s.fill \in Nat
  BY ChunkStateFields DEF Laid, WellFilled
<1>2. n + 1 \in 1..Len(files)
  BY DEF IsListing
<1>3. PICK r : r = Record(files[n + 1][1], m, size)
  OBVIOUS
<1>4. r.file = files[n + 1][1] /\ r.offset = m /\ r.size = size
  BY <1>3 DEF Record
<1>5. CASE size = 0
  <2>1. WithRecord(s.current, r) = s.current
    BY <1>4, <1>5 DEF WithRecord
  <2>2. t.chunks = s.chunks /\ t.current = s.current /\ t.fill = s.fill /\ m + size = m
    BY <1>1, <1>3, <1>5, <2>1
  <2>3. t \in ChunkStates
    BY <1>1, <1>3, <1>5, <2>1 DEF ChunkStates
  <2>4. Laid(t, files, n, m)
    BY <2>2, <2>3, LaidAlike
  <2> QED
    BY <2>2, <2>3, <2>4
<1>6. CASE size # 0
  <2>1. WithRecord(s.current, r) = Append(s.current, r)
    BY <1>4, <1>6 DEF WithRecord
  <2>2. r \in Records
    BY <1>2, <1>3, <1>6, ListingTypes DEF Record, Records
  <2>3. t.chunks = s.chunks /\ t.current = Append(s.current, r) /\ t.fill = s.fill + r.size
    BY <1>3, <1>4, <2>1
  <2>4. t \in ChunkStates
    <3>1. Append(s.current, r) \in Seq(Records)
      BY <1>1, <2>2
    <3>2. s.fill + size \in Nat
      BY <1>1
    <3> QED
      BY <1>1, <1>3, <2>1, <3>1, <3>2 DEF ChunkStates
  <2>5. PICK e : e = EndOf(r)
    OBVIOUS
  <2>6. e = m + size
    BY <1>4, <2>5 DEF EndOf
  <2>7. Laid(t, files, n, e)
    BY <1>4, <2>2, <2>3, <2>4, <2>5, RecordLaid
  <2> QED
    BY <2>4, <2>6, <2>7
<1> QED
  BY <1>5, <1>6

\* The current chunk is completed.
LEMMA CutLaid ==
  ASSUME NEW files, IsListing(files), NEW n \in Nat, n < Len(files), NEW s,
         Laid(s, files, n, s.offset), NEW t, t = CutChunk(s, files[n + 1][1])
  PROVE  /\ t \in ChunkStates /\ t.offset \in Nat /\ t.fill = 0
         /\ t.offset = s.offset + (ChunkSize - s.fill)
         /\ Laid(t, files, n, t.offset)
<1>1. /\ s \in ChunkStates /\ s.chunks \in ChunkSeqs /\ s.current \in Seq(Records)
      /\ s.fill \in Nat /\ s.offset \in Nat /\ s.fill <= ChunkSize /\ ChunkSize \in Nat
  BY ChunkStateFields, Constants DEF Laid, WellFilled
<1>2. PICK size : size = ChunkSize - s.fill
  OBVIOUS
<1>3. size \in Nat /\ s.fill + size <= ChunkSize
  BY <1>1, <1>2
<1>4. PICK m : m = s.offset
  OBVIOUS
<1>5. PICK u : u = [chunks |-> s.chunks,
                    current |-> WithRecord(s.current, Record(files[n + 1][1], m, size)),
                    fill |-> s.fill + size, offset |-> 0]
  OBVIOUS
<1>6. Laid(u, files, n, m + size) /\ u \in ChunkStates
  BY <1>1, <1>3, <1>4, <1>5, PartLaid
<1>7. AllChunks(u) \in ChunkSeqs
  BY <1>6, ChunkStateFields
<1>8. t = [chunks |-> AllChunks(u), current |-> <<>>, fill |-> 0, offset |-> m + size]
  <2>1. AllChunks(u) =
          Append(s.chunks, WithRecord(s.current, Record(files[n + 1][1], m, size)))
    BY <1>5 DEF AllChunks
  <2>2. s.offset + ChunkSize - s.fill = m + size
    BY <1>1, <1>2, <1>4
  <2> QED
    BY <1>2, <1>4, <2>1, <2>2 DEF CutChunk
<1>9. m + size \in Nat /\ <<>> \in Seq(Records)
  BY <1>1, <1>3, <1>4
<1>10. t \in ChunkStates
  BY <1>7, <1>8, <1>9 DEF ChunkStates
<1>11. t.chunks = AllChunks(u) /\ t.current = <<>> /\ t.fill = 0 /\ t.offset = m + size
  BY <1>8
<1>12. Laid(t, files, n, m + size)
  BY <1>6, <1>10, <1>11, ChunkClosed
<1> QED
  BY <1>2, <1>4, <1>9, <1>10, <1>11, <1>12

\* What is left exceeds the current chunk.
IsFull(s, size) == s.fill + size - s.offset > ChunkSize

\* g is the recursive function in CutChunks(s, f, size).
IsTurns(g, s, f, size) ==
  g = [k \in 0..(size + 1) |->
         IF k = 0 THEN s ELSE TheOne({CutIfFull(t, f, size) : t \in {g[k - 1]}})]

LEMMA CutChunksDefinition ==
  ASSUME NEW s, NEW f, NEW size
  PROVE  CutChunks(s, f, size) = (CHOOSE g : IsTurns(g, s, f, size))[size + 1]
BY DEF CutChunks, IsTurns

\* The states of the inner loop.
Turning(files, n) ==
  {s \in ChunkStates : Laid(s, files, n, s.offset) /\ s.offset <= files[n + 1][2]}

LEMMA TurnLaid ==
  ASSUME NEW files, IsListing(files), NEW n \in Nat, n < Len(files),
         NEW s \in Turning(files, n), NEW size, size = files[n + 1][2],
         NEW t, t = CutIfFull(s, files[n + 1][1], size)
  PROVE  /\ t \in Turning(files, n)
         /\ IsFull(s, size) => /\ t.fill = 0 /\ t.offset = s.offset + (ChunkSize - s.fill)
         /\ ~IsFull(s, size) => t = s
<1>1. size \in Nat
  <2>1. n + 1 \in 1..Len(files)
    BY DEF IsListing
  <2> QED
    BY <2>1, ListingTypes
<1>2. CASE IsFull(s, size)
  <2>1. t = CutChunk(s, files[n + 1][1])
    BY <1>2 DEF CutIfFull, IsFull
  <2>2. /\ t \in ChunkStates /\ t.offset \in Nat /\ t.fill = 0
        /\ t.offset = s.offset + (ChunkSize - s.fill) /\ Laid(t, files, n, t.offset)
    BY <2>1, CutLaid DEF Turning
  <2>3. t.offset <= size
    <3>1. s.fill \in Nat /\ s.offset \in Nat /\ ChunkSize \in Nat
      BY ChunkStateFields, Constants DEF Turning
    <3> QED
      BY <1>1, <1>2, <2>2, <3>1 DEF IsFull
  <2> QED
    BY <1>2, <2>2, <2>3 DEF Turning
<1>3. CASE ~IsFull(s, size)
  <2>1. t = s
    BY <1>3 DEF CutIfFull, IsFull
  <2> QED
    BY <1>3, <2>1
<1> QED
  BY <1>2, <1>3

LEMMA TheOnlyTurn ==
  ASSUME NEW x, NEW f, NEW size
  PROVE  TheOne({CutIfFull(t, f, size) : t \in {x}}) = CutIfFull(x, f, size)
<1>1. {CutIfFull(t, f, size) : t \in {x}} = {CutIfFull(x, f, size)}
  OBVIOUS
<1> QED
  BY <1>1, TheOnlyOne

LEMMA TurnsExist ==
  ASSUME NEW files, IsListing(files), NEW n \in Nat, n < Len(files),
         NEW s \in Turning(files, n), NEW size \in Nat, size = files[n + 1][2],
         NEW f, f = files[n + 1][1]
  PROVE  \E g : IsTurns(g, s, f, size)
<1> DEFINE V == Turning(files, n)
           step == [p \in (1..(size + 1)) \X V |-> CutIfFull(p[2], f, size)]
<1>1. step \in [(1..(size + 1)) \X V -> V]
  <2> SUFFICES ASSUME NEW p \in (1..(size + 1)) \X V PROVE CutIfFull(p[2], f, size) \in V
    OBVIOUS
  <2>1. PICK t : t = CutIfFull(p[2], f, size)
    OBVIOUS
  <2>2. p[2] \in Turning(files, n)
    OBVIOUS
  <2>3. t \in Turning(files, n)
    BY <2>1, <2>2, TurnLaid
  <2> QED
    BY <2>1, <2>3
<1>2. size + 1 \in Nat
  OBVIOUS
<1>3. PICK g \in [0..(size + 1) -> V] : IsRecursion(g, s, step, size + 1)
  <2> HIDE DEF step, V
  <2>1. s \in V
    BY DEF V
  <2> QED
    BY <1>1, <1>2, <2>1, RecursionExists
<1>4. ASSUME NEW k \in 0..(size + 1)
      PROVE  g[k] = IF k = 0 THEN s ELSE TheOne({CutIfFull(t, f, size) : t \in {g[k - 1]}})
  <2>1. CASE k = 0
    BY <1>3, <2>1 DEF IsRecursion
  <2>2. CASE k # 0
    <3>1. k \in 1..(size + 1) /\ k - 1 \in 0..(size + 1)
      BY <2>2
    <3>2. g[k] = step[<<k, g[k - 1]>>] /\ g[k - 1] \in V
      BY <1>3, <3>1 DEF IsRecursion
    <3>3. g[k] = CutIfFull(g[k - 1], f, size)
      BY <3>1, <3>2
    <3>4. TheOne({CutIfFull(t, f, size) : t \in {g[k - 1]}}) = CutIfFull(g[k - 1], f, size)
      BY TheOnlyTurn
    <3> QED
      BY <2>2, <3>3, <3>4
  <2> QED
    BY <2>1, <2>2
<1>5. IsTurns(g, s, f, size)
  <2>1. g = [k \in 0..(size + 1) |-> g[k]]
    BY <1>3
  <2> QED
    BY <1>4, <2>1 DEF IsTurns
<1> QED
  BY <1>5

\* When the inner loop ends the rest of the file fits.
LEMMA ChunksCut ==
  ASSUME NEW files, IsListing(files), NEW n \in Nat, n < Len(files),
         NEW s \in Turning(files, n), NEW size, size = files[n + 1][2],
         NEW t, t = CutChunks(s, files[n + 1][1], size)
  PROVE  t \in Turning(files, n) /\ ~IsFull(t, size)
<1>1. PICK f : f = files[n + 1][1]
  OBVIOUS
<1>2. size \in Nat
  <2>1. n + 1 \in 1..Len(files)
    BY DEF IsListing
  <2> QED
    BY <2>1, ListingTypes
<1>3. PICK g : g = (CHOOSE h : IsTurns(h, s, f, size))
  OBVIOUS
<1>4. IsTurns(g, s, f, size)
  BY <1>1, <1>2, <1>3, TurnsExist
<1>5. t = g[size + 1]
  BY <1>1, <1>3, CutChunksDefinition
<1>6. \A k \in 0..(size + 1) :
        g[k] = IF k = 0 THEN s ELSE TheOne({CutIfFull(u, f, size) : u \in {g[k - 1]}})
  BY <1>4 DEF IsTurns
<1>7. g[0] = s
  <2>1. 0 \in 0..(size + 1)
    BY <1>2
  <2> QED
    BY <1>6, <2>1
<1>8. \A k \in Nat : k + 1 <= size + 1 => g[k + 1] = CutIfFull(g[k], f, size)
  <2> SUFFICES ASSUME NEW k \in Nat, k + 1 <= size + 1
               PROVE  g[k + 1] = CutIfFull(g[k], f, size)
    OBVIOUS
  <2>1. k + 1 \in 0..(size + 1) /\ k + 1 # 0 /\ (k + 1) - 1 = k
    BY <1>2
  <2>2. PICK j \in 0..(size + 1) : j = k + 1
    BY <2>1
  <2>3. g[j] = TheOne({CutIfFull(u, f, size) : u \in {g[j - 1]}})
    BY <1>6, <2>1, <2>2
  <2>4. g[j - 1] = g[k]
    BY <2>1, <2>2
  <2>5. g[j] = CutIfFull(g[j - 1], f, size)
    BY <2>3, TheOnlyTurn
  <2> QED
    BY <2>2, <2>4, <2>5
<1> DEFINE Turned(k) == /\ g[k] \in Turning(files, n)
                        /\ k >= 1 /\ IsFull(g[k], size) => g[k].fill = 0 /\ g[k].offset >= k - 1
           N == {k \in Nat : k <= size + 1 => Turned(k)}
<1>9. 0 \in N
  BY <1>7
<1>10. ASSUME NEW k \in Nat, k \in N PROVE k + 1 \in N
  <2> SUFFICES ASSUME k + 1 <= size + 1 PROVE Turned(k + 1)
    OBVIOUS
  <2>1. Turned(k)
    BY <1>2, <1>10
  <2>2. PICK u : u = g[k]
    OBVIOUS
  <2>3. PICK w : w = g[k + 1]
    OBVIOUS
  <2>4. u \in Turning(files, n) /\ w = CutIfFull(u, f, size)
    BY <1>8, <2>1, <2>2, <2>3
  <2>5. /\ w \in Turning(files, n)
        /\ IsFull(u, size) => w.fill = 0 /\ w.offset = u.offset + (ChunkSize - u.fill)
        /\ ~IsFull(u, size) => w = u
    BY <1>1, <2>4, TurnLaid
  <2>6. ASSUME IsFull(w, size) PROVE w.fill = 0 /\ w.offset >= (k + 1) - 1
    <3>1. IsFull(u, size)
      BY <2>5, <2>6
    <3>2. u.fill \in Nat /\ u.offset \in Nat /\ u.fill <= ChunkSize /\ ChunkSize \in Nat /\ ChunkSize > 0
      BY <2>4, ChunkStateFields, Constants DEF Turning, Laid, WellFilled
    <3>3. w.fill = 0 /\ w.offset = u.offset + (ChunkSize - u.fill)
      BY <2>5, <3>1
    <3>4. CASE k = 0
      BY <3>2, <3>3, <3>4
    <3>5. CASE k # 0
      <4>1. u.fill = 0 /\ u.offset >= k - 1
        BY <2>1, <2>2, <3>1, <3>5
      <4> QED
        BY <3>2, <3>3, <4>1
    <3> QED
      BY <3>4, <3>5
  <2> QED
    BY <2>3, <2>5, <2>6
<1>11. size + 1 \in N
  <2>1. Nat \subseteq N
    <3> HIDE DEF N
    <3> QED
      BY <1>9, <1>10, InductionOnNumbers
  <2> QED
    BY <1>2, <2>1
<1>12. t \in Turning(files, n) /\ (IsFull(t, size) => t.fill = 0 /\ t.offset >= size)
  BY <1>2, <1>5, <1>11
<1>13. ~IsFull(t, size)
  <2>1. t.offset \in Nat /\ ChunkSize \in Nat
    BY <1>12, ChunkStateFields, Constants DEF Turning
  <2> QED
    BY <1>2, <1>12, <2>1 DEF IsFull
<1> QED
  BY <1>12, <1>13

LEMMA FilePlaced ==
  ASSUME NEW files, IsListing(files), NEW n \in Nat, n < Len(files), NEW s,
         Laid(s, files, n, 0), NEW t, t = PlaceFile(s, files[n + 1])
  PROVE  Laid(t, files, n + 1, 0)
<1>1. PICK f : f = files[n + 1][1]
  OBVIOUS
<1>2. PICK size : size = files[n + 1][2]
  OBVIOUS
<1>3. size \in Nat /\ Len(files) \in Nat /\ n + 1 \in 1..Len(files)
  <2>1. n + 1 \in 1..Len(files) /\ Len(files) \in Nat
    BY DEF IsListing
  <2> QED
    BY <1>2, <2>1, ListingTypes
<1>4. PICK s0 : s0 = [s EXCEPT !.offset = 0]
  OBVIOUS
<1>5. /\ s0 \in ChunkStates /\ s0.offset = 0
      /\ s0.chunks = s.chunks /\ s0.current = s.current /\ s0.fill = s.fill
  <2>1. s \in ChunkStates
    BY DEF Laid, WellFilled
  <2> QED
    BY <1>4, <2>1 DEF ChunkStates
<1>6. Laid(s0, files, n, 0)
  BY <1>5, LaidAlike
<1>7. s0 \in Turning(files, n)
  BY <1>2, <1>3, <1>5, <1>6 DEF Turning
<1>8. PICK u : u = CutChunks(s0, f, size)
  OBVIOUS
<1>9. u \in Turning(files, n) /\ ~IsFull(u, size)
  BY <1>1, <1>2, <1>7, <1>8, ChunksCut
<1>10. t = AddRest(u, f, size)
  <2>1. {AddRest(x, f, size) : x \in {u}} = {AddRest(u, f, size)}
    OBVIOUS
  <2>2. t = TheOne({AddRest(x, f, size) : x \in {u}})
    BY <1>1, <1>2, <1>4, <1>8 DEF PlaceFile
  <2> QED
    BY <2>1, <2>2, TheOnlyOne
<1>11. PICK m : m = u.offset
  OBVIOUS
<1>12. PICK rest : rest = size - m
  OBVIOUS
<1>13. /\ Laid(u, files, n, m) /\ m \in Nat /\ rest \in Nat
       /\ u.fill + rest <= ChunkSize /\ m + rest = size
  <2>1. u \in ChunkStates /\ Laid(u, files, n, u.offset) /\ u.offset <= size
    BY <1>2, <1>9 DEF Turning
  <2>2. u.fill \in Nat /\ u.offset \in Nat /\ ChunkSize \in Nat
    BY <2>1, ChunkStateFields, Constants
  <2>3. u.fill + size - u.offset <= ChunkSize
    BY <1>3, <1>9, <2>2 DEF IsFull
  <2>4. u.fill + rest <= ChunkSize /\ rest \in Nat /\ m + rest = size
    BY <1>3, <1>11, <1>12, <2>1, <2>2, <2>3
  <2> QED
    BY <1>11, <2>1, <2>2, <2>4
<1>14. t = [chunks |-> u.chunks, current |-> WithRecord(u.current, Record(f, m, rest)),
            fill |-> u.fill + rest, offset |-> m]
  <2>1. u.fill + size - u.offset = u.fill + rest
    <3>1. u.fill \in Nat
      BY <1>9, ChunkStateFields DEF Turning
    <3> QED
      BY <1>3, <1>11, <1>12, <1>13, <3>1
  <2> QED
    BY <1>10, <1>11, <1>12, <2>1 DEF AddRest
<1>15. Laid(t, files, n, m + rest)
  BY <1>1, <1>13, <1>14, PartLaid
<1>16. Laid(t, files, n, size)
  BY <1>13, <1>15
<1>17. ASSUME NEW i \in 1..Len(files)
       PROVE  Reach(files, n, size, i) = Reach(files, n + 1, 0, i)
  <2>1. CASE i = n + 1
    BY <1>2, <2>1 DEF Reach
  <2>2. CASE i <= n
    BY <2>2 DEF Reach
  <2>3. CASE i > n + 1
    BY <2>3 DEF Reach
  <2> QED
    BY <1>3, <2>1, <2>2, <2>3
<1> QED
  BY <1>16, <1>17 DEF Laid

\* g is the recursive function in ChunksOf(files).
IsPlaced(g, files) ==
  g = [n \in 0..Len(files) |->
         IF n = 0 THEN NoChunks ELSE TheOne({PlaceFile(s, files[n]) : s \in {g[n - 1]}})]

LEMMA ChunksOfDefinition ==
  ASSUME NEW files
  PROVE  ChunksOf(files) = LastChunk((CHOOSE g : IsPlaced(g, files))[Len(files)])
<1>1. PICK g : g = (CHOOSE k : IsPlaced(k, files))
  OBVIOUS
<1>2. PICK x : x = g[Len(files)]
  OBVIOUS
<1>3. ChunksOf(files) = TheOne({LastChunk(s) : s \in {x}})
  BY <1>1, <1>2 DEF ChunksOf, IsPlaced
<1>4. {LastChunk(s) : s \in {x}} = {LastChunk(x)}
  OBVIOUS
<1> QED
  BY <1>1, <1>2, <1>3, <1>4, TheOnlyOne

LEMMA TheOnlyPlace ==
  ASSUME NEW x, NEW file
  PROVE  TheOne({PlaceFile(s, file) : s \in {x}}) = PlaceFile(x, file)
<1>1. {PlaceFile(s, file) : s \in {x}} = {PlaceFile(x, file)}
  OBVIOUS
<1> QED
  BY <1>1, TheOnlyOne

LEMMA NothingLaid ==
  ASSUME NEW files
  PROVE  Laid(NoChunks, files, 0, 0)
<1>1. NoChunks.chunks = <<>> /\ NoChunks.current = <<>> /\ NoChunks.fill = 0
  BY DEF NoChunks
<1>2. NoChunks \in ChunkStates
  <2>1. <<>> \in Seq(Records) /\ <<>> \in Seq(Seq(Records)) /\ 0 \in Nat
    OBVIOUS
  <2> QED
    BY <2>1 DEF NoChunks, ChunkStates, ChunkSeqs
<1>3. PICK A : A = AllChunks(NoChunks)
  OBVIOUS
<1>4. A = <<<<>>>>
  BY <1>1, <1>3 DEF AllChunks
<1>5. Positions(A) = {}
  <2>1. A \in ChunkSeqs /\ Len(A) = 1 /\ A[1] = <<>>
    BY <1>4 DEF ChunkSeqs
  <2>2. ASSUME NEW p \in Positions(A) PROVE FALSE
    <3>1. p[1] \in 1..Len(A) /\ p[2] \in 1..Len(A[p[1]])
      BY <2>1, <2>2, PositionsOfChunks
    <3>2. p[1] = 1
      BY <2>1, <3>1
    <3>3. p[2] \in 1..0
      BY <2>1, <3>1, <3>2
    <3> QED
      BY <3>3
  <2> QED
    BY <2>2
<1>6. WellFilled(NoChunks)
  <2>1. \A c \in 1..Len(NoChunks.chunks) : UnitsIn(NoChunks.chunks[c]) <= ChunkSize
    <3>1. Len(NoChunks.chunks) = 0
      BY <1>1
    <3>2. ~\E c : c \in 1..0
      OBVIOUS
    <3> QED
      BY <3>1, <3>2
  <2> QED
    BY <1>1, <1>2, <2>1, Constants, UnitsOfNothing DEF WellFilled
<1>7. OnlyFiles(A, files)
  BY <1>5 DEF OnlyFiles
<1>8. ASSUME NEW i \in 1..Len(files) PROVE Covered(A, files[i][1], Reach(files, 0, 0, i))
  <2>1. Reach(files, 0, 0, i) = 0
    <3>1. ~(i <= 0)
      OBVIOUS
    <3> QED
      BY <3>1 DEF Reach
  <2>2. PlacesOf(A, files[i][1]) = {}
    BY <1>5 DEF PlacesOf
  <2> QED
    BY <2>1, <2>2 DEF Covered
<1> QED
  BY <1>3, <1>6, <1>7, <1>8 DEF Laid

LEMMA PlacesExist ==
  ASSUME NEW files, IsListing(files)
  PROVE  \E g : IsPlaced(g, files)
<1>1. PICK N \in Nat : N = Len(files)
  BY DEF IsListing
<1> DEFINE Good(n) == {s \in ChunkStates : Laid(s, files, n, 0)}
           V == ChunkStates
           step == [p \in (1..N) \X V |->
                      IF p[2] \in Good(p[1] - 1) THEN PlaceFile(p[2], files[p[1]]) ELSE p[2]]
<1>2. ASSUME NEW n \in 1..N, NEW s \in Good(n - 1), NEW t, t = PlaceFile(s, files[n])
      PROVE  t \in Good(n)
  <2>1. PICK m \in Nat : m = n - 1
    OBVIOUS
  <2>2. m < Len(files) /\ m + 1 = n /\ Laid(s, files, m, 0)
    BY <1>1, <2>1
  <2>3. Laid(t, files, m + 1, 0)
    BY <1>2, <2>2, FilePlaced
  <2>4. t \in ChunkStates
    BY <2>3 DEF Laid, WellFilled
  <2> QED
    BY <2>2, <2>3, <2>4
<1>3. step \in [(1..N) \X V -> V]
  <2> SUFFICES ASSUME NEW p \in (1..N) \X V
               PROVE  (IF p[2] \in Good(p[1] - 1) THEN PlaceFile(p[2], files[p[1]]) ELSE p[2]) \in V
    OBVIOUS
  <2>1. p[1] \in 1..N /\ p[2] \in V
    OBVIOUS
  <2>2. PICK t : t = PlaceFile(p[2], files[p[1]])
    OBVIOUS
  <2>3. p[2] \in Good(p[1] - 1) => t \in ChunkStates
    BY <1>2, <2>1, <2>2
  <2> HIDE DEF Good
  <2> QED
    BY <2>1, <2>2, <2>3
<1>4. NoChunks \in Good(0)
  <2>1. Laid(NoChunks, files, 0, 0)
    BY NothingLaid
  <2> QED
    BY <2>1 DEF Laid, WellFilled
<1>5. PICK g \in [0..N -> V] : IsRecursion(g, NoChunks, step, N)
  <2>1. NoChunks \in V
    BY <1>4
  <2> HIDE DEF step, V
  <2> QED
    BY <1>3, <2>1, RecursionExists
<1> DEFINE S == {n \in Nat : n <= N => g[n] \in Good(n)}
<1>6. 0 \in S
  BY <1>4, <1>5 DEF IsRecursion
<1>7. \A n \in 1..N : g[n] = step[<<n, g[n - 1]>>] /\ g[n - 1] \in V
  <2>1. \A n \in 1..N : n - 1 \in 0..N
    OBVIOUS
  <2> QED
    BY <1>5, <2>1 DEF IsRecursion
<1>8. ASSUME NEW n \in 1..N, g[n - 1] \in Good(n - 1) PROVE g[n] = PlaceFile(g[n - 1], files[n])
  <2>1. g[n] = step[<<n, g[n - 1]>>] /\ g[n - 1] \in V
    BY <1>7
  <2> HIDE DEF Good
  <2> QED
    BY <1>8, <2>1
<1>9. ASSUME NEW k \in Nat, k \in S PROVE k + 1 \in S
  <2> SUFFICES ASSUME k + 1 <= N PROVE g[k + 1] \in Good(k + 1)
    OBVIOUS
  <2>1. PICK n \in 1..N : n = k + 1
    OBVIOUS
  <2>2. g[n - 1] \in Good(n - 1)
    BY <1>9, <2>1
  <2>3. g[n] = PlaceFile(g[n - 1], files[n])
    BY <1>8, <2>2
  <2>4. g[n] \in Good(n)
    BY <1>2, <2>2, <2>3
  <2> QED
    BY <2>1, <2>4
<1>10. \A n \in 0..N : g[n] \in Good(n)
  <2>1. Nat \subseteq S
    <3> HIDE DEF S
    <3> QED
      BY <1>6, <1>9, InductionOnNumbers
  <2> QED
    BY <2>1
<1>11. ASSUME NEW n \in 0..N
       PROVE  g[n] = IF n = 0 THEN NoChunks
                     ELSE TheOne({PlaceFile(s, files[n]) : s \in {g[n - 1]}})
  <2>1. CASE n = 0
    BY <1>5, <2>1 DEF IsRecursion
  <2>2. CASE n # 0
    <3>1. n \in 1..N /\ n - 1 \in 0..N
      BY <2>2
    <3>2. g[n] = PlaceFile(g[n - 1], files[n])
      BY <1>8, <1>10, <3>1
    <3> QED
      BY <2>2, <3>2, TheOnlyPlace
  <2> QED
    BY <2>1, <2>2
<1>12. IsPlaced(g, files)
  <2>1. g = [n \in 0..N |-> g[n]]
    BY <1>5
  <2> QED
    BY <1>1, <1>11, <2>1 DEF IsPlaced
<1> QED
  BY <1>12

\* Every state of the outer loop has its files laid.
LEMMA PlacedLaid ==
  ASSUME NEW files, IsListing(files), NEW g, IsPlaced(g, files)
  PROVE  Laid(g[Len(files)], files, Len(files), 0)
<1>1. PICK N \in Nat : N = Len(files)
  BY DEF IsListing
<1>2. \A n \in 0..N :
        g[n] = IF n = 0 THEN NoChunks ELSE TheOne({PlaceFile(s, files[n]) : s \in {g[n - 1]}})
  BY <1>1 DEF IsPlaced
<1> DEFINE S == {n \in Nat : n <= N => Laid(g[n], files, n, 0)}
<1>3. 0 \in S
  <2>1. 0 \in 0..N
    OBVIOUS
  <2>2. g[0] = NoChunks
    BY <1>2, <2>1
  <2> QED
    BY <2>2, NothingLaid
<1>4. ASSUME NEW k \in Nat, k \in S PROVE k + 1 \in S
  <2> SUFFICES ASSUME k + 1 <= N PROVE Laid(g[k + 1], files, k + 1, 0)
    OBVIOUS
  <2>1. PICK n \in 0..N : n = k + 1
    OBVIOUS
  <2>2. n # 0 /\ n - 1 = k
    BY <2>1
  <2>3. g[n] = TheOne({PlaceFile(s, files[n]) : s \in {g[n - 1]}})
    BY <1>2, <2>2
  <2>4. g[n] = PlaceFile(g[n - 1], files[n])
    BY <2>3, TheOnlyPlace
  <2>5. PICK t : t = g[n]
    OBVIOUS
  <2>6. PICK s : s = g[k]
    OBVIOUS
  <2>7. Laid(s, files, k, 0) /\ k < Len(files) /\ t = PlaceFile(s, files[k + 1])
    BY <1>1, <1>4, <2>1, <2>2, <2>4, <2>5, <2>6
  <2>8. Laid(t, files, k + 1, 0)
    BY <2>7, FilePlaced
  <2> QED
    BY <2>1, <2>5, <2>8
<1>5. N \in S
  <2>1. Nat \subseteq S
    <3> HIDE DEF S
    <3> QED
      BY <1>3, <1>4, InductionOnNumbers
  <2> QED
    BY <2>1
<1> QED
  BY <1>1, <1>5

\* The records of the chunks tile the files, and no chunk is larger than ChunkSize.
GoodChunks(A, files) ==
  /\ A \in ChunkSeqs
  /\ OnlyFiles(A, files)
  /\ \A i \in 1..Len(files) : Tiled(A, files[i][1], files[i][2])
  /\ \A c \in 1..Len(A) : UnitsIn(A[c]) <= ChunkSize

\* createChunksFile() tiles the files it is given, in chunks of the size allowed.
THEOREM ChunksTile ==
  ASSUME NEW files, IsListing(files)
  PROVE  GoodChunks(ChunksOf(files), files)
<1>1. PICK g : g = (CHOOSE k : IsPlaced(k, files))
  OBVIOUS
<1>2. IsPlaced(g, files)
  BY <1>1, PlacesExist
<1>3. PICK N \in Nat : N = Len(files)
  BY DEF IsListing
<1>4. PICK s : s = g[N]
  OBVIOUS
<1>5. Laid(s, files, N, 0)
  BY <1>2, <1>3, <1>4, PlacedLaid
<1>6. PICK A : A = ChunksOf(files)
  OBVIOUS
<1>7. A = LastChunk(s)
  BY <1>1, <1>3, <1>4, <1>6, ChunksOfDefinition
<1>8. PICK B : B = AllChunks(s)
  OBVIOUS
<1>9. s \in ChunkStates /\ s.chunks \in ChunkSeqs /\ s.current \in Seq(Records) /\ s.fill \in Nat
  BY <1>5, ChunkStateFields DEF Laid, WellFilled
<1>10. A \in ChunkSeqs /\ Positions(A) = Positions(B)
       /\ (\A p \in Positions(B) : RecordAt(A, p) = RecordAt(B, p)) /\ SameRecords(B, A)
  <2>1. CASE s.fill > 0
    <3>1. A = B
      BY <1>7, <1>8, <2>1 DEF LastChunk, AllChunks
    <3> QED
      BY <1>8, <1>9, <3>1, ChunkStateFields DEF SameRecords
  <2>2. CASE ~(s.fill > 0)
    <3>1. s.fill = 0 /\ A = s.chunks
      BY <1>7, <1>9, <2>2 DEF LastChunk
    <3>2. s.current = <<>>
      BY <1>5, <3>1 DEF Laid, WellFilled
    <3>3. B = Append(A, <<>>)
      BY <1>8, <3>1, <3>2 DEF AllChunks
    <3>4. SameRecords(A, B)
      BY <1>9, <3>1, <3>3, AppendNoRecords
    <3> QED
      BY <1>9, <3>1, <3>4 DEF SameRecords
  <2> QED
    BY <2>1, <2>2
<1>11. OnlyFiles(A, files)
  BY <1>5, <1>8, <1>10 DEF Laid, OnlyFiles
<1>12. ASSUME NEW i \in 1..Len(files) PROVE Tiled(A, files[i][1], files[i][2])
  <2>1. Reach(files, N, 0, i) = files[i][2]
    BY <1>3 DEF Reach
  <2>2. Covered(B, files[i][1], files[i][2])
    BY <1>5, <1>8, <2>1 DEF Laid
  <2>3. Covered(A, files[i][1], files[i][2])
    BY <1>10, <2>2, CoveredBySame
  <2>4. files[i][2] # 0
    BY ListingTypes
  <2> QED
    BY <2>3, <2>4 DEF Covered
<1>13. ASSUME NEW c \in 1..Len(A) PROVE UnitsIn(A[c]) <= ChunkSize
  <2>1. CASE s.fill > 0
    <3>1. A = Append(s.chunks, s.current) /\ Len(s.chunks) \in Nat
      BY <1>7, <1>9, <2>1 DEF LastChunk, ChunkSeqs
    <3>2. CASE c = Len(s.chunks) + 1
      <4>1. A[c] = s.current
        BY <1>9, <3>1, <3>2 DEF ChunkSeqs
      <4> QED
        BY <1>5, <4>1 DEF Laid, WellFilled
    <3>3. CASE c # Len(s.chunks) + 1
      <4>1. c \in 1..Len(s.chunks) /\ A[c] = s.chunks[c]
        BY <1>9, <1>13, <3>1, <3>3 DEF ChunkSeqs
      <4> QED
        BY <1>5, <4>1 DEF Laid, WellFilled
    <3> QED
      BY <3>2, <3>3
  <2>2. CASE ~(s.fill > 0)
    <3>1. A = s.chunks
      BY <1>7, <2>2 DEF LastChunk
    <3> QED
      BY <1>5, <1>13, <3>1 DEF Laid, WellFilled
  <2> QED
    BY <2>1, <2>2
<1> QED
  BY <1>6, <1>10, <1>11, <1>12, <1>13 DEF GoodChunks

------------------------------------------------------------------------------
(* Snapshots as they should be *)

\* What chunks of a snapshot at height h are cut from.
Content(f, h) == IF f = DbFileIdentifier THEN Rows(h) ELSE Bytes(f, h)
Description(h) == [height |-> h, chunks |-> ChunksOf(DumpFiles(Rows(h)))]

\* The files of a snapshot.
SnapshotFiles(h) == FilesUpTo(h) \cup {DbFileIdentifier}

LEMMA SnapshotListing ==
  ASSUME NEW h \in Heights, NEW files, files = DumpFiles(Rows(h))
  PROVE  /\ IsListing(files)
         /\ \A i \in 1..Len(files) : /\ files[i][1] \in SnapshotFiles(h)
                                     /\ files[i][2] = Len(Content(files[i][1], h))
         /\ \A f \in SnapshotFiles(h) : \E i \in 1..Len(files) : files[i][1] = f
<1>1. PICK s : s = FilesAt(h)
  OBVIOUS
<1>2. PICK n \in Nat : n = Len(s)
  BY <1>1, FilesAtHeight
<1>3. /\ \A i \in 1..n : s[i] \in FilesUpTo(h) /\ s[i] # DbFileIdentifier
      /\ \A f \in FilesUpTo(h) : \E i \in 1..n : s[i] = f
      /\ \A i, j \in 1..n : s[i] = s[j] => i = j
  <2>1. s \in Seq(FilesUpTo(h))
    BY <1>1, FilesAtHeight
  <2>2. \A i \in 1..n : s[i] \in FilesUpTo(h)
    BY <1>2, <2>1
  <2> QED
    BY <1>1, <1>2, <2>2, FilesAtHeight, FilesUpToTypes
<1>4. /\ files \in Seq(FileSizes) /\ Len(files) = n + 1
      /\ \A i \in 1..n : files[i] = <<s[i], Len(Bytes(s[i], h))>>
      /\ files[n + 1] = <<DbFileIdentifier, Len(Rows(h))>>
  BY <1>1, <1>2, DumpFilesShape DEF FilesAre, FileSizes
<1>5. \A i \in 1..Len(files) : i # n + 1 => i \in 1..n
  BY <1>4
<1>6. \A i \in 1..n : files[i][1] = s[i] /\ files[i][2] = Len(Bytes(s[i], h))
  BY <1>4
<1>7. files[n + 1][1] = DbFileIdentifier /\ files[n + 1][2] = Len(Rows(h))
  BY <1>4
<1>8. ASSUME NEW i \in 1..Len(files), NEW j \in 1..Len(files), files[i][1] = files[j][1]
      PROVE  i = j
  BY <1>3, <1>5, <1>6, <1>7, <1>8
<1>9. ASSUME NEW i \in 1..Len(files)
      PROVE  files[i][1] \in SnapshotFiles(h) /\ files[i][2] = Len(Content(files[i][1], h))
  <2>1. CASE i = n + 1
    BY <1>7, <2>1 DEF SnapshotFiles, Content
  <2>2. CASE i # n + 1
    BY <1>3, <1>5, <1>6, <2>2 DEF SnapshotFiles, Content
  <2> QED
    BY <2>1, <2>2
<1>10. ASSUME NEW f \in SnapshotFiles(h) PROVE \E i \in 1..Len(files) : files[i][1] = f
  <2>1. CASE f = DbFileIdentifier
    <3>1. n + 1 \in 1..Len(files)
      BY <1>4
    <3> QED
      BY <1>7, <2>1, <3>1
  <2>2. CASE f # DbFileIdentifier
    <3>1. PICK i \in 1..n : s[i] = f
      BY <1>3, <1>10, <2>2 DEF SnapshotFiles
    <3>2. i \in 1..Len(files)
      BY <1>4
    <3> QED
      BY <1>6, <3>1, <3>2
  <2> QED
    BY <2>1, <2>2
<1> QED
  BY <1>4, <1>8, <1>9, <1>10 DEF IsListing

\* The chunks A of the snapshot at height h.
IsCutOf(A, h) ==
  /\ A \in ChunkSeqs
  /\ \A p \in Positions(A) : RecordAt(A, p).file \in SnapshotFiles(h)
  /\ \A f \in SnapshotFiles(h) : Tiled(A, f, Len(Content(f, h)))
  /\ \A c \in 1..Len(A) : UnitsIn(A[c]) <= ChunkSize

LEMMA DescriptionCut ==
  ASSUME NEW h \in Heights
  PROVE  /\ IsCutOf(Description(h).chunks, h) /\ Description(h).height = h
         /\ Description(h) \in Descriptions /\ Description(h) # Missing
<1>1. PICK files : files = DumpFiles(Rows(h))
  OBVIOUS
<1>2. PICK A : A = ChunksOf(files)
  OBVIOUS
<1>3. Description(h) = [height |-> h, chunks |-> A]
  BY <1>1, <1>2 DEF Description
<1>4. /\ IsListing(files)
      /\ \A i \in 1..Len(files) : /\ files[i][1] \in SnapshotFiles(h)
                                  /\ files[i][2] = Len(Content(files[i][1], h))
      /\ \A f \in SnapshotFiles(h) : \E i \in 1..Len(files) : files[i][1] = f
  BY <1>1, SnapshotListing
<1>5. GoodChunks(A, files)
  BY <1>2, <1>4, ChunksTile
<1>6. IsCutOf(A, h)
  <2>1. \A p \in Positions(A) : RecordAt(A, p).file \in SnapshotFiles(h)
    BY <1>4, <1>5 DEF GoodChunks, OnlyFiles
  <2>2. ASSUME NEW f \in SnapshotFiles(h) PROVE Tiled(A, f, Len(Content(f, h)))
    <3>1. PICK i \in 1..Len(files) : files[i][1] = f
      BY <1>4, <2>2
    <3>2. files[i][2] = Len(Content(f, h))
      BY <1>4, <3>1
    <3> QED
      BY <1>5, <3>1, <3>2 DEF GoodChunks
  <2> QED
    BY <1>5, <2>1, <2>2 DEF IsCutOf, GoodChunks
<1>7. Description(h) \in Descriptions
  BY <1>3, <1>5 DEF Descriptions, GoodChunks, ChunkSeqs
<1>8. Description(h) # Missing
  BY <1>7, MissingAssumption
<1> QED
  BY <1>3, <1>6, <1>7, <1>8

\* The length of a description is a number.
LEMMA ChunkCount ==
  ASSUME NEW h \in Heights
  PROVE  Len(Description(h).chunks) \in Nat
BY DescriptionCut DEF IsCutOf, ChunkSeqs

LEMMA RowsExist ==
  ASSUME NEW h \in Heights
  PROVE  Rows(h) \in Seq(RowSet) /\ Rows(h) # Missing /\ Len(Rows(h)) \in Nat /\ DumpHeight(Rows(h)) = h
BY RowsShape, DumpFilesShape, MissingAssumption DEF RowsAre

------------------------------------------------------------------------------
(* Lists of heights *)

LEMMA LastAndFront ==
  ASSUME NEW S, NEW s \in Seq(S), s # <<>>
  PROVE  /\ Last(s) \in S /\ Front(s) \in Seq(S) /\ Len(Front(s)) = Len(s) - 1
         /\ ToSet(s) = ToSet(Front(s)) \cup {Last(s)}
<1>1. PICK n \in Nat : n = Len(s)
  OBVIOUS
<1>2. n > 0
  BY <1>1
<1>3. PICK t : t = Front(s)
  OBVIOUS
<1>4. t \in Seq(S) /\ Len(t) = n - 1 /\ \A i \in 1..(n - 1) : t[i] = s[i]
  BY <1>1, <1>2, <1>3 DEF Front
<1>5. Last(s) = s[n] /\ n \in 1..n /\ s[n] \in S
  BY <1>1, <1>2 DEF Last
<1>6. DOMAIN s = 1..n /\ DOMAIN t = 1..(n - 1)
  BY <1>1, <1>4
<1>7. \A i \in 1..n : i = n \/ i \in 1..(n - 1)
  OBVIOUS
<1>8. \A i \in 1..(n - 1) : i \in 1..n
  OBVIOUS
<1>9. ToSet(s) = ToSet(t) \cup {s[n]}
  BY <1>4, <1>5, <1>6, <1>7, <1>8 DEF ToSet
<1> QED
  BY <1>1, <1>3, <1>4, <1>5, <1>9

LEMMA ReversedElements ==
  ASSUME NEW S, NEW s \in Seq(S)
  PROVE  Reverse(s) \in Seq(S) /\ ToSet(Reverse(s)) = ToSet(s)
<1>1. PICK n \in Nat : n = Len(s)
  OBVIOUS
<1>2. PICK t : t = Reverse(s)
  OBVIOUS
<1>3. \A i \in 1..n : (n - i) + 1 \in 1..n /\ (n - ((n - i) + 1)) + 1 = i
  OBVIOUS
<1>4. t = [i \in 1..n |-> s[(n - i) + 1]]
  BY <1>1, <1>2 DEF Reverse
<1>5. t \in Seq(S)
  <2>1. \A i \in 1..n : s[(n - i) + 1] \in S
    BY <1>1, <1>3
  <2> QED
    BY <1>4, <2>1
<1>6. DOMAIN t = 1..n /\ DOMAIN s = 1..n /\ \A i \in 1..n : t[i] = s[(n - i) + 1]
  BY <1>1, <1>4
<1>7. \A i \in 1..n : s[i] = t[(n - i) + 1]
  BY <1>3, <1>6
<1>8. ToSet(t) = ToSet(s)
  BY <1>3, <1>6, <1>7 DEF ToSet
<1> QED
  BY <1>2, <1>5, <1>8

LEMMA FewElements ==
  ASSUME NEW S, NEW s \in Seq(S)
  PROVE  IsFiniteSet(ToSet(s)) /\ Cardinality(ToSet(s)) <= Len(s)
<1>1. PICK n \in Nat : n = Len(s)
  OBVIOUS
<1>2. IsFiniteSet(1..n) /\ Cardinality(1..n) = n
  <2>1. Cardinality(1..n) = IF 1 <= n THEN n - 1 + 1 ELSE 0
    BY FS_Interval
  <2> QED
    BY <2>1, FS_Interval
<1>3. s \in [1..n -> S] /\ DOMAIN s = 1..n
  BY <1>1
<1>4. s \in [1..n -> ToSet(s)]
  <2>1. \A i \in 1..n : s[i] \in ToSet(s)
    BY <1>3 DEF ToSet
  <2> QED
    BY <1>3, <2>1
<1>5. s \in Surjection(1..n, ToSet(s))
  BY <1>3, <1>4 DEF Surjection, ToSet
<1>6. IsFiniteSet(ToSet(s)) /\ Cardinality(ToSet(s)) <= Cardinality(1..n)
  BY <1>2, <1>5, FS_Surjection
<1> QED
  BY <1>1, <1>2, <1>6

LEMMA ListedHeights == Listed \subseteq Heights /\ IsFiniteSet(Listed) /\ Listed \subseteq Nat
<1>1. IsFiniteSet(Heights) /\ Heights \subseteq Nat
  BY Constants, FS_Interval DEF Heights
<1>2. Listed \subseteq Heights
  BY DEF Listed
<1> QED
  BY <1>1, <1>2, FS_Subset

LEMMA ReadListed ==
  ASSUME NEW s, s = Reverse(InOrder(Listed))
  PROVE  s \in Seq(Heights) /\ ToSet(s) = Listed
<1>1. PICK L : L = Listed
  OBVIOUS
<1>2. L \subseteq Heights /\ IsFiniteSet(L) /\ L \subseteq Nat
  BY <1>1, ListedHeights
<1>3. PICK t : t = InOrder(L)
  OBVIOUS
<1>4. Sorts(t, L)
  BY <1>2, <1>3, InOrderSorts
<1>5. t \in Seq(L) /\ ToSet(t) = L
  BY <1>2, <1>4, SortedElements DEF Sorts
<1>6. s \in Seq(L) /\ ToSet(s) = ToSet(t)
  BY <1>1, <1>3, <1>5, ReversedElements
<1>7. s \in Seq(Heights)
  <2>1. s \in [1..Len(s) -> L] /\ Len(s) \in Nat
    BY <1>6
  <2>2. s \in [1..Len(s) -> Heights]
    <3>1. \A i \in 1..Len(s) : s[i] \in Heights
      BY <1>2, <2>1
    <3> QED
      BY <2>1, <3>1
  <2> QED
    BY <2>1, <2>2
<1> QED
  BY <1>1, <1>5, <1>6, <1>7

------------------------------------------------------------------------------
(* The serving node *)

ServerTypes ==
  /\ height \in 0..MaxHeight
  /\ commitPc \in {"ready", "list", "clear", "removeDb", "removeChunks"}
  /\ clearList \in Seq(Heights)
  /\ creation \in [pc : {"off", "dump", "chunks", "json"}, iterator : 0..MaxHeight]
  /\ dump \in Seq(RowSet)
  /\ dbFile \in [Heights -> Seq(RowSet) \cup {Missing}]
  /\ chunksFile \in [Heights -> Descriptions \cup {Missing}]
  /\ json \in [Heights -> Nat \cup {Missing, Torn}]

\* The files of a snapshot are what they should be, if they are there.
Stored(h) ==
  /\ dbFile[h] \in {Missing, Rows(h)}
  /\ chunksFile[h] \in {Missing, Description(h)}
  /\ json[h] \in {Missing, Torn, Len(Description(h).chunks) + 1}
Complete(h) == dbFile[h] # Missing /\ chunksFile[h] # Missing

ServedFiles ==
  /\ \A h \in Heights : Stored(h)
  /\ \A h \in Listed : Complete(h)

\* The first n rows.
DumpedRows(n, h) == dump = SubSeq(Rows(h), 1, n)

\* The snapshot in progress is later than all others.
CreationUnderWay ==
  creation.pc # "off" =>
    /\ creation.iterator \in 1..height
    /\ commitPc # "ready" => creation.iterator < height
    /\ \A h \in Listed \cup ToSet(clearList) : h < creation.iterator
    /\ creation.pc = "dump" =>
         /\ Len(dump) <= Len(Rows(creation.iterator))
         /\ \A i \in 1..Len(dump) : dump[i] = Rows(creation.iterator)[i]
    /\ creation.pc \in {"chunks", "json"} =>
         /\ dump = Rows(creation.iterator)
         /\ dbFile[creation.iterator] = Rows(creation.iterator)
    /\ creation.pc = "json" => chunksFile[creation.iterator] = Description(creation.iterator)

Removing == commitPc \in {"removeDb", "removeChunks"}

ClearUnderWay ==
  /\ \A h \in Listed : h <= height /\ (commitPc # "ready" => h < height)
  /\ commitPc # "ready" => height >= 1
  /\ commitPc \in {"ready", "list"} => clearList = <<>>
  /\ Removing => clearList # <<>> /\ Last(clearList) \notin Listed

\* What clear() has still to consider.
Considered == IF Removing THEN ToSet(Front(clearList)) ELSE ToSet(clearList)

Counted ==
  /\ Cardinality(Listed) <= (IF creation.pc = "off" THEN MaxSnapshots + 1 ELSE MaxSnapshots)
  /\ commitPc \in {"clear", "removeDb", "removeChunks"} =>
       \E h \in Heights : Listed \subseteq Considered \cup {h}
  /\ commitPc \in {"clear", "removeDb", "removeChunks"} /\ creation.pc # "off" =>
       Listed \subseteq Considered

ServerInv == ServerTypes /\ ServedFiles /\ CreationUnderWay /\ ClearUnderWay /\ Counted

LEMMA ServerInit == ASSUME Init PROVE ServerInv
<1>1. \A h \in Heights : dbFile[h] = Missing /\ chunksFile[h] = Missing /\ json[h] = Missing
  BY DEF Init
<1>2. Listed = {}
  BY <1>1 DEF Listed
<1>3. creation.pc = "off" /\ creation.iterator = 0 /\ commitPc = "ready" /\ clearList = <<>>
  BY DEF Init
<1>4. <<>> \in Seq(Heights) /\ <<>> \in Seq(RowSet)
  OBVIOUS
<1>5. ServerTypes
  BY <1>4, Constants DEF Init, ServerTypes
<1>6. ServedFiles
  BY <1>1, <1>2 DEF ServedFiles, Stored
<1>7. CreationUnderWay
  BY <1>3 DEF CreationUnderWay
<1>8. ClearUnderWay
  BY <1>2, <1>3 DEF ClearUnderWay, Removing
<1>9. Counted
  <2>1. Cardinality(Listed) = 0
    BY <1>2, FS_EmptySet
  <2>2. 0 <= MaxSnapshots + 1
    BY Constants
  <2> QED
    BY <1>3, <2>1, <2>2 DEF Counted
<1> QED
  BY <1>5, <1>6, <1>7, <1>8, <1>9 DEF ServerInv

\* The steps that touch the state of the serving node.
LEMMA ServerSteps ==
  ASSUME [Next]_vars
  PROVE  \/ CommitBlock \/ ReadList \/ RemoveJson \/ RemoveDbFile \/ RemoveChunksFile
         \/ StartCreation \/ DumpRow \/ RenameDump \/ WriteChunksFile \/ WriteJson \/ ServerCrash
         \/ UNCHANGED serving
BY DEF Next, vars, Clear, Create, GetChunk, Import, Offer, OfferSnapshot, ReadJson, OpenChunks,
       CopyRecord, ChunkServed, SaveDescription, ApplyChunk, WriteRecord, NextChunk,
       ClearDatabase, LoadBatch, ImporterCrash

\* The snapshot in progress.
LEMMA InProgress ==
  ASSUME ServerInv, creation.pc # "off", NEW h, h = creation.iterator
  PROVE  /\ h \in Heights /\ h \in 1..height /\ h \notin Listed
         /\ creation.pc \in {"chunks", "json"} =>
              /\ dump = Rows(h) /\ dbFile[h] = Rows(h) /\ DumpHeight(dump) = h
              /\ dbFile[h] # Missing
         /\ creation.pc = "json" => chunksFile[h] = Description(h) /\ chunksFile[h] # Missing
<1>1. h \in 1..height /\ height \in 0..MaxHeight
  BY DEF ServerInv, ServerTypes, CreationUnderWay
<1>2. h \in Heights
  BY <1>1, Constants DEF Heights
<1>3. h \notin Listed
  <2>1. h \in Listed => h < h
    BY DEF ServerInv, CreationUnderWay
  <2> QED
    BY <1>1, <2>1
<1>4. creation.pc \in {"chunks", "json"} => dump = Rows(h) /\ dbFile[h] = Rows(h)
  BY DEF ServerInv, CreationUnderWay
<1>5. creation.pc = "json" => chunksFile[h] = Description(h)
  BY DEF ServerInv, CreationUnderWay
<1> QED
  BY <1>1, <1>2, <1>3, <1>4, <1>5, RowsExist, DescriptionCut

\* The dump is complete when it has as many rows as its iterator.
LEMMA DumpComplete ==
  ASSUME ServerInv, creation.pc = "dump", NEW h, h = creation.iterator, Len(dump) = Len(Rows(h))
  PROVE  dump = Rows(h)
<1>1. PICK rows : rows = Rows(h)
  OBVIOUS
<1>2. h \in Heights
  BY InProgress
<1>3. rows \in Seq(RowSet) /\ dump \in Seq(RowSet)
  BY <1>1, <1>2, RowsExist DEF ServerInv, ServerTypes
<1>4. Len(dump) = Len(rows) /\ \A i \in 1..Len(dump) : dump[i] = rows[i]
  BY <1>1 DEF ServerInv, CreationUnderWay
<1>5. dump = rows
  BY <1>3, <1>4, SeqEqual
<1> QED
  BY <1>1, <1>5

\* Where clear() is in its list.
LEMMA ClearedHeight ==
  ASSUME ServerInv, clearList # <<>>, NEW h, h = Last(clearList)
  PROVE  /\ h \in Heights /\ Front(clearList) \in Seq(Heights)
         /\ ToSet(clearList) = ToSet(Front(clearList)) \cup {h}
BY LastAndFront DEF ServerInv, ServerTypes

LEMMA ServerTypesKept ==
  ASSUME ServerInv, [Next]_vars
  PROVE  ServerTypes'
<1>1. ServerTypes
  BY DEF ServerInv
<1>2. CASE CommitBlock
  <2>1. height' \in 0..MaxHeight
    BY <1>1, <1>2, Constants DEF CommitBlock, ServerTypes
  <2> QED
    BY <1>1, <1>2, <2>1 DEF CommitBlock, ServerTypes
<1>3. CASE ReadList
  <2>1. clearList' \in Seq(Heights)
    BY <1>3, ReadListed DEF ReadList
  <2> QED
    BY <1>1, <1>3, <2>1 DEF ReadList, ServerTypes
<1>4. CASE RemoveJson
  BY <1>1, <1>4 DEF RemoveJson, ServerTypes
<1>5. CASE RemoveDbFile
  BY <1>1, <1>5 DEF RemoveDbFile, ServerTypes
<1>6. CASE RemoveChunksFile
  <2>1. clearList # <<>>
    BY <1>6 DEF RemoveChunksFile, ServerInv, ClearUnderWay, Removing
  <2>2. clearList' \in Seq(Heights)
    BY <1>6, <2>1, ClearedHeight DEF RemoveChunksFile
  <2> QED
    BY <1>1, <1>6, <2>2 DEF RemoveChunksFile, ServerTypes
<1>7. CASE StartCreation
  <2>1. creation' \in [pc : {"off", "dump", "chunks", "json"}, iterator : 0..MaxHeight]
    BY <1>1, <1>7 DEF StartCreation, ServerTypes
  <2>2. clearList' \in Seq(Heights)
    BY <1>7 DEF StartCreation
  <2>3. <<>> \in Seq(RowSet)
    OBVIOUS
  <2>4. dump' = <<>> \/ dump' = dump
    BY <1>7 DEF StartCreation
  <2>5. dump' \in Seq(RowSet)
    BY <1>1, <2>3, <2>4 DEF ServerTypes
  <2> QED
    BY <1>1, <1>7, <2>1, <2>2, <2>5 DEF StartCreation, ServerTypes
<1>8. CASE DumpRow
  <2>1. PICK h : h = creation.iterator
    OBVIOUS
  <2>2. PICK rows : rows = Rows(h)
    OBVIOUS
  <2>3. rows \in Seq(RowSet)
    BY <1>8, <2>1, <2>2, InProgress, RowsExist DEF DumpRow
  <2>4. dump' = Append(dump, rows[Len(dump) + 1]) /\ Len(dump) < Len(rows) /\ dump \in Seq(RowSet)
    BY <1>1, <1>8, <2>1, <2>2 DEF DumpRow, SeenByIterator, ServerTypes
  <2>5. rows[Len(dump) + 1] \in RowSet
    BY <2>3, <2>4
  <2>6. dump' \in Seq(RowSet)
    BY <2>4, <2>5
  <2> QED
    BY <1>1, <1>8, <2>6 DEF DumpRow, ServerTypes
<1>9. CASE RenameDump
  <2>1. dbFile' \in [Heights -> Seq(RowSet) \cup {Missing}]
    BY <1>1, <1>9 DEF RenameDump, ServerTypes
  <2>2. creation' \in [pc : {"off", "dump", "chunks", "json"}, iterator : 0..MaxHeight]
    BY <1>1, <1>9 DEF RenameDump, ServerTypes
  <2> QED
    BY <1>1, <1>9, <2>1, <2>2 DEF RenameDump, ServerTypes
<1>10. CASE WriteChunksFile
  <2>1. PICK h : h = creation.iterator
    OBVIOUS
  <2>2. h \in Heights /\ dump = Rows(h) /\ DumpHeight(dump) = h
    BY <1>10, <2>1, InProgress DEF WriteChunksFile
  <2>3. PICK d : d = [height |-> DumpHeight(dump), chunks |-> ChunksOf(DumpFiles(dump))]
    OBVIOUS
  <2>4. d = Description(h)
    BY <2>2, <2>3 DEF Description
  <2>5. d \in Descriptions
    BY <2>2, <2>4, DescriptionCut
  <2>6. chunksFile' \in [Heights -> Descriptions \cup {Missing}]
    BY <1>1, <1>10, <2>3, <2>5 DEF WriteChunksFile, ServerTypes
  <2>7. creation' \in [pc : {"off", "dump", "chunks", "json"}, iterator : 0..MaxHeight]
    BY <1>1, <1>10 DEF WriteChunksFile, ServerTypes
  <2> QED
    BY <1>1, <1>10, <2>6, <2>7 DEF WriteChunksFile, ServerTypes
<1>11. CASE WriteJson
  <2>1. PICK h : h = creation.iterator
    OBVIOUS
  <2>2. h \in Heights /\ DumpHeight(dump) = h /\ chunksFile[h] = Description(h)
    BY <1>11, <2>1, InProgress DEF WriteJson
  <2>3. PICK n \in Nat : n = Len(Description(h).chunks)
    BY <2>2, ChunkCount
  <2>4. json' = [json EXCEPT ![h] = n + 1] /\ n + 1 \in Nat
    BY <1>11, <2>2, <2>3 DEF WriteJson
  <2>5. json' \in [Heights -> Nat \cup {Missing, Torn}]
    BY <1>1, <2>4 DEF ServerTypes
  <2>6. creation' \in [pc : {"off", "dump", "chunks", "json"}, iterator : 0..MaxHeight]
    BY <1>1, <1>11 DEF WriteJson, ServerTypes
  <2> QED
    BY <1>1, <1>11, <2>5, <2>6 DEF WriteJson, ServerTypes
<1>12. CASE ServerCrash
  <2>1. json' \in [Heights -> Nat \cup {Missing, Torn}]
    BY <1>1, <1>12 DEF ServerCrash, ServerTypes
  <2>2. creation' \in [pc : {"off", "dump", "chunks", "json"}, iterator : 0..MaxHeight]
    BY <1>12, Constants DEF ServerCrash
  <2>3. clearList' \in Seq(Heights)
    BY <1>12 DEF ServerCrash
  <2> QED
    BY <1>1, <1>12, <2>1, <2>2, <2>3 DEF ServerCrash, ServerTypes
<1>13. CASE UNCHANGED serving
  BY <1>1, <1>13 DEF serving, ServerTypes
<1> QED
  BY <1>2, <1>3, <1>4, <1>5, <1>6, <1>7, <1>8, <1>9, <1>10, <1>11, <1>12, <1>13, ServerSteps

LEMMA CrashedList ==
  ASSUME ServerTypes, ServerCrash
  PROVE  Listed' \subseteq Listed
<1>1. CASE json' = json
  BY <1>1 DEF Listed
<1>2. CASE json' # json
  <2>1. PICK h : json' = [json EXCEPT ![h] = Torn]
    BY <1>2 DEF ServerCrash
  <2>2. \A k \in Heights : json'[k] = Torn \/ json'[k] = json[k]
    BY <2>1 DEF ServerTypes
  <2> QED
    BY <2>2 DEF Listed
<1> QED
  BY <1>1, <1>2

\* What steps do to the list of snapshots.
LEMMA ListedNext ==
  ASSUME ServerInv, [Next]_vars
  PROVE  /\ \/ Listed' \subseteq Listed
            \/ /\ WriteJson /\ creation.pc = "json"
               /\ Listed' \subseteq Listed \cup {creation.iterator}
         /\ RemoveJson => Last(clearList) \notin Listed'
<1>1. ServerTypes
  BY DEF ServerInv
<1>2. CASE RemoveJson
  <2>1. PICK h : h = Last(clearList)
    OBVIOUS
  <2>2. json' = [json EXCEPT ![h] = Missing] /\ h \in Heights
    BY <1>2, <2>1, ClearedHeight DEF RemoveJson
  <2>3. \A k \in Heights : json'[k] = IF k = h THEN Missing ELSE json[k]
    BY <1>1, <2>2 DEF ServerTypes
  <2>4. Listed' \subseteq Listed /\ h \notin Listed'
    BY <2>2, <2>3 DEF Listed
  <2> QED
    BY <2>1, <2>4
<1>3. CASE WriteJson
  <2>1. PICK h : h = creation.iterator
    OBVIOUS
  <2>2. creation.pc = "json"
    BY <1>3 DEF WriteJson
  <2>3. DumpHeight(dump) = h
    BY <2>1, <2>2, InProgress
  <2>4. PICK x : json' = [json EXCEPT ![h] = x]
    BY <1>3, <2>3 DEF WriteJson
  <2>5. \A k \in Heights : k # h => json'[k] = json[k]
    BY <1>1, <2>4 DEF ServerTypes
  <2>6. Listed' \subseteq Listed \cup {h}
    BY <2>5 DEF Listed
  <2>7. ~RemoveJson
    BY <1>3, <2>2 DEF WriteJson, RemoveJson
  <2> QED
    BY <1>3, <2>1, <2>2, <2>6, <2>7
<1>4. CASE ServerCrash
  <2>1. Listed' \subseteq Listed
    BY <1>1, <1>4, CrashedList
  <2>2. CASE RemoveJson
    BY <1>2, <2>2
  <2> QED
    BY <2>1, <2>2
<1>5. CASE ~RemoveJson /\ ~WriteJson /\ ~ServerCrash
  <2>1. json' = json
    BY <1>5, ServerSteps DEF CommitBlock, ReadList, RemoveDbFile, RemoveChunksFile, StartCreation,
       DumpRow, RenameDump, WriteChunksFile, serving
  <2>2. Listed' = Listed
    BY <2>1 DEF Listed
  <2> QED
    BY <1>5, <2>2
<1> QED
  BY <1>2, <1>3, <1>4, <1>5

LEMMA StoredKept ==
  ASSUME ServerInv, [Next]_vars, NEW k \in Heights
  PROVE  Stored(k)'
<1>1. ServerTypes /\ Stored(k)
  BY DEF ServerInv, ServedFiles
<1>2. CASE RemoveJson
  <2>1. PICK h : json' = [json EXCEPT ![h] = Missing]
    BY <1>2 DEF RemoveJson
  <2>2. json'[k] = Missing \/ json'[k] = json[k]
    BY <1>1, <2>1 DEF ServerTypes
  <2> QED
    BY <1>1, <1>2, <2>2 DEF RemoveJson, Stored
<1>3. CASE RemoveDbFile
  <2>1. PICK h : dbFile' = [dbFile EXCEPT ![h] = Missing]
    BY <1>3 DEF RemoveDbFile
  <2>2. dbFile'[k] = Missing \/ dbFile'[k] = dbFile[k]
    BY <1>1, <2>1 DEF ServerTypes
  <2> QED
    BY <1>1, <1>3, <2>2 DEF RemoveDbFile, Stored
<1>4. CASE RemoveChunksFile
  <2>1. PICK h : chunksFile' = [chunksFile EXCEPT ![h] = Missing]
    BY <1>4 DEF RemoveChunksFile
  <2>2. chunksFile'[k] = Missing \/ chunksFile'[k] = chunksFile[k]
    BY <1>1, <2>1 DEF ServerTypes
  <2> QED
    BY <1>1, <1>4, <2>2 DEF RemoveChunksFile, Stored
<1>5. CASE RenameDump
  <2>1. PICK h : h = creation.iterator
    OBVIOUS
  <2>2. h \in Heights /\ dump = Rows(h)
    BY <1>5, <2>1, InProgress, DumpComplete DEF RenameDump, SeenByIterator
  <2>3. DumpHeight(dump) = h
    BY <2>2, RowsExist
  <2>4. PICK d : d = dump
    OBVIOUS
  <2>5. dbFile' = [dbFile EXCEPT ![h] = d]
    BY <1>5, <2>3, <2>4 DEF RenameDump
  <2>6. dbFile'[k] = IF k = h THEN d ELSE dbFile[k]
    BY <1>1, <2>5 DEF ServerTypes
  <2>7. dbFile'[k] \in {Missing, Rows(k)}
    BY <1>1, <2>2, <2>4, <2>6 DEF Stored
  <2> QED
    BY <1>1, <1>5, <2>7 DEF RenameDump, Stored
<1>6. CASE WriteChunksFile
  <2>1. PICK h : h = creation.iterator
    OBVIOUS
  <2>2. h \in Heights /\ dump = Rows(h) /\ DumpHeight(dump) = h
    BY <1>6, <2>1, InProgress DEF WriteChunksFile
  <2>3. PICK d : d = [height |-> DumpHeight(dump), chunks |-> ChunksOf(DumpFiles(dump))]
    OBVIOUS
  <2>4. d = Description(h)
    BY <2>2, <2>3 DEF Description
  <2>5. chunksFile' = [chunksFile EXCEPT ![h] = d]
    BY <1>6, <2>2, <2>3 DEF WriteChunksFile
  <2>6. chunksFile'[k] = IF k = h THEN d ELSE chunksFile[k]
    BY <1>1, <2>5 DEF ServerTypes
  <2>7. chunksFile'[k] \in {Missing, Description(k)}
    BY <1>1, <2>4, <2>6 DEF Stored
  <2> QED
    BY <1>1, <1>6, <2>7 DEF WriteChunksFile, Stored
<1>7. CASE WriteJson
  <2>1. PICK h : h = creation.iterator
    OBVIOUS
  <2>2. h \in Heights /\ DumpHeight(dump) = h /\ chunksFile[h] = Description(h)
    BY <1>7, <2>1, InProgress DEF WriteJson
  <2>3. PICK n : n = Len(Description(h).chunks) + 1
    OBVIOUS
  <2>4. json' = [json EXCEPT ![h] = n]
    BY <1>7, <2>2, <2>3 DEF WriteJson
  <2>5. json'[k] = IF k = h THEN n ELSE json[k]
    BY <1>1, <2>4 DEF ServerTypes
  <2>6. json'[k] \in {Missing, Torn, Len(Description(k).chunks) + 1}
    BY <1>1, <2>3, <2>5 DEF Stored
  <2> QED
    BY <1>1, <1>7, <2>6 DEF WriteJson, Stored
<1>8. CASE ServerCrash
  <2>1. json'[k] = Torn \/ json'[k] = json[k]
    <3>1. CASE json' = json
      BY <3>1
    <3>2. CASE json' # json
      <4>1. PICK h : json' = [json EXCEPT ![h] = Torn]
        BY <1>8, <3>2 DEF ServerCrash
      <4> QED
        BY <1>1, <4>1 DEF ServerTypes
    <3> QED
      BY <3>1, <3>2
  <2> QED
    BY <1>1, <1>8, <2>1 DEF ServerCrash, Stored
<1>9. CASE UNCHANGED <<dbFile, chunksFile, json>>
  BY <1>1, <1>9 DEF Stored
<1>10. CASE CommitBlock \/ ReadList \/ StartCreation \/ DumpRow \/ UNCHANGED serving
  BY <1>9, <1>10 DEF CommitBlock, ReadList, StartCreation, DumpRow, serving
<1> QED
  BY <1>2, <1>3, <1>4, <1>5, <1>6, <1>7, <1>8, <1>10, ServerSteps

\* The files of a listed snapshot are removed only after its entry.
LEMMA CompleteKept ==
  ASSUME ServerInv, [Next]_vars, NEW k \in Listed'
  PROVE  Complete(k)'
<1>1. ServerTypes /\ k \in Heights
  BY DEF ServerInv, Listed
<1>2. CASE WriteJson /\ k = creation.iterator
  <2>1. dbFile[k] # Missing /\ chunksFile[k] # Missing
    BY <1>2, InProgress DEF WriteJson
  <2> QED
    BY <1>2, <2>1 DEF WriteJson, Complete
<1>3. CASE ~(WriteJson /\ k = creation.iterator)
  <2>1. k \in Listed
    BY <1>3, ListedNext
  <2>2. Complete(k)
    BY <2>1 DEF ServerInv, ServedFiles
  <2>3. CASE RemoveDbFile
    <3>1. PICK h : h = Last(clearList)
      OBVIOUS
    <3>2. h # k /\ dbFile' = [dbFile EXCEPT ![h] = Missing]
      BY <2>1, <2>3, <3>1 DEF RemoveDbFile, ServerInv, ClearUnderWay, Removing
    <3>3. dbFile'[k] = dbFile[k]
      BY <1>1, <3>2 DEF ServerTypes
    <3> QED
      BY <2>2, <2>3, <3>3 DEF RemoveDbFile, Complete
  <2>4. CASE RemoveChunksFile
    <3>1. PICK h : h = Last(clearList)
      OBVIOUS
    <3>2. h # k /\ chunksFile' = [chunksFile EXCEPT ![h] = Missing]
      BY <2>1, <2>4, <3>1 DEF RemoveChunksFile, ServerInv, ClearUnderWay, Removing
    <3>3. chunksFile'[k] = chunksFile[k]
      BY <1>1, <3>2 DEF ServerTypes
    <3> QED
      BY <2>2, <2>4, <3>3 DEF RemoveChunksFile, Complete
  <2>5. CASE RenameDump
    <3>1. PICK h : h = creation.iterator
      OBVIOUS
    <3>2. DumpHeight(dump) = h /\ h \notin Listed
      BY <2>5, <3>1, InProgress, DumpComplete, RowsExist DEF RenameDump, SeenByIterator
    <3>3. PICK d : dbFile' = [dbFile EXCEPT ![h] = d]
      BY <2>5, <3>2 DEF RenameDump
    <3>4. dbFile'[k] = dbFile[k]
      BY <1>1, <2>1, <3>2, <3>3 DEF ServerTypes
    <3> QED
      BY <2>2, <2>5, <3>4 DEF RenameDump, Complete
  <2>6. CASE WriteChunksFile
    <3>1. PICK h : h = creation.iterator
      OBVIOUS
    <3>2. DumpHeight(dump) = h /\ h \notin Listed
      BY <2>6, <3>1, InProgress DEF WriteChunksFile
    <3>3. PICK d : chunksFile' = [chunksFile EXCEPT ![h] = d]
      BY <2>6, <3>2 DEF WriteChunksFile
    <3>4. chunksFile'[k] = chunksFile[k]
      BY <1>1, <2>1, <3>2, <3>3 DEF ServerTypes
    <3> QED
      BY <2>2, <2>6, <3>4 DEF WriteChunksFile, Complete
  <2>7. CASE UNCHANGED <<dbFile, chunksFile>>
    BY <2>2, <2>7 DEF Complete
  <2>8. CASE CommitBlock \/ ReadList \/ RemoveJson \/ StartCreation \/ DumpRow \/ WriteJson
             \/ ServerCrash \/ UNCHANGED serving
    BY <2>7, <2>8 DEF CommitBlock, ReadList, RemoveJson, StartCreation, DumpRow, WriteJson,
       ServerCrash, serving
  <2> QED
    BY <2>3, <2>4, <2>5, <2>6, <2>8, ServerSteps
<1> QED
  BY <1>2, <1>3

LEMMA CreationKept ==
  ASSUME ServerInv, [Next]_vars
  PROVE  CreationUnderWay'
<1>1. ServerTypes /\ CreationUnderWay /\ ClearUnderWay
  BY DEF ServerInv
<1>2. height \in Nat /\ creation.iterator \in Nat
  BY <1>1, Constants DEF ServerTypes
<1>3. CASE CommitBlock
  <2>1. /\ height' = height + 1 /\ commitPc = "ready"
        /\ UNCHANGED <<clearList, creation, dump, dbFile, chunksFile, json>>
    BY <1>3 DEF CommitBlock
  <2>2. Listed' = Listed
    BY <2>1 DEF Listed
  <2>3. creation.pc # "off" => creation.iterator \in 1..height' /\ creation.iterator < height'
    BY <1>1, <1>2, <2>1 DEF CreationUnderWay
  <2> QED
    BY <1>1, <2>1, <2>2, <2>3 DEF CreationUnderWay
<1>4. CASE ReadList
  <2>1. /\ clearList' = Reverse(InOrder(Listed)) /\ commitPc = "list"
        /\ UNCHANGED <<height, creation, dump, dbFile, chunksFile, json>>
    BY <1>4 DEF ReadList
  <2>2. Listed' = Listed /\ ToSet(clearList') = Listed
    BY <2>1, ReadListed DEF Listed
  <2> QED
    BY <1>1, <2>1, <2>2 DEF CreationUnderWay
<1>5. CASE RemoveJson
  <2>1. Listed' \subseteq Listed
    BY <1>5, ListedNext DEF RemoveJson, WriteJson
  <2>2. UNCHANGED <<height, clearList, creation, dump, dbFile, chunksFile>> /\ commitPc # "ready"
    BY <1>5 DEF RemoveJson
  <2> QED
    BY <1>1, <2>1, <2>2 DEF CreationUnderWay
<1>6. CASE RemoveDbFile
  <2>1. PICK h : h = Last(clearList)
    OBVIOUS
  <2>2. /\ UNCHANGED <<height, clearList, creation, dump, chunksFile, json>> /\ commitPc = "removeDb"
        /\ dbFile' = [dbFile EXCEPT ![h] = Missing]
    BY <1>6, <2>1 DEF RemoveDbFile
  <2>3. Listed' = Listed
    BY <2>2 DEF Listed
  <2>4. h \in ToSet(clearList)
    BY <1>1, <2>1, <2>2, ClearedHeight DEF ClearUnderWay, Removing
  <2>5. creation.pc # "off" => creation.iterator # h /\ creation.iterator \in Heights
    <3>1. creation.pc # "off" => h < creation.iterator
      BY <1>1, <2>4 DEF CreationUnderWay
    <3> QED
      BY <1>2, <3>1, InProgress
  <2>6. creation.pc # "off" => dbFile'[creation.iterator] = dbFile[creation.iterator]
    BY <1>1, <2>2, <2>5 DEF ServerTypes
  <2> QED
    BY <1>1, <2>2, <2>3, <2>6 DEF CreationUnderWay
<1>7. CASE RemoveChunksFile
  <2>1. PICK h : h = Last(clearList)
    OBVIOUS
  <2>2. /\ UNCHANGED <<height, creation, dump, dbFile, json>> /\ commitPc = "removeChunks"
        /\ chunksFile' = [chunksFile EXCEPT ![h] = Missing] /\ clearList' = Front(clearList)
    BY <1>7, <2>1 DEF RemoveChunksFile
  <2>3. Listed' = Listed
    BY <2>2 DEF Listed
  <2>4. h \in ToSet(clearList) /\ ToSet(clearList') \subseteq ToSet(clearList)
    BY <1>1, <2>1, <2>2, ClearedHeight DEF ClearUnderWay, Removing
  <2>5. creation.pc # "off" => creation.iterator # h /\ creation.iterator \in Heights
    <3>1. creation.pc # "off" => h < creation.iterator
      BY <1>1, <2>4 DEF CreationUnderWay
    <3> QED
      BY <1>2, <3>1, InProgress
  <2>6. creation.pc # "off" => chunksFile'[creation.iterator] = chunksFile[creation.iterator]
    BY <1>1, <2>2, <2>5 DEF ServerTypes
  <2> QED
    BY <1>1, <2>2, <2>3, <2>4, <2>6 DEF CreationUnderWay
<1>8. CASE StartCreation
  <2>1. /\ UNCHANGED <<height, dbFile, chunksFile, json>> /\ commitPc # "ready" /\ commitPc' = "ready"
        /\ clearList' = <<>>
    BY <1>8 DEF StartCreation
  <2>2. Listed' = Listed
    BY <2>1 DEF Listed
  <2>3. ToSet(clearList') = {}
    <3>1. DOMAIN <<>> = {}
      OBVIOUS
    <3> QED
      BY <2>1, <3>1 DEF ToSet
  <2>4. CASE creation.pc = "off"
    <3>1. creation' = [pc |-> "dump", iterator |-> height] /\ dump' = <<>>
      BY <1>8, <2>4 DEF StartCreation
    <3>2. creation'.iterator = height /\ creation'.pc = "dump"
      BY <3>1
    <3>3. height \in 1..height /\ height \in Heights
      BY <1>1, <1>2, <2>1, Constants DEF ClearUnderWay, ServerTypes, Heights
    <3>4. \A h \in Listed : h < height
      BY <1>1, <2>1 DEF ClearUnderWay
    <3>5. Len(dump') = 0 /\ Len(Rows(height)) \in Nat
      BY <3>1, <3>3, RowsExist
    <3>6. Len(dump') <= Len(Rows(height)) /\ \A i \in 1..Len(dump') : dump'[i] = Rows(height)[i]
      BY <3>5
    <3> QED
      BY <2>1, <2>2, <2>3, <3>2, <3>3, <3>4, <3>6 DEF CreationUnderWay
  <2>5. CASE creation.pc # "off"
    <3>1. UNCHANGED <<creation, dump>>
      BY <1>8, <2>5 DEF StartCreation
    <3> QED
      BY <1>1, <2>1, <2>2, <2>3, <2>5, <3>1 DEF CreationUnderWay
  <2> QED
    BY <2>4, <2>5
<1>9. CASE DumpRow
  <2>1. PICK rows : rows = Rows(creation.iterator)
    OBVIOUS
  <2>2. /\ UNCHANGED <<height, commitPc, clearList, creation, dbFile, chunksFile, json>>
        /\ creation.pc = "dump" /\ Len(dump) < Len(rows)
        /\ dump' = Append(dump, rows[Len(dump) + 1])
    BY <1>9, <2>1 DEF DumpRow, SeenByIterator
  <2>3. Listed' = Listed
    BY <2>2 DEF Listed
  <2>4. rows \in Seq(RowSet) /\ dump \in Seq(RowSet)
    BY <1>1, <2>1, <2>2, InProgress, RowsExist DEF ServerTypes
  <2>5. \A i \in 1..Len(dump) : dump[i] = rows[i]
    BY <1>1, <2>1, <2>2 DEF CreationUnderWay
  <2>6. Len(dump') <= Len(rows) /\ \A i \in 1..Len(dump') : dump'[i] = rows[i]
    <3>1. rows[Len(dump) + 1] \in RowSet
      BY <2>2, <2>4
    <3>2. PICK n \in Nat : n = Len(dump)
      BY <2>4
    <3>3. /\ Len(dump') = n + 1 /\ dump'[n + 1] = rows[n + 1]
          /\ \A i \in 1..n : dump'[i] = dump[i]
      BY <2>2, <2>4, <3>1, <3>2
    <3>4. n + 1 <= Len(rows)
      BY <2>2, <2>4, <3>2
    <3>5. \A i \in 1..(n + 1) : i = n + 1 \/ i \in 1..n
      OBVIOUS
    <3> QED
      BY <2>5, <3>2, <3>3, <3>4, <3>5
  <2> QED
    BY <1>1, <2>1, <2>2, <2>3, <2>6 DEF CreationUnderWay
<1>10. CASE RenameDump
  <2>1. PICK h : h = creation.iterator
    OBVIOUS
  <2>2. h \in Heights /\ dump = Rows(h) /\ DumpHeight(dump) = h
    BY <1>10, <2>1, InProgress, DumpComplete, RowsExist DEF RenameDump, SeenByIterator
  <2>3. PICK d : d = dump
    OBVIOUS
  <2>4. /\ UNCHANGED <<height, commitPc, clearList, dump, chunksFile, json>>
        /\ creation.pc = "dump" /\ dbFile' = [dbFile EXCEPT ![h] = d]
        /\ creation' = [creation EXCEPT !.pc = "chunks"]
    BY <1>10, <2>2, <2>3 DEF RenameDump
  <2>5. Listed' = Listed
    BY <2>4 DEF Listed
  <2>6. creation'.pc = "chunks" /\ creation'.iterator = h
    BY <1>1, <2>1, <2>4 DEF ServerTypes
  <2>7. dbFile'[h] = Rows(h) /\ dump' = Rows(h)
    BY <1>1, <2>2, <2>3, <2>4 DEF ServerTypes
  <2> QED
    BY <1>1, <2>1, <2>4, <2>5, <2>6, <2>7 DEF CreationUnderWay
<1>11. CASE WriteChunksFile
  <2>1. PICK h : h = creation.iterator
    OBVIOUS
  <2>2. h \in Heights /\ dump = Rows(h) /\ DumpHeight(dump) = h
    BY <1>11, <2>1, InProgress DEF WriteChunksFile
  <2>3. PICK d : d = [height |-> DumpHeight(dump), chunks |-> ChunksOf(DumpFiles(dump))]
    OBVIOUS
  <2>4. d = Description(h)
    BY <2>2, <2>3 DEF Description
  <2>5. /\ UNCHANGED <<height, commitPc, clearList, dump, dbFile, json>>
        /\ creation.pc = "chunks" /\ chunksFile' = [chunksFile EXCEPT ![h] = d]
        /\ creation' = [creation EXCEPT !.pc = "json"]
    BY <1>11, <2>2, <2>3 DEF WriteChunksFile
  <2>6. Listed' = Listed
    BY <2>5 DEF Listed
  <2>7. creation'.pc = "json" /\ creation'.iterator = h
    BY <1>1, <2>1, <2>5 DEF ServerTypes
  <2>8. chunksFile'[h] = Description(h)
    BY <1>1, <2>2, <2>4, <2>5 DEF ServerTypes
  <2> QED
    BY <1>1, <2>1, <2>5, <2>6, <2>7, <2>8 DEF CreationUnderWay
<1>12. CASE WriteJson
  <2>1. creation'.pc = "off"
    BY <1>1, <1>12 DEF WriteJson, ServerTypes
  <2> QED
    BY <2>1 DEF CreationUnderWay
<1>13. CASE ServerCrash
  <2>1. creation'.pc = "off"
    BY <1>13 DEF ServerCrash
  <2> QED
    BY <2>1 DEF CreationUnderWay
<1>14. CASE UNCHANGED serving
  <2>1. Listed' = Listed
    BY <1>14 DEF Listed, serving
  <2> QED
    BY <1>1, <1>14, <2>1 DEF CreationUnderWay, serving
<1> QED
  BY <1>3, <1>4, <1>5, <1>6, <1>7, <1>8, <1>9, <1>10, <1>11, <1>12, <1>13, <1>14, ServerSteps

LEMMA ClearKept ==
  ASSUME ServerInv, [Next]_vars
  PROVE  ClearUnderWay'
<1>1. ServerTypes /\ ClearUnderWay /\ height \in Nat
  BY Constants DEF ServerInv, ServerTypes
<1>2. Listed \subseteq Nat
  BY ListedHeights
<1>3. CASE CommitBlock
  <2>1. height' = height + 1 /\ commitPc = "ready" /\ UNCHANGED <<clearList, json>>
    BY <1>3 DEF CommitBlock
  <2>2. Listed' = Listed /\ clearList' = <<>>
    BY <1>1, <2>1 DEF Listed, ClearUnderWay
  <2>3. commitPc' \in {"list", "ready"}
    BY <1>3 DEF CommitBlock
  <2>4. \A h \in Listed : h <= height' /\ h < height'
    BY <1>1, <1>2, <2>1 DEF ClearUnderWay
  <2> QED
    BY <1>1, <2>1, <2>2, <2>3, <2>4 DEF ClearUnderWay, Removing
<1>4. CASE ReadList
  <2>1. UNCHANGED <<height, json>> /\ commitPc = "list" /\ commitPc' = "clear"
    BY <1>4 DEF ReadList
  <2>2. Listed' = Listed
    BY <2>1 DEF Listed
  <2> QED
    BY <1>1, <2>1, <2>2 DEF ClearUnderWay, Removing
<1>5. CASE RemoveJson
  <2>1. Listed' \subseteq Listed /\ Last(clearList) \notin Listed'
    BY <1>5, ListedNext DEF RemoveJson, WriteJson
  <2>2. /\ UNCHANGED <<height, clearList>> /\ commitPc = "clear" /\ commitPc' = "removeDb"
        /\ clearList # <<>>
    BY <1>5 DEF RemoveJson
  <2> QED
    BY <1>1, <2>1, <2>2 DEF ClearUnderWay, Removing
<1>6. CASE RemoveDbFile
  <2>1. UNCHANGED <<height, clearList, json>> /\ commitPc = "removeDb" /\ commitPc' = "removeChunks"
    BY <1>6 DEF RemoveDbFile
  <2>2. Listed' = Listed
    BY <2>1 DEF Listed
  <2> QED
    BY <1>1, <2>1, <2>2 DEF ClearUnderWay, Removing
<1>7. CASE RemoveChunksFile
  <2>1. UNCHANGED <<height, json>> /\ commitPc = "removeChunks" /\ commitPc' = "clear"
    BY <1>7 DEF RemoveChunksFile
  <2>2. Listed' = Listed
    BY <2>1 DEF Listed
  <2> QED
    BY <1>1, <2>1, <2>2 DEF ClearUnderWay, Removing
<1>8. CASE StartCreation
  <2>1. UNCHANGED <<height, json>> /\ commitPc # "ready" /\ commitPc' = "ready" /\ clearList' = <<>>
    BY <1>8 DEF StartCreation
  <2>2. Listed' = Listed
    BY <2>1 DEF Listed
  <2> QED
    BY <1>1, <2>1, <2>2 DEF ClearUnderWay, Removing
<1>9. CASE WriteJson
  <2>1. PICK i : i = creation.iterator
    OBVIOUS
  <2>2. UNCHANGED <<height, commitPc, clearList>> /\ creation.pc # "off"
    BY <1>9 DEF WriteJson
  <2>3. Listed' \subseteq Listed \cup {i}
    BY <2>1, ListedNext
  <2>4. i \in 1..height /\ (commitPc # "ready" => i < height)
    BY <2>1, <2>2 DEF ServerInv, CreationUnderWay
  <2>5. \A h \in Listed' : h <= height /\ (commitPc # "ready" => h < height)
    BY <1>1, <2>3, <2>4 DEF ClearUnderWay
  <2>6. Removing => Last(clearList) # i
    <3> SUFFICES ASSUME Removing PROVE Last(clearList) # i
      OBVIOUS
    <3>1. Last(clearList) \in ToSet(clearList)
      BY <1>1, ClearedHeight DEF ClearUnderWay
    <3>2. Last(clearList) < i
      BY <2>1, <2>2, <3>1 DEF ServerInv, CreationUnderWay
    <3> QED
      BY <1>1, <2>4, <3>2
  <2> QED
    BY <1>1, <2>2, <2>3, <2>5, <2>6 DEF ClearUnderWay, Removing
<1>10. CASE ServerCrash
  <2>1. UNCHANGED height /\ commitPc' = "ready" /\ clearList' = <<>>
    BY <1>10 DEF ServerCrash
  <2>2. Listed' \subseteq Listed
    BY <1>1, <1>10, CrashedList
  <2> QED
    BY <1>1, <2>1, <2>2 DEF ClearUnderWay, Removing
<1>11. CASE UNCHANGED <<height, commitPc, clearList, json>>
  <2>1. Listed' = Listed
    BY <1>11 DEF Listed
  <2> QED
    BY <1>1, <1>11, <2>1 DEF ClearUnderWay, Removing
<1>12. CASE DumpRow \/ RenameDump \/ WriteChunksFile \/ UNCHANGED serving
  BY <1>11, <1>12 DEF DumpRow, RenameDump, WriteChunksFile, serving
<1> QED
  BY <1>3, <1>4, <1>5, <1>6, <1>7, <1>8, <1>9, <1>10, <1>12, ServerSteps

LEMMA CountedKept ==
  ASSUME ServerInv, [Next]_vars
  PROVE  Counted'
<1>1. ServerTypes /\ ClearUnderWay /\ Counted
  BY DEF ServerInv
<1>2. /\ Cardinality(Listed) \in Nat /\ MaxSnapshots \in Nat
      /\ \A S : S \subseteq Listed => IsFiniteSet(S) /\ Cardinality(S) <= Cardinality(Listed)
      /\ \A S : S \subseteq Listed => Cardinality(S) \in Nat
  BY ListedHeights, Constants, FS_Subset, FS_CardinalityType
<1> DEFINE Most(pc) == IF pc = "off" THEN MaxSnapshots + 1 ELSE MaxSnapshots
<1>3. Cardinality(Listed) <= Most(creation.pc)
  BY <1>1 DEF Counted
<1>4. CASE CommitBlock
  <2>1. UNCHANGED <<creation, json>> /\ commitPc' \in {"list", "ready"}
    BY <1>4 DEF CommitBlock
  <2>2. Listed' = Listed
    BY <2>1 DEF Listed
  <2> QED
    BY <1>3, <2>1, <2>2 DEF Counted
<1>5. CASE ReadList
  <2>1. /\ UNCHANGED <<creation, json>> /\ commitPc = "list" /\ commitPc' = "clear"
        /\ clearList' = Reverse(InOrder(Listed))
    BY <1>5 DEF ReadList
  <2>2. Listed' = Listed
    BY <2>1 DEF Listed
  <2>3. ToSet(clearList') = Listed
    BY <2>1, ReadListed
  <2>4. Considered' = Listed
    BY <2>1, <2>3 DEF Considered, Removing
  <2>5. \E h : h \in Heights
    <3>1. height \in Heights
      BY <1>1, <2>1, Constants DEF ClearUnderWay, ServerTypes, Heights
    <3> QED
      BY <3>1
  <2> QED
    BY <1>3, <2>1, <2>2, <2>4, <2>5 DEF Counted
<1>6. CASE RemoveJson
  <2>1. PICK h : h = Last(clearList)
    OBVIOUS
  <2>2. Listed' \subseteq Listed /\ h \notin Listed'
    BY <1>6, <2>1, ListedNext DEF RemoveJson, WriteJson
  <2>3. /\ UNCHANGED <<creation, clearList>> /\ commitPc = "clear" /\ commitPc' = "removeDb"
        /\ clearList # <<>>
    BY <1>6 DEF RemoveJson
  <2>4. Considered \subseteq Considered' \cup {h}
    <3>1. Considered = ToSet(clearList) /\ Considered' = ToSet(Front(clearList))
      BY <2>3 DEF Considered, Removing
    <3> QED
      BY <2>1, <2>3, <3>1, ClearedHeight
  <2>5. Cardinality(Listed') <= Most(creation'.pc)
    BY <1>2, <1>3, <2>2, <2>3
  <2>6. \E k \in Heights : Listed' \subseteq Considered' \cup {k}
    <3>1. PICK k \in Heights : Listed \subseteq Considered \cup {k}
      BY <1>1, <2>3 DEF Counted
    <3> QED
      BY <2>2, <2>4, <3>1
  <2>7. creation'.pc # "off" => Listed' \subseteq Considered'
    BY <1>1, <2>2, <2>3, <2>4 DEF Counted
  <2> QED
    BY <2>5, <2>6, <2>7 DEF Counted
<1>7. CASE RemoveDbFile
  <2>1. /\ UNCHANGED <<creation, json, clearList>> /\ commitPc = "removeDb"
        /\ commitPc' = "removeChunks"
    BY <1>7 DEF RemoveDbFile
  <2>2. Listed' = Listed
    BY <2>1 DEF Listed
  <2>3. Considered' = Considered
    BY <2>1 DEF Considered, Removing
  <2> QED
    BY <1>1, <2>1, <2>2, <2>3 DEF Counted
<1>8. CASE RemoveChunksFile
  <2>1. /\ UNCHANGED <<creation, json>> /\ commitPc = "removeChunks" /\ commitPc' = "clear"
        /\ clearList' = Front(clearList)
    BY <1>8 DEF RemoveChunksFile
  <2>2. Listed' = Listed
    BY <2>1 DEF Listed
  <2>3. Considered' = Considered
    BY <2>1 DEF Considered, Removing
  <2> QED
    BY <1>1, <2>1, <2>2, <2>3 DEF Counted
<1>9. CASE StartCreation
  <2>1. UNCHANGED json /\ commitPc = "clear" /\ commitPc' = "ready" /\ ~ClearGoesOn
    BY <1>9 DEF StartCreation
  <2>2. Listed' = Listed
    BY <2>1 DEF Listed
  <2>3. CASE creation.pc = "off"
    <3>1. PICK h \in Heights : Listed \subseteq ToSet(clearList) \cup {h}
      BY <1>1, <2>1 DEF Counted, Considered, Removing
    <3>2. /\ IsFiniteSet(ToSet(clearList)) /\ Cardinality(ToSet(clearList)) <= Len(clearList)
          /\ Len(clearList) \in Nat
      BY <1>1, FewElements DEF ServerTypes
    <3>3. Len(clearList) <= MaxSnapshots - 1
      BY <1>2, <2>1, <3>2 DEF ClearGoesOn
    <3>4. PICK T : T = ToSet(clearList)
      OBVIOUS
    <3>5. PICK c \in Nat : c = Cardinality(T)
      BY <3>2, <3>4, FS_CardinalityType
    <3>6. IsFiniteSet(T \cup {h}) /\ Cardinality(T \cup {h}) \in Nat /\ Cardinality(T \cup {h}) <= c + 1
      <4>1. /\ IsFiniteSet(T \cup {h})
            /\ Cardinality(T \cup {h}) = IF h \in T THEN Cardinality(T) ELSE Cardinality(T) + 1
        BY <3>2, <3>4, FS_AddElement
      <4> QED
        BY <3>5, <4>1
    <3>7. Cardinality(Listed) <= Cardinality(T \cup {h})
      BY <3>1, <3>4, <3>6, FS_Subset
    <3>8. c <= MaxSnapshots - 1
      BY <1>2, <3>2, <3>3, <3>4, <3>5
    <3>9. Cardinality(Listed) <= MaxSnapshots
      <4>1. PICK a \in Nat : a = Cardinality(Listed)
        BY <1>2
      <4>2. PICK b \in Nat : b = Cardinality(T \cup {h})
        BY <3>6
      <4>3. a <= b /\ b <= c + 1
        BY <3>6, <3>7, <4>1, <4>2
      <4>4. a <= MaxSnapshots
        BY <1>2, <3>8, <4>3
      <4> QED
        BY <4>1, <4>4
    <3>10. Cardinality(Listed) <= MaxSnapshots + 1
      BY <1>2, <3>9
    <3> QED
      BY <2>1, <2>2, <3>9, <3>10 DEF Counted
  <2>4. CASE creation.pc # "off"
    <3>1. UNCHANGED creation
      BY <1>9, <2>4 DEF StartCreation
    <3> QED
      BY <1>3, <2>1, <2>2, <3>1 DEF Counted
  <2> QED
    BY <2>3, <2>4
<1>10. CASE WriteJson
  <2>1. PICK i : i = creation.iterator
    OBVIOUS
  <2>2. UNCHANGED <<commitPc, clearList>> /\ creation.pc = "json" /\ creation'.pc = "off"
    BY <1>1, <1>10 DEF WriteJson, ServerTypes
  <2>3. Listed' \subseteq Listed \cup {i} /\ i \in Heights
    BY <2>1, <2>2, ListedNext, InProgress
  <2>4. Cardinality(Listed') <= MaxSnapshots + 1
    <3>1. PICK L : L = Listed
      OBVIOUS
    <3>2. IsFiniteSet(L) /\ Cardinality(L) \in Nat /\ Cardinality(L) <= MaxSnapshots
      BY <1>2, <1>3, <2>2, <3>1, ListedHeights
    <3>3. /\ IsFiniteSet(L \cup {i})
          /\ Cardinality(L \cup {i}) = IF i \in L THEN Cardinality(L) ELSE Cardinality(L) + 1
      BY <3>2, FS_AddElement
    <3>4. Cardinality(L \cup {i}) <= MaxSnapshots + 1
      BY <1>2, <3>2, <3>3
    <3>5. PICK M : M = Listed'
      OBVIOUS
    <3>6. IsFiniteSet(M) /\ Cardinality(M) <= Cardinality(L \cup {i})
      BY <2>3, <3>1, <3>3, <3>5, FS_Subset
    <3>7. Cardinality(M) \in Nat /\ Cardinality(L \cup {i}) \in Nat
      BY <3>3, <3>6, FS_CardinalityType
    <3>8. Cardinality(M) <= MaxSnapshots + 1
      BY <1>2, <3>4, <3>6, <3>7
    <3> QED
      BY <3>5, <3>8
  <2>5. Considered' = Considered
    BY <2>2 DEF Considered, Removing
  <2>6. commitPc \in {"clear", "removeDb", "removeChunks"} => Listed' \subseteq Considered \cup {i}
    BY <1>1, <2>2, <2>3 DEF Counted
  <2> QED
    BY <2>2, <2>3, <2>4, <2>5, <2>6 DEF Counted
<1>11. CASE ServerCrash
  <2>1. commitPc' = "ready" /\ creation'.pc = "off"
    BY <1>11 DEF ServerCrash
  <2>2. Listed' \subseteq Listed
    BY <1>1, <1>11, CrashedList
  <2>3. Cardinality(Listed') <= MaxSnapshots + 1
    <3>1. PICK M : M = Listed'
      OBVIOUS
    <3>2. PICK a \in Nat : a = Cardinality(M)
      BY <1>2, <2>2, <3>1
    <3>3. PICK b \in Nat : b = Cardinality(Listed)
      BY <1>2
    <3>4. a <= b
      BY <1>2, <2>2, <3>1, <3>2, <3>3
    <3>5. b <= MaxSnapshots + 1
      BY <1>2, <1>3, <3>3
    <3>6. a <= MaxSnapshots + 1
      BY <1>2, <3>4, <3>5
    <3> QED
      BY <3>1, <3>2, <3>6
  <2> QED
    BY <2>1, <2>3 DEF Counted
<1>12. CASE UNCHANGED <<commitPc, clearList, json>> /\ (creation.pc = "off" <=> creation'.pc = "off")
  <2>1. Listed' = Listed /\ Considered' = Considered
    BY <1>12 DEF Listed, Considered, Removing
  <2> QED
    BY <1>1, <1>12, <2>1 DEF Counted
<1>13. CASE DumpRow
  BY <1>12, <1>13 DEF DumpRow
<1>14. CASE RenameDump
  <2>1. creation.pc = "dump" /\ creation'.pc = "chunks"
    BY <1>1, <1>14 DEF RenameDump, ServerTypes
  <2> QED
    BY <1>12, <1>14, <2>1 DEF RenameDump
<1>15. CASE WriteChunksFile
  <2>1. creation.pc = "chunks" /\ creation'.pc = "json"
    BY <1>1, <1>15 DEF WriteChunksFile, ServerTypes
  <2> QED
    BY <1>12, <1>15, <2>1 DEF WriteChunksFile
<1>16. CASE UNCHANGED serving
  BY <1>12, <1>16 DEF serving
<1> QED
  BY <1>4, <1>5, <1>6, <1>7, <1>8, <1>9, <1>10, <1>11, <1>13, <1>14, <1>15, <1>16, ServerSteps

LEMMA ServerStep ==
  ASSUME ServerInv, [Next]_vars
  PROVE  ServerInv'
<1>1. ServedFiles'
  <2>1. \A h \in Heights : Stored(h)'
    BY StoredKept
  <2>2. \A h \in Listed' : Complete(h)'
    BY CompleteKept
  <2> QED
    BY <2>1, <2>2 DEF ServedFiles
<1> QED
  BY <1>1, ServerTypesKept, CreationKept, ClearKept, CountedKept DEF ServerInv

\* The serving node keeps its invariant.
THEOREM ServerSafe == Spec => []ServerInv
<1>1. Init => ServerInv
  BY ServerInit
<1>2. ServerInv /\ [Next]_vars => ServerInv'
  BY ServerStep
<1> QED
  BY <1>1, <1>2, PTL DEF Spec

\* There is at most one listed snapshot more than max_snapshots, which is the one that
\* clear(max - 1) did not see because it was still in progress: for every max_snapshots,
\* every rate of blocks and snapshots, and across crashes in either clear() or create().
THEOREM OneExtraAtMost == Spec => []AtMostOneExtra
<1>1. ServerInv => AtMostOneExtra
  <2> SUFFICES ASSUME ServerInv PROVE AtMostOneExtra
    OBVIOUS
  <2>1. Cardinality(Listed) \in Nat /\ MaxSnapshots \in Nat
    BY ListedHeights, Constants, FS_CardinalityType
  <2>2. Cardinality(Listed) <= IF creation.pc = "off" THEN MaxSnapshots + 1 ELSE MaxSnapshots
    BY DEF ServerInv, Counted
  <2> QED
    BY <2>1, <2>2 DEF AtMostOneExtra
<1> QED
  BY <1>1, ServerSafe, PTL

\* Every snapshot that ListSnapshots offers can be served: its dump is the database at its
\* height, and its chunks tile the dump and the committed part of every data file, for
\* every distribution of the blocks over the files and every size of a chunk.
THEOREM ListedAreComplete == Spec => []ListedComplete
<1>1. ServerInv => ListedComplete
  <2> SUFFICES ASSUME ServerInv, NEW h \in Listed
               PROVE  /\ dbFile[h] = Rows(h)
                      /\ chunksFile[h] # Missing
                      /\ chunksFile[h].height = h
                      /\ json[h] = Len(chunksFile[h].chunks) + 1
                      /\ Tiled(chunksFile[h].chunks, DbFileIdentifier, Len(Rows(h)))
                      /\ \A f \in FilesUpTo(h) :
                           Tiled(chunksFile[h].chunks, f, Len(Bytes(f, h)))
                      /\ \A i \in 1..Len(chunksFile[h].chunks) :
                           UnitsIn(chunksFile[h].chunks[i]) <= ChunkSize
    BY DEF ListedComplete
  <2>1. h \in Heights /\ json[h] # Missing /\ json[h] # Torn
    BY DEF Listed
  <2>2. Stored(h) /\ Complete(h)
    BY <2>1 DEF ServerInv, ServedFiles
  <2>3. /\ dbFile[h] = Rows(h) /\ chunksFile[h] = Description(h)
        /\ json[h] = Len(Description(h).chunks) + 1
    BY <2>1, <2>2 DEF Stored, Complete
  <2>4. IsCutOf(Description(h).chunks, h) /\ Description(h).height = h /\ Description(h) # Missing
    BY <2>1, DescriptionCut
  <2>5. Tiled(Description(h).chunks, DbFileIdentifier, Len(Rows(h)))
    BY <2>4 DEF IsCutOf, SnapshotFiles, Content
  <2>6. ASSUME NEW f \in FilesUpTo(h) PROVE Tiled(Description(h).chunks, f, Len(Bytes(f, h)))
    <3>1. f # DbFileIdentifier
      BY <2>1, <2>6, FilesUpToTypes
    <3>2. Content(f, h) = Bytes(f, h)
      BY <3>1 DEF Content
    <3> QED
      BY <2>4, <2>6, <3>2 DEF IsCutOf, SnapshotFiles
  <2> QED
    BY <2>3, <2>4, <2>5, <2>6 DEF IsCutOf
<1> QED
  BY <1>1, ServerSafe, PTL

------------------------------------------------------------------------------
(* Contents of chunks *)

Units == RowSet \cup Heights

LEMMA ContentUnits ==
  ASSUME NEW h \in Heights, NEW f
  PROVE  /\ Content(f, h) \in Seq(Units) /\ Len(Content(f, h)) \in Nat
         /\ f # DbFileIdentifier => Content(f, h) \in Seq(Heights)
         /\ f = DbFileIdentifier => Content(f, h) \in Seq(RowSet)
<1>1. Heights \subseteq Units /\ RowSet \subseteq Units
  BY DEF Units
<1>2. f = DbFileIdentifier => Content(f, h) \in Seq(RowSet)
  BY RowsExist DEF Content
<1>3. f # DbFileIdentifier => Content(f, h) \in Seq(Heights)
  BY BytesGrow, Constants DEF Content
<1>4. Content(f, h) \in Seq(Units)
  BY <1>1, <1>2, <1>3, SeqMonotonic
<1>5. Len(Content(f, h)) \in Nat
  BY <1>4
<1> QED
  BY <1>2, <1>3, <1>4, <1>5

\* t is the part of s that begins after the first offset units.
IsPart(t, s, offset, size) ==
  /\ t \in Seq(Units) /\ Len(t) = size
  /\ \A i \in 1..size : t[i] = s[offset + i]

LEMMA PartOfSequence ==
  ASSUME NEW s \in Seq(Units), NEW offset \in Nat, NEW size \in Nat, offset + size <= Len(s),
         NEW t, t = SubSeq(s, offset + 1, offset + size)
  PROVE  IsPart(t, s, offset, size)
<1>1. PICK m \in Nat : m = offset + 1
  OBVIOUS
<1>2. PICK n \in Nat : n = offset + size
  OBVIOUS
<1>3. \A i \in m..n : s[i] \in Units
  BY <1>1, <1>2
<1>4. /\ t \in Seq(Units) /\ Len(t) = (IF m <= n THEN n - m + 1 ELSE 0)
      /\ \A i \in 1..(n - m + 1) : t[i] = s[m + i - 1]
  BY <1>1, <1>2, <1>3, SubSeqProperties
<1>5. n - m + 1 = size /\ (m <= n <=> size >= 1)
  BY <1>1, <1>2
<1>6. \A i \in 1..size : m + i - 1 = offset + i
  BY <1>1
<1>7. Len(t) = size
  <2>1. CASE m <= n
    BY <1>4, <1>5, <2>1
  <2>2. CASE ~(m <= n)
    BY <1>4, <1>5, <2>2
  <2> QED
    BY <2>1, <2>2
<1>8. ASSUME NEW i \in 1..size PROVE t[i] = s[offset + i]
  <2>1. i \in 1..(n - m + 1)
    BY <1>5
  <2>2. t[i] = s[m + i - 1]
    BY <1>4, <2>1
  <2>3. m + i - 1 = offset + i
    BY <1>6
  <2> QED
    BY <2>2, <2>3
<1> QED
  BY <1>4, <1>7, <1>8 DEF IsPart

LEMMA SamePart ==
  ASSUME NEW s, NEW offset, NEW size, NEW t, IsPart(t, s, offset, size),
         NEW u, IsPart(u, s, offset, size)
  PROVE  t = u
<1>1. /\ t \in Seq(Units) /\ u \in Seq(Units) /\ Len(t) = Len(u)
      /\ \A i \in 1..Len(t) : t[i] = u[i]
  BY DEF IsPart
<1> QED
  BY <1>1, SeqEqual

\* The units of record r are at position start.
HasRecord(units, r, start, h) ==
  \A i \in 1..r.size : units[start + i] = Content(r.file, h)[r.offset + i]

\* The units are those of the records of the chunk after the first up to the last.
Starts(at, units, chunk, first, last, h) ==
  /\ at \in [first..last -> Nat]
  /\ at[first] = 0 /\ at[last] = Len(units)
  /\ \A j, k \in first..last : j <= k => at[j] <= at[k]
  /\ \A k \in first..(last - 1) : /\ at[k + 1] = at[k] + chunk[k + 1].size
                                  /\ HasRecord(units, chunk[k + 1], at[k], h)
Carries(units, chunk, first, last, h) ==
  /\ units \in Seq(Units)
  /\ \E at : Starts(at, units, chunk, first, last, h)

LEMMA CarriesNothing ==
  ASSUME NEW chunk, NEW h
  PROVE  Carries(<<>>, chunk, 0, 0, h)
<1>1. PICK at : at = [k \in 0..0 |-> 0]
  OBVIOUS
<1>2. \A k \in 0..0 : k = 0
  OBVIOUS
<1>3. 0 \in 0..0 /\ 0 \in Nat /\ ~\E k : k \in 0..(0 - 1)
  OBVIOUS
<1>4. at \in [0..0 -> Nat] /\ at[0] = 0
  BY <1>1, <1>3
<1>5. Len(<<>>) = 0 /\ <<>> \in Seq(Units)
  OBVIOUS
<1>6. \A j, k \in 0..0 : at[j] <= at[k]
  BY <1>2, <1>4
<1>7. at[0] = Len(<<>>)
  BY <1>4, <1>5
<1>8. Starts(at, <<>>, chunk, 0, 0, h)
  BY <1>3, <1>4, <1>6, <1>7 DEF Starts
<1> QED
  BY <1>5, <1>8 DEF Carries

\* The sequence c is a of length m, then b of length n.
Joins(c, a, m, b, n) ==
  /\ c \in Seq(Units) /\ Len(c) = m + n
  /\ \A i \in 1..(m + n) : c[i] = IF i <= m THEN a[i] ELSE b[i - m]

LEMMA JoinedSequence ==
  ASSUME NEW a, a \in Seq(Units), NEW b, b \in Seq(Units), NEW m, m = Len(a), NEW n, n = Len(b),
         NEW c, c = a \o b
  PROVE  Joins(c, a, m, b, n)
BY ConcatProperties DEF Joins

LEMMA CarriesMore ==
  ASSUME NEW h \in Heights, NEW chunk \in Seq(Records), NEW n \in Nat, n < Len(chunk),
         NEW r, r = chunk[n + 1], EndOf(r) <= Len(Content(r.file, h)),
         NEW units, Carries(units, chunk, 0, n, h),
         NEW part, IsPart(part, Content(r.file, h), r.offset, r.size),
         NEW more, more = units \o part
  PROVE  Carries(more, chunk, 0, n + 1, h)
<1>1. PICK at : Starts(at, units, chunk, 0, n, h)
  BY DEF Carries
<1>2. PICK size \in Nat : size = r.size
  <2>1. r \in Records
    OBVIOUS
  <2> QED
    BY <2>1, RecordFields
<1>3. PICK len \in Nat : len = Len(units)
  BY DEF Carries
<1>4. /\ more \in Seq(Units) /\ Len(more) = len + size
      /\ \A i \in 1..len : more[i] = units[i]
      /\ \A i \in 1..size : more[len + i] = part[i]
  <2>1. units \in Seq(Units) /\ part \in Seq(Units) /\ Len(part) = size
    BY <1>2 DEF Carries, IsPart
  <2>2. /\ more \in Seq(Units) /\ Len(more) = len + size
        /\ \A i \in 1..(len + size) : more[i] = IF i <= len THEN units[i] ELSE part[i - len]
    <3>1. Joins(more, units, len, part, size)
      BY <1>3, <2>1, JoinedSequence
    <3> QED
      BY <3>1 DEF Joins
  <2>3. \A i \in 1..len : i \in 1..(len + size) /\ i <= len
    OBVIOUS
  <2>4. \A i \in 1..size : len + i \in 1..(len + size) /\ ~(len + i <= len) /\ (len + i) - len = i
    OBVIOUS
  <2> QED
    BY <2>2, <2>3, <2>4
<1>5. /\ at \in [0..n -> Nat] /\ at[0] = 0 /\ at[n] = len
      /\ \A j, k \in 0..n : j <= k => at[j] <= at[k]
      /\ \A k \in 0..(n - 1) : /\ at[k + 1] = at[k] + chunk[k + 1].size
                               /\ HasRecord(units, chunk[k + 1], at[k], h)
  BY <1>1, <1>3 DEF Starts
<1>6. PICK new : new = [k \in 0..(n + 1) |-> IF k = n + 1 THEN len + size ELSE at[k]]
  OBVIOUS
<1>7. \A k \in 0..(n + 1) : k = n + 1 \/ k \in 0..n
  OBVIOUS
<1>8. \A k \in 0..n : k \in 0..(n + 1) /\ k # n + 1 /\ new[k] = at[k] /\ at[k] \in Nat /\ at[k] <= len
  <2>1. \A k \in 0..n : k \in 0..(n + 1) /\ k # n + 1 /\ k <= n
    OBVIOUS
  <2>2. \A k \in 0..n : new[k] = at[k]
    BY <1>6, <2>1
  <2>3. n \in 0..n
    OBVIOUS
  <2> QED
    BY <1>5, <2>1, <2>2, <2>3
<1>9. new[n + 1] = len + size
  BY <1>6
<1>10. new \in [0..(n + 1) -> Nat]
  <2>1. len + size \in Nat
    OBVIOUS
  <2>2. \A k \in 0..n : new[k] \in Nat
    BY <1>8
  <2>3. new[n + 1] \in Nat
    BY <1>9, <2>1
  <2>4. \A k \in 0..(n + 1) : new[k] \in Nat
    BY <1>7, <2>2, <2>3
  <2> QED
    BY <1>6, <2>4
<1>11. new[0] = 0 /\ new[n + 1] = Len(more)
  <2>1. 0 \in 0..n
    OBVIOUS
  <2> QED
    BY <1>4, <1>5, <1>8, <1>9, <2>1
<1>12. ASSUME NEW j \in 0..(n + 1), NEW k \in 0..(n + 1), j <= k PROVE new[j] <= new[k]
  <2>1. CASE k = n + 1
    <3>1. new[k] = len + size
      BY <1>9, <2>1
    <3>2. CASE j = n + 1
      BY <1>9, <3>1, <3>2
    <3>3. CASE j \in 0..n
      <4>1. new[j] \in Nat /\ new[j] <= len
        BY <1>8, <3>3
      <4> QED
        BY <3>1, <4>1
    <3> QED
      BY <1>7, <3>2, <3>3
  <2>2. CASE k \in 0..n
    <3>1. j \in 0..n
      BY <1>12, <2>2
    <3> QED
      BY <1>5, <1>8, <1>12, <2>2, <3>1
  <2> QED
    BY <1>7, <2>1, <2>2
<1>13. ASSUME NEW k \in 0..((n + 1) - 1)
       PROVE  /\ new[k + 1] = new[k] + chunk[k + 1].size
              /\ HasRecord(more, chunk[k + 1], new[k], h)
  <2>1. CASE k = n
    <3>1. n \in 0..n
      OBVIOUS
    <3>2. new[k] = len /\ chunk[k + 1] = r
      BY <1>5, <1>8, <2>1, <3>1
    <3>3. \A i \in 1..size : more[len + i] = Content(r.file, h)[r.offset + i]
      BY <1>2, <1>4 DEF IsPart
    <3>4. HasRecord(more, r, len, h)
      BY <1>2, <3>3 DEF HasRecord
    <3> QED
      BY <1>2, <1>9, <2>1, <3>2, <3>4
  <2>2. CASE k # n
    <3>1. k \in 0..(n - 1) /\ k \in 0..n /\ k + 1 \in 0..n
      BY <2>2
    <3>2. PICK q : q = chunk[k + 1]
      OBVIOUS
    <3>3. q \in Records
      <4>1. k + 1 \in 1..Len(chunk)
        BY <3>1
      <4> QED
        BY <3>2, <4>1
    <3>4. /\ new[k] = at[k] /\ new[k + 1] = at[k + 1] /\ at[k + 1] = at[k] + q.size
          /\ HasRecord(units, q, at[k], h) /\ at[k + 1] <= len /\ at[k] \in Nat /\ q.size \in Nat
      BY <1>5, <1>8, <3>1, <3>2, <3>3, RecordFields
    <3>5. \A i \in 1..q.size : at[k] + i \in 1..len
      <4>1. PICK x, y : x = at[k] /\ y = q.size
        OBVIOUS
      <4>2. x \in Nat /\ y \in Nat /\ x + y <= len
        BY <3>4, <4>1
      <4>3. \A i \in 1..y : x + i \in 1..len
        BY <4>2
      <4> QED
        BY <4>1, <4>3
    <3>6. HasRecord(more, q, at[k], h)
      BY <1>4, <3>4, <3>5 DEF HasRecord
    <3> QED
      BY <3>2, <3>4, <3>6
  <2> QED
    BY <2>1, <2>2
<1>14. Starts(new, more, chunk, 0, n + 1, h)
  BY <1>10, <1>11, <1>12, <1>13 DEF Starts
<1> QED
  BY <1>4, <1>14 DEF Carries

\* What is written first, and what is left.
LEMMA CarriesLess ==
  ASSUME NEW h \in Heights, NEW chunk \in Seq(Records), NEW n \in Nat, NEW last \in Nat,
         last = Len(chunk), n < last, NEW r, r = chunk[n + 1],
         NEW units, Carries(units, chunk, n, last, h),
         NEW part, part = SubSeq(units, 1, r.size),
         NEW rest, rest = SubSeq(units, r.size + 1, Len(units))
  PROVE  /\ IsPart(part, Content(r.file, h), r.offset, r.size)
         /\ Carries(rest, chunk, n + 1, last, h)
<1>1. PICK at : Starts(at, units, chunk, n, last, h)
  BY DEF Carries
<1>2. PICK size \in Nat : size = r.size
  <2>1. r \in Records
    OBVIOUS
  <2> QED
    BY <2>1, RecordFields
<1>3. PICK len \in Nat : len = Len(units)
  BY DEF Carries
<1>4. units \in Seq(Units)
  BY DEF Carries
<1>5. /\ at \in [n..last -> Nat] /\ at[n] = 0 /\ at[last] = len
      /\ \A j, k \in n..last : j <= k => at[j] <= at[k]
      /\ \A k \in n..(last - 1) : /\ at[k + 1] = at[k] + chunk[k + 1].size
                                  /\ HasRecord(units, chunk[k + 1], at[k], h)
  BY <1>1, <1>3 DEF Starts
<1>6. n \in n..(last - 1) /\ n + 1 \in n..last /\ last \in n..last
  OBVIOUS
<1>7. at[n + 1] = size /\ HasRecord(units, r, 0, h)
  <2>1. at[n + 1] = at[n] + r.size /\ HasRecord(units, r, at[n], h)
    BY <1>5, <1>6
  <2> QED
    BY <1>2, <1>5, <2>1
<1>8. \A k \in (n + 1)..last : k \in n..last /\ at[k] \in Nat /\ size <= at[k] /\ at[k] <= len
  <2> SUFFICES ASSUME NEW k \in (n + 1)..last
               PROVE  k \in n..last /\ at[k] \in Nat /\ size <= at[k] /\ at[k] <= len
    OBVIOUS
  <2>1. k \in n..last /\ n + 1 <= k /\ k <= last
    OBVIOUS
  <2>2. at[n + 1] <= at[k] /\ at[k] <= at[last] /\ at[k] \in Nat
    BY <1>5, <1>6, <2>1
  <2> QED
    BY <1>5, <1>7, <2>1, <2>2
<1>9. size <= len
  <2>1. last \in (n + 1)..last
    OBVIOUS
  <2> QED
    BY <1>5, <1>8, <2>1
<1>10. IsPart(part, units, 0, size)
  <2>1. part = SubSeq(units, 0 + 1, 0 + size) /\ 0 + size <= Len(units)
    BY <1>2, <1>3, <1>9
  <2> QED
    BY <1>4, <2>1, PartOfSequence
<1>11. IsPart(part, Content(r.file, h), r.offset, r.size)
  <2>1. \A i \in 1..size : part[i] = units[0 + i]
    BY <1>10 DEF IsPart
  <2>2. \A i \in 1..size : units[0 + i] = Content(r.file, h)[r.offset + i]
    BY <1>2, <1>7 DEF HasRecord
  <2>3. \A i \in 1..size : part[i] = Content(r.file, h)[r.offset + i]
    BY <2>1, <2>2
  <2> QED
    BY <1>2, <1>10, <2>3 DEF IsPart
<1>12. PICK left \in Nat : left = len - size
  BY <1>9
<1>13. rest \in Seq(Units) /\ Len(rest) = left /\ \A i \in 1..left : rest[i] = units[size + i]
  <2>1. size + left = len
    BY <1>12
  <2>2. Len(units) = size + left
    BY <1>3, <2>1
  <2>3. rest = SubSeq(units, size + 1, size + left)
    BY <1>2, <2>2, Zenon
  <2>4. size + left <= Len(units)
    BY <1>3, <2>1
  <2>5. IsPart(rest, units, size, left)
    BY <1>4, <2>3, <2>4, PartOfSequence
  <2> QED
    BY <2>5 DEF IsPart
<1>14. PICK new : new = [k \in (n + 1)..last |-> at[k] - size]
  OBVIOUS
<1>15. \A k \in (n + 1)..last : new[k] = at[k] - size /\ new[k] \in Nat
  BY <1>8, <1>14
<1>16. new \in [(n + 1)..last -> Nat]
  BY <1>14, <1>15
<1>17. new[n + 1] = 0 /\ new[last] = Len(rest)
  <2>1. n + 1 \in (n + 1)..last /\ last \in (n + 1)..last
    OBVIOUS
  <2>2. new[n + 1] = at[n + 1] - size /\ new[last] = at[last] - size
    BY <1>15, <2>1
  <2>3. new[n + 1] = 0
    BY <1>7, <2>2
  <2>4. new[last] = left
    BY <1>5, <1>12, <2>2
  <2> QED
    BY <1>13, <2>3, <2>4
<1>18. ASSUME NEW j \in (n + 1)..last, NEW k \in (n + 1)..last, j <= k PROVE new[j] <= new[k]
  <2>1. at[j] <= at[k] /\ at[j] \in Nat /\ at[k] \in Nat
    BY <1>5, <1>8, <1>18
  <2> QED
    BY <1>15, <2>1
<1>19. ASSUME NEW k \in (n + 1)..(last - 1)
       PROVE  /\ new[k + 1] = new[k] + chunk[k + 1].size
              /\ HasRecord(rest, chunk[k + 1], new[k], h)
  <2>1. k \in n..(last - 1) /\ k \in (n + 1)..last /\ k + 1 \in (n + 1)..last /\ k + 1 \in 1..Len(chunk)
    OBVIOUS
  <2>2. PICK q : q = chunk[k + 1]
    OBVIOUS
  <2>3. q.size \in Nat
    <3>1. q \in Records
      BY <2>1, <2>2
    <3> QED
      BY <3>1, RecordFields
  <2>4. /\ at[k + 1] = at[k] + q.size /\ HasRecord(units, q, at[k], h)
        /\ at[k] \in Nat /\ size <= at[k] /\ at[k + 1] <= len
    BY <1>5, <1>8, <2>1, <2>2
  <2>5. new[k] = at[k] - size /\ new[k + 1] = at[k + 1] - size
    BY <1>15, <2>1
  <2>6. new[k + 1] = new[k] + q.size
    BY <2>3, <2>4, <2>5
  <2>7. ASSUME NEW i \in 1..q.size
        PROVE  new[k] + i \in 1..left /\ size + (new[k] + i) = at[k] + i
    <3>1. PICK a \in Nat : a = at[k]
      BY <2>4
    <3>2. PICK b \in Nat : b = q.size
      BY <2>3
    <3>3. size <= a /\ a + b <= len /\ new[k] = a - size
      BY <2>4, <2>5, <3>1, <3>2
    <3>4. i \in 1..b
      BY <3>2
    <3>5. (a - size) + i \in 1..left /\ size + ((a - size) + i) = a + i
      BY <1>12, <3>3, <3>4
    <3> QED
      BY <3>1, <3>3, <3>5
  <2>8. \A i \in 1..q.size : rest[new[k] + i] = units[at[k] + i]
    BY <1>13, <2>7
  <2>9. HasRecord(rest, q, new[k], h)
    BY <2>4, <2>8 DEF HasRecord
  <2> QED
    BY <2>2, <2>6, <2>9
<1>20. Starts(new, rest, chunk, n + 1, last, h)
  BY <1>16, <1>17, <1>18, <1>19 DEF Starts
<1> QED
  BY <1>11, <1>13, <1>20 DEF Carries

------------------------------------------------------------------------------
(* The order of the records *)

LEMMA PlaceFacts ==
  ASSUME NEW h \in Heights, NEW A, IsCutOf(A, h), NEW p \in Positions(A), NEW r, r = RecordAt(A, p)
  PROVE  /\ r \in Records /\ r.file \in SnapshotFiles(h) /\ p \in PlacesOf(A, r.file)
         /\ EndOf(r) <= Len(Content(r.file, h))
<1>1. A \in ChunkSeqs
  BY DEF IsCutOf
<1>2. r \in Records /\ r.file \in SnapshotFiles(h)
  BY <1>1, PositionsOfChunks DEF IsCutOf
<1>3. p \in PlacesOf(A, r.file)
  BY DEF PlacesOf
<1>4. Tiled(A, r.file, Len(Content(r.file, h)))
  BY <1>2 DEF IsCutOf
<1> QED
  BY <1>2, <1>3, <1>4 DEF Tiled

LEMMA PrecedesTotal ==
  ASSUME NEW A \in ChunkSeqs, NEW p \in Positions(A), NEW q \in Positions(A)
  PROVE  Precedes(p, q) \/ Precedes(q, p) \/ p = q
<1>1. /\ p = <<p[1], p[2]>> /\ p[1] \in 1..Len(A) /\ p[2] \in 1..Len(A[p[1]])
      /\ q = <<q[1], q[2]>> /\ q[1] \in 1..Len(A) /\ q[2] \in 1..Len(A[q[1]])
  BY PositionsOfChunks
<1>2. p[1] \in Int /\ p[2] \in Int /\ q[1] \in Int /\ q[2] \in Int
  <2>1. A[p[1]] \in Seq(Records) /\ A[q[1]] \in Seq(Records) /\ Len(A) \in Nat
    BY <1>1 DEF ChunkSeqs
  <2> QED
    BY <1>1, <2>1
<1>3. p[1] = q[1] /\ p[2] = q[2] => p = q
  BY <1>1
<1> QED
  BY <1>2, <1>3 DEF Precedes

\* Of the places of f in S, p is that of the latest record.
Latest(A, f, S, p) ==
  /\ p \in S /\ p \in PlacesOf(A, f)
  /\ \A q \in S \cap PlacesOf(A, f) : EndOf(RecordAt(A, q)) <= EndOf(RecordAt(A, p))

\* S holds the positions that precede p.
HoldsBefore(S, A, p) == \A q \in Positions(A) : q \in S <=> Precedes(q, p)

\* p starts where S ends in file f, or opens the file.
StartsAfter(A, f, S, p) ==
  \/ RecordAt(A, p).offset = 0
  \/ \E q : Latest(A, f, S, q) /\ EndOf(RecordAt(A, q)) = RecordAt(A, p).offset

\* If S is what precedes p, what S covers of the file of p ends where p begins.
LEMMA LatestBefore ==
  ASSUME NEW h \in Heights, NEW A, IsCutOf(A, h), NEW p \in Positions(A),
         NEW S, HoldsBefore(S, A, p), NEW f, f = RecordAt(A, p).file
  PROVE  /\ StartsAfter(A, f, S, p)
         /\ \A q : Latest(A, f, S \cup {p}, q) => q = p
<1>1. A \in ChunkSeqs
  BY DEF IsCutOf
<1> DEFINE r == RecordAt(A, p)
<1>2. r \in Records /\ f \in SnapshotFiles(h) /\ p \in PlacesOf(A, f)
  BY PlaceFacts
<1>3. Tiled(A, f, Len(Content(f, h)))
  BY <1>2 DEF IsCutOf
<1>4. /\ r.offset \in Nat /\ EndOf(r) \in Nat /\ r.offset < EndOf(r)
  BY <1>2, RecordFields
<1>5. ASSUME NEW q \in PlacesOf(A, f)
      PROVE  /\ q \in Positions(A) /\ EndOf(RecordAt(A, q)) \in Nat
             /\ RecordAt(A, q).offset \in Nat /\ RecordAt(A, q).offset < EndOf(RecordAt(A, q))
  BY <1>1, <1>5, PlacesAreTyped, RecordFields
<1>6. ASSUME NEW q \in PlacesOf(A, f), q \in S PROVE EndOf(RecordAt(A, q)) <= r.offset
  <2>1. Precedes(q, p)
    BY <1>5, <1>6 DEF HoldsBefore
  <2> QED
    BY <1>2, <1>3, <1>6, <2>1 DEF Tiled
<1>7. ASSUME r.offset # 0 PROVE \E q : Latest(A, f, S, q) /\ EndOf(RecordAt(A, q)) = r.offset
  <2>1. PICK q \in PlacesOf(A, f) : EndOf(RecordAt(A, q)) = r.offset
    BY <1>2, <1>3, <1>7 DEF Tiled
  <2>2. q # p
    BY <1>4, <2>1
  <2>3. ~Precedes(p, q)
    <3>1. Precedes(p, q) => EndOf(r) <= RecordAt(A, q).offset
      BY <1>2, <1>3 DEF Tiled
    <3>2. RecordAt(A, q).offset \in Nat /\ RecordAt(A, q).offset < EndOf(RecordAt(A, q))
      BY <1>5
    <3> QED
      BY <1>4, <2>1, <3>1, <3>2
  <2>4. Precedes(q, p)
    BY <1>1, <1>5, <2>2, <2>3, PrecedesTotal
  <2>5. q \in S
    BY <1>5, <2>4 DEF HoldsBefore
  <2>6. Latest(A, f, S, q)
    BY <1>6, <2>1, <2>5 DEF Latest
  <2> QED
    BY <2>1, <2>6
<1>8. ASSUME NEW q, Latest(A, f, S \cup {p}, q) PROVE q = p
  <2>1. q \in PlacesOf(A, f) /\ EndOf(r) <= EndOf(RecordAt(A, q))
    BY <1>2, <1>8 DEF Latest
  <2>2. q \notin S
    <3>1. q \in S => EndOf(RecordAt(A, q)) <= r.offset
      BY <1>6, <2>1
    <3>2. EndOf(RecordAt(A, q)) \in Nat
      BY <1>5, <2>1
    <3> QED
      BY <1>4, <2>1, <3>1, <3>2
  <2> QED
    BY <1>8, <2>2 DEF Latest
<1> QED
  BY <1>7, <1>8 DEF StartsAfter

\* Once all records are in S they cover the file.
LEMMA LatestOfAll ==
  ASSUME NEW h \in Heights, NEW A, IsCutOf(A, h), NEW S, Positions(A) \subseteq S,
         NEW f \in SnapshotFiles(h)
  PROVE  \E p : Latest(A, f, S, p) /\ EndOf(RecordAt(A, p)) = Len(Content(f, h))
<1>1. Tiled(A, f, Len(Content(f, h)))
  BY DEF IsCutOf
<1>2. PICK p \in PlacesOf(A, f) : EndOf(RecordAt(A, p)) = Len(Content(f, h))
  BY <1>1 DEF Tiled
<1>3. p \in S
  BY DEF PlacesOf
<1>4. \A q \in S \cap PlacesOf(A, f) : EndOf(RecordAt(A, q)) <= EndOf(RecordAt(A, p))
  BY <1>1, <1>2 DEF Tiled
<1> QED
  BY <1>2, <1>3, <1>4 DEF Latest

LEMMA LatestOfOthers ==
  ASSUME NEW A, NEW S, NEW f, NEW p, p \notin PlacesOf(A, f), NEW q, Latest(A, f, S \cup {p}, q)
  PROVE  Latest(A, f, S, q)
BY DEF Latest

\* The start of a file up to a record, followed by the record, is its start up to the next.
LEMMA PartsJoin ==
  ASSUME NEW h \in Heights, NEW r \in Records, NEW c, c = Content(r.file, h), EndOf(r) <= Len(c),
         NEW part, IsPart(part, c, r.offset, r.size)
  PROVE  /\ r.offset = 0 => part = SubSeq(c, 1, EndOf(r))
         /\ SubSeq(c, 1, r.offset) \o part = SubSeq(c, 1, EndOf(r))
         /\ Len(SubSeq(c, 1, r.offset)) = r.offset
<1>1. c \in Seq(Units) /\ Len(c) \in Nat
  BY ContentUnits
<1>2. PICK offset \in Nat : offset = r.offset
  BY RecordFields
<1>3. PICK size \in Nat : size = r.size
  BY RecordFields
<1>4. EndOf(r) = offset + size
  BY <1>2, <1>3, RecordFields
<1>5. offset + size <= Len(c)
  BY <1>4
<1>6. PICK whole : whole = SubSeq(c, 1, EndOf(r))
  OBVIOUS
<1>7. IsPart(whole, c, 0, offset + size)
  <2>1. PICK n \in Nat : n = offset + size
    OBVIOUS
  <2>2. 0 + 1 = 1 /\ 0 + n = n /\ 0 \in Nat /\ n <= Len(c)
    BY <1>5, <2>1
  <2>3. whole = SubSeq(c, 0 + 1, 0 + n)
    BY <1>4, <1>6, <2>1, <2>2
  <2>4. IsPart(whole, c, 0, n)
    BY <1>1, <2>2, <2>3, PartOfSequence
  <2> QED
    BY <2>1, <2>4
<1>8. PICK before : before = SubSeq(c, 1, r.offset)
  OBVIOUS
<1>9. IsPart(before, c, 0, offset)
  <2>1. before = SubSeq(c, 0 + 1, 0 + offset) /\ 0 + offset <= Len(c)
    BY <1>1, <1>2, <1>5, <1>8
  <2> QED
    BY <1>1, <2>1, PartOfSequence
<1>10. /\ part \in Seq(Units) /\ Len(part) = size
       /\ \A i \in 1..size : part[i] = c[offset + i]
  BY <1>2, <1>3 DEF IsPart
<1>11. before \in Seq(Units) /\ Len(before) = offset /\ \A i \in 1..offset : before[i] = c[0 + i]
  BY <1>9 DEF IsPart
<1>12. PICK both : both = before \o part
  OBVIOUS
<1>13. /\ both \in Seq(Units) /\ Len(both) = offset + size
       /\ \A i \in 1..(offset + size) : both[i] = IF i <= offset THEN before[i] ELSE part[i - offset]
  <2>1. before \in Seq(Units) /\ part \in Seq(Units)
    BY <1>10, <1>11
  <2>2. /\ both \in Seq(Units) /\ Len(both) = Len(before) + Len(part)
        /\ \A i \in 1..(Len(before) + Len(part)) :
             both[i] = IF i <= Len(before) THEN before[i] ELSE part[i - Len(before)]
    BY <1>12, <2>1, ConcatProperties
  <2> QED
    BY <1>10, <1>11, <2>2
<1>14. ASSUME NEW i \in 1..(offset + size) PROVE both[i] = c[0 + i]
  <2>1. CASE i <= offset
    <3>1. i \in 1..offset
      BY <2>1
    <3> QED
      BY <1>11, <1>13, <2>1, <3>1
  <2>2. CASE ~(i <= offset)
    <3>1. i - offset \in 1..size /\ offset + (i - offset) = 0 + i
      BY <2>2
    <3>2. both[i] = part[i - offset] /\ part[i - offset] = c[offset + (i - offset)]
      BY <1>10, <1>13, <2>2, <3>1
    <3> QED
      BY <3>1, <3>2
  <2> QED
    BY <2>1, <2>2
<1>15. IsPart(both, c, 0, offset + size)
  BY <1>13, <1>14 DEF IsPart
<1>16. both = whole
  BY <1>7, <1>15, SamePart
<1>17. r.offset = 0 => part = whole
  <2> SUFFICES ASSUME offset = 0 PROVE part = whole
    BY <1>2
  <2>1. before = <<>>
    BY <1>11
  <2>2. both = part
    BY <1>10, <1>12, <2>1, ConcatEmptySeq
  <2> QED
    BY <1>16, <2>2
<1> QED
  BY <1>2, <1>6, <1>8, <1>11, <1>12, <1>16, <1>17

------------------------------------------------------------------------------
(* The exchange *)

ImporterTypes ==
  /\ sync \in {"idle", "fetch", "opening", "copying", "apply", "writing", "loading", "imported"}
  /\ offered \in Offers \cup {Missing}
  /\ offered = Missing => sync = "idle"
  /\ index \in Nat /\ (offered # Missing => index < offered.chunks)
  /\ records \in Seq(Records)
  /\ importedChunks \in Descriptions \cup {Missing}
  /\ importedDb \in [Heights -> Seq(RowSet)]
  /\ importedFiles \in [DataFiles -> Seq(Heights)]
  /\ importedRows \subseteq RowSet

ChunksAt(h) == Description(h).chunks
ChunkAt(h, i) == ChunksAt(h)[i]

\* s is t without its first n elements.
IsRest(s, t, n) ==
  /\ n \in 0..Len(t)
  /\ Len(s) = Len(t) - n
  /\ \A i \in 1..Len(s) : s[i] = t[n + i]

\* Records of the current chunk that are copied, or applied.
Done(h) == Len(ChunkAt(h, index)) - Len(records)

Offered(h) == h <= height /\ offered.chunks = Len(ChunksAt(h)) + 1
Described(h) == index > 0 => importedChunks = Description(h)
Copying(h) ==
  sync = "copying" =>
    /\ index > 0
    /\ IsRest(records, ChunkAt(h, index), Done(h))
    /\ Carries(payload, ChunkAt(h, index), 0, Done(h), h)
Applying(h) ==
  sync = "apply" =>
    /\ index = 0 => payload = Description(h)
    /\ index > 0 => Carries(payload, ChunkAt(h, index), 0, Len(ChunkAt(h, index)), h)
Writing(h) ==
  sync = "writing" =>
    /\ index > 0
    /\ IsRest(records, ChunkAt(h, index), Done(h))
    /\ Carries(payload, ChunkAt(h, index), Done(h), Len(ChunkAt(h, index)), h)

\* The first m rows are loaded, and the others are left.
Loaded(h, m) ==
  /\ payload \in Seq(RowSet) /\ IsRest(payload, Rows(h), m)
  /\ importedRows = {Rows(h)[i] : i \in 1..m}
Loading(h) ==
  /\ sync \in {"loading", "imported"} => index > 0 /\ index = Len(ChunksAt(h)) /\ records = <<>>
  /\ sync = "loading" => \E m \in 0..Len(Rows(h)) : Loaded(h, m)
  /\ sync = "imported" => importedRows = ToSet(Rows(h))

Applies == sync \in {"writing", "loading", "imported"}
AppliedTo(h) ==
  {p \in Positions(ChunksAt(h)) :
     p[1] < index \/ (p[1] = index /\ Applies /\ p[2] <= Done(h))}

TargetFile(f, h) == IF f = DbFileIdentifier THEN importedDb[h] ELSE importedFiles[f]

\* Every file has what it should have, up to the latest record that was applied to it.
SoFar(h) ==
  \A f \in SnapshotFiles(h) : \A p \in AppliedTo(h) :
    Latest(ChunksAt(h), f, AppliedTo(h), p) =>
      TargetFile(f, h) = SubSeq(Content(f, h), 1, EndOf(RecordAt(ChunksAt(h), p)))

Importing(h) ==
  Described(h) /\ Copying(h) /\ Applying(h) /\ Writing(h) /\ Loading(h) /\ SoFar(h)

ExchangeInv ==
  /\ ImporterTypes
  /\ importedChunks = Missing \/ \E g \in Heights : importedChunks = Description(g)
  /\ \A h \in Heights : offered # Missing /\ offered.height = h =>
       Offered(h) /\ (sync # "idle" => Importing(h))

LEMMA ExchangeInit == ASSUME Init PROVE ExchangeInv
<1>1. <<>> \in Seq(Records) /\ <<>> \in Seq(RowSet) /\ <<>> \in Seq(Heights)
  OBVIOUS
<1>2. importedDb \in [Heights -> Seq(RowSet)] /\ importedFiles \in [DataFiles -> Seq(Heights)]
  BY <1>1 DEF Init
<1>3. ImporterTypes
  BY <1>1, <1>2 DEF Init, ImporterTypes
<1>4. offered = Missing /\ importedChunks = Missing
  BY DEF Init
<1> QED
  BY <1>3, <1>4 DEF ExchangeInv

\* The snapshot that is being imported.
LEMMA Exchanging ==
  ASSUME ExchangeInv, sync # "idle", NEW h, h = offered.height
  PROVE  /\ h \in Heights /\ offered # Missing /\ Offered(h) /\ Importing(h)
         /\ IsCutOf(ChunksAt(h), h) /\ ChunksAt(h) \in ChunkSeqs /\ Len(ChunksAt(h)) \in Nat
         /\ index \in 0..Len(ChunksAt(h)) /\ LastIndex = Len(ChunksAt(h))
         /\ index > 0 => index \in 1..Len(ChunksAt(h)) /\ ChunkAt(h, index) \in Seq(Records)
<1>1. ImporterTypes
  BY DEF ExchangeInv
<1>2. offered # Missing /\ offered \in Offers
  BY <1>1 DEF ImporterTypes
<1>3. h \in Heights
  BY <1>2 DEF Offers
<1>4. Offered(h) /\ Importing(h)
  BY <1>2, <1>3 DEF ExchangeInv
<1>5. IsCutOf(ChunksAt(h), h)
  BY <1>3, DescriptionCut DEF ChunksAt
<1>6. ChunksAt(h) \in ChunkSeqs
  BY <1>5 DEF IsCutOf
<1>7. Len(ChunksAt(h)) \in Nat /\ \A i \in 1..Len(ChunksAt(h)) : ChunksAt(h)[i] \in Seq(Records)
  BY <1>6 DEF ChunkSeqs
<1>8. index \in Nat /\ index < Len(ChunksAt(h)) + 1 /\ LastIndex = Len(ChunksAt(h))
  BY <1>1, <1>2, <1>4, <1>7 DEF ImporterTypes, Offered, LastIndex
<1>9. index \in 0..Len(ChunksAt(h)) /\ (index > 0 => index \in 1..Len(ChunksAt(h)))
  BY <1>7, <1>8
<1>10. index > 0 => ChunkAt(h, index) \in Seq(Records)
  BY <1>7, <1>9 DEF ChunkAt
<1> QED
  BY <1>2, <1>3, <1>4, <1>5, <1>6, <1>7, <1>8, <1>9, <1>10

LEMMA RestGoesOn ==
  ASSUME NEW S, NEW t \in Seq(S), NEW s \in Seq(S), NEW n, IsRest(s, t, n), s # <<>>
  PROVE  n \in Nat /\ n < Len(t) /\ Head(s) = t[n + 1] /\ IsRest(Tail(s), t, n + 1)
<1>1. PICK l \in Nat : l = Len(t)
  OBVIOUS
<1>2. PICK m \in Nat : m = Len(s)
  OBVIOUS
<1>3. n \in 0..l /\ m = l - n /\ \A i \in 1..m : s[i] = t[n + i]
  BY <1>1, <1>2 DEF IsRest
<1>4. m > 0
  BY <1>2
<1>5. n \in Nat /\ n < l /\ n + 1 \in 0..l
  BY <1>3, <1>4
<1>6. Head(s) = s[1] /\ Len(Tail(s)) = m - 1 /\ \A i \in 1..(m - 1) : Tail(s)[i] = s[i + 1]
  BY <1>2, <1>4
<1>7. s[1] = t[n + 1]
  BY <1>3, <1>4
<1>8. ASSUME NEW i \in 1..(m - 1) PROVE Tail(s)[i] = t[(n + 1) + i]
  <2>1. i + 1 \in 1..m /\ n + (i + 1) = (n + 1) + i
    BY <1>5
  <2>2. s[i + 1] = t[n + (i + 1)]
    BY <1>3, <2>1
  <2> QED
    BY <1>6, <2>1, <2>2
<1>9. m - 1 = l - (n + 1)
  BY <1>3, <1>5
<1> QED
  BY <1>1, <1>5, <1>6, <1>7, <1>8, <1>9 DEF IsRest

LEMMA RestIsAll ==
  ASSUME NEW S, NEW t \in Seq(S)
  PROVE  IsRest(t, t, 0)
<1>1. PICK l \in Nat : l = Len(t)
  OBVIOUS
<1>2. 0 \in 0..l /\ l = l - 0 /\ \A i \in 1..l : 0 + i = i
  OBVIOUS
<1>3. \A i \in 1..l : t[i] = t[0 + i]
  BY <1>2
<1> QED
  BY <1>1, <1>2, <1>3 DEF IsRest

\* What is unchanged by an exchange that only moves on.
LEMMA AppliedSame ==
  ASSUME NEW h, UNCHANGED index, Applies' <=> Applies, Applies => UNCHANGED records
  PROVE  AppliedTo(h)' = AppliedTo(h)
<1>1. Applies => Done(h)' = Done(h)
  BY DEF Done
<1> QED
  BY <1>1 DEF AppliedTo

LEMMA SoFarSame ==
  ASSUME NEW h, SoFar(h), AppliedTo(h)' = AppliedTo(h), UNCHANGED <<importedDb, importedFiles>>
  PROVE  SoFar(h)'
BY DEF SoFar, TargetFile

\* It is enough to consider the snapshot that is being imported.
LEMMA ExchangeGoesOn ==
  ASSUME ExchangeInv, sync # "idle", NEW h, h = offered.height, offered' = offered,
         h <= height', ImporterTypes', sync' # "idle" => Importing(h)',
         importedChunks' = importedChunks \/ \E g \in Heights : importedChunks' = Description(g)
  PROVE  ExchangeInv'
<1>1. offered # Missing /\ Offered(h)
  BY Exchanging
<1>2. Offered(h)'
  BY <1>1 DEF Offered
<1>3. importedChunks' = Missing \/ \E g \in Heights : importedChunks' = Description(g)
  BY DEF ExchangeInv
<1> QED
  BY <1>2, <1>3 DEF ExchangeInv

\* In the phases of fetching only what was applied before matters.
LEMMA FetchingGoesOn ==
  ASSUME NEW h, Importing(h), UNCHANGED <<index, importedChunks, importedDb, importedFiles>>,
         ~Applies, ~Applies', Copying(h)', Applying(h)'
  PROVE  Importing(h)'
<1>1. AppliedTo(h)' = AppliedTo(h)
  BY AppliedSame
<1>2. SoFar(h)'
  BY <1>1, SoFarSame DEF Importing
<1>3. Described(h)'
  BY DEF Importing, Described
<1>4. Writing(h)' /\ Loading(h)'
  BY DEF Applies, Writing, Loading
<1> QED
  BY <1>2, <1>3, <1>4 DEF Importing

LEMMA IdleGoesOn ==
  ASSUME ExchangeInv, ImporterTypes', sync' = "idle", UNCHANGED <<offered, importedChunks>>,
         \A h \in Heights : h <= height => h <= height'
  PROVE  ExchangeInv'
<1>1. ASSUME NEW h \in Heights, offered' # Missing, offered'.height = h PROVE Offered(h)'
  <2>1. Offered(h)
    BY <1>1 DEF ExchangeInv
  <2> QED
    BY <2>1 DEF Offered
<1> QED
  BY <1>1 DEF ExchangeInv

LEMMA HeightGrows ==
  ASSUME ServerInv, [Next]_vars
  PROVE  \A h \in Heights : h <= height => h <= height'
<1>1. height \in Nat
  BY Constants DEF ServerInv, ServerTypes
<1>2. height' = height \/ height' = height + 1
  BY ServerSteps DEF CommitBlock, ReadList, RemoveJson, RemoveDbFile, RemoveChunksFile,
     StartCreation, DumpRow, RenameDump, WriteChunksFile, WriteJson, ServerCrash, serving
<1> QED
  BY <1>1, <1>2, Constants

LEMMA ServingGoesOn ==
  ASSUME ServerInv, ExchangeInv, [Next]_vars, UNCHANGED importing
  PROVE  ExchangeInv'
<1>1. ImporterTypes'
  BY DEF ExchangeInv, ImporterTypes, importing
<1>2. CASE sync = "idle"
  BY <1>1, <1>2, HeightGrows, IdleGoesOn DEF importing
<1>3. CASE sync # "idle"
  <2>1. PICK h : h = offered.height
    OBVIOUS
  <2>2. h \in Heights /\ Importing(h) /\ Offered(h)
    BY <1>3, <2>1, Exchanging
  <2>3. h <= height'
    BY <2>2, HeightGrows DEF Offered
  <2>4. AppliedTo(h)' = AppliedTo(h)
    BY AppliedSame DEF importing, Applies
  <2>5. SoFar(h)'
    BY <2>2, <2>4, SoFarSame DEF importing, Importing
  <2>6. Described(h)' /\ Copying(h)'
    BY <2>2 DEF importing, Importing, Described, Copying, Done
  <2>7. Applying(h)' /\ Writing(h)'
    BY <2>2 DEF importing, Importing, Applying, Writing, Done
  <2>8. Loading(h)'
    BY <2>2 DEF importing, Importing, Loading, Loaded
  <2>9. Importing(h)'
    BY <2>5, <2>6, <2>7, <2>8 DEF Importing
  <2> QED
    BY <1>1, <1>3, <2>1, <2>3, <2>9, ExchangeGoesOn DEF importing
<1> QED
  BY <1>2, <1>3

LEMMA ServerCrashKept ==
  ASSUME ServerInv, ExchangeInv, [Next]_vars, ServerCrash
  PROVE  ExchangeInv'
<1>1. /\ UNCHANGED <<height, offered, index, importedChunks, importedDb, importedFiles, importedRows>>
      /\ sync' = IF sync \in {"opening", "copying"} THEN "fetch" ELSE sync
      /\ records' = IF sync = "copying" THEN <<>> ELSE records
      /\ payload' = IF sync = "copying" THEN <<>> ELSE payload
  BY DEF ServerCrash
<1>2. ImporterTypes
  BY DEF ExchangeInv
<1>3. ImporterTypes'
  <2>1. <<>> \in Seq(Records)
    OBVIOUS
  <2>2. records' \in Seq(Records)
    BY <1>1, <1>2, <2>1 DEF ImporterTypes
  <2>3. sync' \in {"idle", "fetch", "opening", "copying", "apply", "writing", "loading", "imported"}
    BY <1>1, <1>2 DEF ImporterTypes
  <2>4. sync = "idle" => sync' = "idle"
    BY <1>1
  <2> QED
    BY <1>1, <1>2, <2>2, <2>3, <2>4 DEF ImporterTypes
<1>4. CASE sync \in {"opening", "copying"}
  <2>1. PICK h : h = offered.height
    OBVIOUS
  <2>2. sync # "idle" /\ sync' = "fetch"
    BY <1>1, <1>4
  <2>3. h \in Heights /\ Importing(h) /\ Offered(h)
    BY <2>1, <2>2, Exchanging
  <2>4. Copying(h)' /\ Applying(h)' /\ ~Applies /\ ~Applies'
    BY <1>4, <2>2 DEF Copying, Applying, Applies
  <2>5. Importing(h)'
    BY <1>1, <2>3, <2>4, FetchingGoesOn
  <2>6. h <= height'
    BY <1>1, <2>3 DEF Offered
  <2> QED
    BY <1>1, <1>3, <2>1, <2>2, <2>5, <2>6, ExchangeGoesOn
<1>5. CASE sync \notin {"opening", "copying"}
  <2>1. UNCHANGED importing
    BY <1>1, <1>5 DEF importing
  <2> QED
    BY <2>1, ServingGoesOn
<1> QED
  BY <1>4, <1>5

LEMMA ImporterCrashKept ==
  ASSUME ExchangeInv, ImporterCrash
  PROVE  ExchangeInv'
<1>1. /\ offered' = Missing /\ sync' = "idle" /\ index' = 0 /\ records' = <<>>
      /\ UNCHANGED <<importedChunks, importedDb, importedFiles, importedRows>>
  BY DEF ImporterCrash
<1>2. <<>> \in Seq(Records)
  OBVIOUS
<1>3. ImporterTypes'
  BY <1>1, <1>2 DEF ExchangeInv, ImporterTypes
<1> QED
  BY <1>1, <1>3 DEF ExchangeInv

LEMMA OfferKept ==
  ASSUME ServerInv, ExchangeInv, NEW h \in Heights, OfferSnapshot(h)
  PROVE  ExchangeInv'
<1>1. /\ sync = "idle" /\ h \in Listed /\ index' = 0 /\ sync' = "fetch"
      /\ offered' = [height |-> h, chunks |-> json[h]]
      /\ UNCHANGED <<height, records, importedChunks, importedDb, importedFiles, importedRows>>
  BY DEF OfferSnapshot, Advertised, serving
<1>2. json[h] # Missing /\ json[h] # Torn
  BY <1>1 DEF Listed
<1>3. json[h] = Len(ChunksAt(h)) + 1 /\ Len(ChunksAt(h)) \in Nat
  <2>1. Stored(h)
    BY DEF ServerInv, ServedFiles
  <2> QED
    BY <1>2, <2>1, ChunkCount DEF Stored, ChunksAt
<1>4. offered'.height = h /\ offered'.chunks = Len(ChunksAt(h)) + 1
  BY <1>1, <1>3
<1>5. offered' \in Offers
  BY <1>1, <1>3 DEF Offers
<1>6. offered' # Missing
  BY <1>5, MissingAssumption
<1>7. 0 < Len(ChunksAt(h)) + 1
  BY <1>3
<1>8. ImporterTypes'
  BY <1>1, <1>4, <1>5, <1>6, <1>7 DEF ExchangeInv, ImporterTypes
<1>9. h <= height
  BY <1>1 DEF ServerInv, ClearUnderWay
<1>10. Offered(h)'
  BY <1>1, <1>4, <1>9 DEF Offered
<1>11. AppliedTo(h)' = {}
  <2>1. ~Applies'
    BY <1>1 DEF Applies
  <2>2. ChunksAt(h) \in ChunkSeqs
    BY DescriptionCut DEF ChunksAt, IsCutOf
  <2>3. \A p \in Positions(ChunksAt(h)) : ~(p[1] < 0)
    <3>1. \A p \in Positions(ChunksAt(h)) : p[1] \in 1..Len(ChunksAt(h))
      BY <2>2, PositionsOfChunks
    <3> QED
      BY <1>3, <3>1
  <2> QED
    BY <1>1, <2>1, <2>3 DEF AppliedTo
<1>12. SoFar(h)'
  BY <1>11 DEF SoFar
<1>13. Importing(h)'
  BY <1>1, <1>12 DEF Importing, Described, Copying, Applying, Writing, Loading
<1>14. importedChunks' = Missing \/ \E g \in Heights : importedChunks' = Description(g)
  BY <1>1 DEF ExchangeInv
<1> QED
  BY <1>4, <1>6, <1>8, <1>10, <1>13, <1>14 DEF ExchangeInv

LEMMA GoneKept ==
  ASSUME ExchangeInv, SnapshotGone,
         UNCHANGED <<height, offered, index, importedChunks, importedDb, importedFiles, importedRows>>
  PROVE  ExchangeInv'
<1>1. sync' = "idle" /\ records' = <<>>
  BY DEF SnapshotGone
<1>2. <<>> \in Seq(Records)
  OBVIOUS
<1>3. ImporterTypes'
  BY <1>1, <1>2 DEF ExchangeInv, ImporterTypes
<1> QED
  BY <1>1, <1>3, IdleGoesOn

LEMMA ReadJsonKept ==
  ASSUME ExchangeInv, ReadJson
  PROVE  ExchangeInv'
<1>1. /\ sync = "fetch"
      /\ UNCHANGED <<height, offered, index, importedChunks, importedDb, importedFiles, importedRows>>
  BY DEF ReadJson, serving
<1>2. CASE SnapshotGone
  BY <1>1, <1>2, GoneKept
<1>3. CASE sync' = "opening" /\ UNCHANGED <<records, payload>>
  <2>1. PICK h : h = offered.height
    OBVIOUS
  <2>2. h \in Heights /\ Importing(h) /\ Offered(h)
    BY <1>1, <2>1, Exchanging
  <2>3. ImporterTypes'
    BY <1>1, <1>3 DEF ExchangeInv, ImporterTypes
  <2>4. Copying(h)' /\ Applying(h)' /\ ~Applies /\ ~Applies'
    BY <1>1, <1>3 DEF Copying, Applying, Applies
  <2>5. Importing(h)'
    BY <1>1, <2>2, <2>4, FetchingGoesOn
  <2>6. h <= height'
    BY <1>1, <2>2 DEF Offered
  <2> QED
    BY <1>1, <2>1, <2>3, <2>5, <2>6, ExchangeGoesOn
<1> QED
  BY <1>2, <1>3 DEF ReadJson

LEMMA OpenChunksKept ==
  ASSUME ServerInv, ExchangeInv, OpenChunks
  PROVE  ExchangeInv'
<1>1. /\ sync = "opening"
      /\ UNCHANGED <<height, offered, index, importedChunks, importedDb, importedFiles, importedRows>>
  BY DEF OpenChunks, serving
<1>2. PICK h : h = offered.height
  OBVIOUS
<1>3. /\ h \in Heights /\ Importing(h) /\ Offered(h)
      /\ (index > 0 => ChunkAt(h, index) \in Seq(Records))
  BY <1>1, <1>2, Exchanging
<1>4. h <= height'
  BY <1>1, <1>3 DEF Offered
<1>5. PICK d : d = chunksFile[h]
  OBVIOUS
<1>6. d # Missing => d = Description(h)
  <2>1. Stored(h)
    BY <1>3 DEF ServerInv, ServedFiles
  <2> QED
    BY <1>5, <2>1 DEF Stored
<1>7. CASE SnapshotGone
  BY <1>1, <1>7, GoneKept
<1>8. CASE d # Missing /\ index = 0 /\ sync' = "apply" /\ payload' = d /\ UNCHANGED records
  <2>1. ImporterTypes'
    BY <1>1, <1>8 DEF ExchangeInv, ImporterTypes
  <2>2. Copying(h)' /\ Applying(h)' /\ ~Applies /\ ~Applies'
    BY <1>1, <1>6, <1>8 DEF Copying, Applying, Applies
  <2>3. Importing(h)'
    BY <1>1, <1>3, <2>2, FetchingGoesOn
  <2> QED
    BY <1>1, <1>2, <1>4, <2>1, <2>3, ExchangeGoesOn
<1>9. CASE /\ d # Missing /\ index \in 1..Len(d.chunks) /\ sync' = "copying"
           /\ records' = d.chunks[index] /\ payload' = <<>>
  <2>1. d.chunks = ChunksAt(h) /\ records' = ChunkAt(h, index)
    BY <1>6, <1>9 DEF ChunksAt, ChunkAt
  <2>2. index > 0
    BY <1>9
  <2>3. PICK chunk : chunk = ChunkAt(h, index)
    OBVIOUS
  <2>4. chunk \in Seq(Records) /\ records' = chunk /\ ChunkAt(h, index') = chunk
    BY <1>1, <1>3, <2>1, <2>2, <2>3
  <2>5. Done(h)' = 0
    <3>1. Done(h)' = Len(ChunkAt(h, index')) - Len(records')
      BY DEF Done
    <3>2. Len(chunk) \in Nat
      BY <2>4
    <3> QED
      BY <2>4, <3>1, <3>2
  <2>6. ImporterTypes'
    BY <1>1, <1>9, <2>4 DEF ExchangeInv, ImporterTypes
  <2>7. IsRest(records', chunk, 0) /\ Carries(payload', chunk, 0, 0, h)
    BY <1>9, <2>4, RestIsAll, CarriesNothing
  <2>8. Copying(h)'
    BY <1>1, <2>2, <2>4, <2>5, <2>7 DEF Copying
  <2>9. Applying(h)' /\ ~Applies /\ ~Applies'
    BY <1>1, <1>9 DEF Applying, Applies
  <2>10. Importing(h)'
    BY <1>1, <1>3, <2>8, <2>9, FetchingGoesOn
  <2> QED
    BY <1>1, <1>2, <1>4, <2>6, <2>10, ExchangeGoesOn
<1> QED
  BY <1>2, <1>5, <1>7, <1>8, <1>9 DEF OpenChunks

\* The file a record refers to still has the units it had.
LEMMA SourceIsContent ==
  ASSUME ServerInv, ExchangeInv, sync # "idle", NEW h, h = offered.height,
         NEW r \in Records, EndOf(r) <= Len(Content(r.file, h)), SourceOf(r) # Missing,
         NEW part, part = SubSeq(SourceOf(r), r.offset + 1, r.offset + r.size)
  PROVE  IsPart(part, Content(r.file, h), r.offset, r.size)
<1>1. h \in Heights /\ h <= height
  BY Exchanging DEF Offered
<1>2. PICK c : c = Content(r.file, h)
  OBVIOUS
<1>3. PICK offset \in Nat : offset = r.offset
  BY RecordFields
<1>4. PICK size \in Nat : size = r.size
  BY RecordFields
<1>5. c \in Seq(Units) /\ offset + size <= Len(c)
  BY <1>1, <1>2, <1>3, <1>4, ContentUnits, RecordFields
<1>6. PICK s : s = SourceOf(r)
  OBVIOUS
<1>7. part = SubSeq(s, offset + 1, offset + size)
  BY <1>3, <1>4, <1>6
<1>8. CASE r.file = DbFileIdentifier
  <2>1. s = dbFile[h] /\ s # Missing
    BY <1>6, <1>8 DEF SourceOf
  <2>2. Stored(h)
    BY <1>1 DEF ServerInv, ServedFiles
  <2>3. s = c
    BY <1>2, <1>8, <2>1, <2>2 DEF Stored, Content
  <2>4. IsPart(part, c, offset, size)
    BY <1>5, <1>7, <2>3, PartOfSequence
  <2> QED
    BY <1>2, <1>3, <1>4, <2>4
<1>9. CASE r.file # DbFileIdentifier
  <2>1. s = Bytes(r.file, height) /\ c = Bytes(r.file, h)
    BY <1>2, <1>6, <1>9 DEF SourceOf, Content
  <2>2. height \in Nat /\ height <= MaxHeight /\ h \in 0..height
    BY <1>1, Constants DEF ServerInv, ServerTypes
  <2>3. s \in Seq(Heights) /\ Len(c) <= Len(s) /\ \A i \in 1..Len(c) : c[i] = s[i]
    BY <2>1, <2>2, BytesGrow
  <2>4. s \in Seq(Units)
    BY <2>3, SeqMonotonic DEF Units
  <2>5. offset + size <= Len(s)
    BY <1>5, <2>3
  <2>6. IsPart(part, s, offset, size)
    BY <1>7, <2>4, <2>5, PartOfSequence
  <2>7. ASSUME NEW i \in 1..size PROVE part[i] = c[offset + i]
    <3>1. part[i] = s[offset + i]
      BY <2>6, <2>7 DEF IsPart
    <3>2. offset + i \in 1..Len(c)
      BY <1>5
    <3> QED
      BY <2>3, <3>1, <3>2
  <2>8. IsPart(part, c, offset, size)
    BY <2>6, <2>7 DEF IsPart
  <2> QED
    BY <1>2, <1>3, <1>4, <2>8
<1> QED
  BY <1>8, <1>9

\* The record at a position of the current chunk.
LEMMA CurrentRecord ==
  ASSUME ExchangeInv, sync # "idle", NEW h, h = offered.height, index > 0,
         IsRest(records, ChunkAt(h, index), Done(h)), records # <<>>,
         NEW p, p = <<index, Done(h) + 1>>, NEW r, r = Head(records)
  PROVE  /\ p \in Positions(ChunksAt(h)) /\ r = RecordAt(ChunksAt(h), p)
         /\ r = ChunkAt(h, index)[Done(h) + 1]
         /\ r \in Records /\ r.file \in SnapshotFiles(h) /\ p \in PlacesOf(ChunksAt(h), r.file)
         /\ EndOf(r) <= Len(Content(r.file, h))
         /\ Done(h) \in Nat /\ Done(h) < Len(ChunkAt(h, index))
         /\ IsRest(Tail(records), ChunkAt(h, index), Done(h) + 1)
         /\ Tail(records) \in Seq(Records)
<1>1. PICK chunk : chunk = ChunkAt(h, index)
  OBVIOUS
<1>2. PICK n : n = Done(h)
  OBVIOUS
<1>3. PICK A : A = ChunksAt(h)
  OBVIOUS
<1>4. /\ chunk \in Seq(Records) /\ index \in 1..Len(A) /\ A \in ChunkSeqs /\ IsCutOf(A, h)
      /\ h \in Heights /\ chunk = A[index]
  BY <1>1, <1>3, Exchanging DEF ChunkAt
<1>5. records \in Seq(Records)
  BY DEF ExchangeInv, ImporterTypes
<1>6. /\ n \in Nat /\ n < Len(chunk) /\ r = chunk[n + 1] /\ IsRest(Tail(records), chunk, n + 1)
  BY <1>1, <1>2, <1>4, <1>5, RestGoesOn
<1>7. Tail(records) \in Seq(Records)
  BY <1>5
<1>8. n + 1 \in 1..Len(chunk)
  BY <1>4, <1>6
<1>9. p \in Positions(A)
  BY <1>2, <1>4, <1>8, PositionsOfChunks
<1>10. r = RecordAt(A, p)
  BY <1>2, <1>4, <1>6 DEF RecordAt
<1>11. /\ r \in Records /\ r.file \in SnapshotFiles(h) /\ p \in PlacesOf(A, r.file)
       /\ EndOf(r) <= Len(Content(r.file, h))
  BY <1>4, <1>9, <1>10, PlaceFacts
<1> QED
  BY <1>1, <1>2, <1>3, <1>6, <1>7, <1>9, <1>10, <1>11

LEMMA CopyRecordKept ==
  ASSUME ServerInv, ExchangeInv, CopyRecord
  PROVE  ExchangeInv'
<1>1. /\ sync = "copying" /\ records # <<>>
      /\ UNCHANGED <<height, offered, index, importedChunks, importedDb, importedFiles, importedRows>>
  BY DEF CopyRecord, serving
<1>2. PICK h : h = offered.height
  OBVIOUS
<1>3. /\ h \in Heights /\ Importing(h) /\ Offered(h)
      /\ (index > 0 => ChunkAt(h, index) \in Seq(Records))
  BY <1>1, <1>2, Exchanging
<1>4. h <= height'
  BY <1>1, <1>3 DEF Offered
<1>5. PICK r : r = Head(records)
  OBVIOUS
<1>6. CASE SnapshotGone
  BY <1>1, <1>6, GoneKept
<1>7. CASE /\ SourceOf(r) # Missing
           /\ payload' = payload \o SubSeq(SourceOf(r), r.offset + 1, r.offset + r.size)
           /\ records' = Tail(records) /\ sync' = sync
  <2>1. PICK chunk : chunk = ChunkAt(h, index)
    OBVIOUS
  <2>2. PICK n : n = Done(h)
    OBVIOUS
  <2>3. /\ index > 0 /\ IsRest(records, ChunkAt(h, index), Done(h))
        /\ Carries(payload, ChunkAt(h, index), 0, Done(h), h)
    BY <1>1, <1>3 DEF Importing, Copying
  <2>4. PICK p : p = <<index, Done(h) + 1>>
    OBVIOUS
  <2>5. /\ r = chunk[n + 1] /\ r \in Records /\ EndOf(r) <= Len(Content(r.file, h))
        /\ n \in Nat /\ n < Len(chunk) /\ IsRest(Tail(records), chunk, n + 1)
        /\ Tail(records) \in Seq(Records)
    BY <1>1, <1>2, <1>5, <2>1, <2>2, <2>3, <2>4, CurrentRecord
  <2>6. PICK part : part = SubSeq(SourceOf(r), r.offset + 1, r.offset + r.size)
    OBVIOUS
  <2>7. IsPart(part, Content(r.file, h), r.offset, r.size)
    BY <1>1, <1>2, <1>7, <2>5, <2>6, SourceIsContent
  <2>8. PICK more : more = payload \o part
    OBVIOUS
  <2>9. chunk \in Seq(Records) /\ Carries(payload, chunk, 0, n, h)
    BY <1>3, <2>1, <2>2, <2>3
  <2>10. Carries(more, chunk, 0, n + 1, h)
    BY <1>3, <2>5, <2>7, <2>8, <2>9, CarriesMore
  <2>11. Done(h)' = n + 1 /\ ChunkAt(h, index') = chunk
    <3>1. ChunkAt(h, index') = chunk
      BY <1>1, <2>1
    <3>2. Done(h)' = Len(chunk) - Len(records')
      BY <3>1 DEF Done
    <3>3. Len(records') = Len(chunk) - (n + 1) /\ Len(chunk) \in Nat
      BY <1>7, <2>5, <2>9 DEF IsRest
    <3> QED
      BY <2>5, <3>1, <3>2, <3>3
  <2>12. Copying(h)'
    BY <1>1, <1>7, <2>3, <2>5, <2>6, <2>8, <2>10, <2>11 DEF Copying
  <2>13. Applying(h)' /\ ~Applies /\ ~Applies'
    BY <1>1, <1>7 DEF Applying, Applies
  <2>14. Importing(h)'
    BY <1>1, <1>3, <2>12, <2>13, FetchingGoesOn
  <2>15. ImporterTypes'
    BY <1>1, <1>7, <2>5 DEF ExchangeInv, ImporterTypes
  <2> QED
    BY <1>1, <1>2, <1>4, <2>14, <2>15, ExchangeGoesOn
<1> QED
  BY <1>5, <1>6, <1>7 DEF CopyRecord

LEMMA ChunkServedKept ==
  ASSUME ExchangeInv, ChunkServed
  PROVE  ExchangeInv'
<1>1. /\ sync = "copying" /\ records = <<>> /\ sync' = "apply"
      /\ UNCHANGED <<height, offered, index, records, payload, importedChunks, importedDb,
                     importedFiles, importedRows>>
  BY DEF ChunkServed, serving
<1>2. PICK h : h = offered.height
  OBVIOUS
<1>3. /\ h \in Heights /\ Importing(h) /\ Offered(h)
      /\ (index > 0 => ChunkAt(h, index) \in Seq(Records))
  BY <1>1, <1>2, Exchanging
<1>4. h <= height'
  BY <1>1, <1>3 DEF Offered
<1>5. PICK chunk : chunk = ChunkAt(h, index)
  OBVIOUS
<1>6. index > 0 /\ Carries(payload, chunk, 0, Done(h), h)
  BY <1>1, <1>3, <1>5 DEF Importing, Copying
<1>7. Done(h) = Len(chunk)
  <2>1. Len(chunk) \in Nat /\ Len(records) = 0
    BY <1>1, <1>3, <1>5, <1>6
  <2> QED
    BY <1>5, <2>1 DEF Done
<1>8. Carries(payload, chunk, 0, Len(chunk), h)
  BY <1>6, <1>7
<1>9. Applying(h)'
  BY <1>1, <1>5, <1>6, <1>8 DEF Applying
<1>10. Copying(h)' /\ ~Applies /\ ~Applies'
  BY <1>1 DEF Copying, Applies
<1>11. Importing(h)'
  BY <1>1, <1>3, <1>9, <1>10, FetchingGoesOn
<1>12. ImporterTypes'
  BY <1>1 DEF ExchangeInv, ImporterTypes
<1> QED
  BY <1>1, <1>2, <1>4, <1>11, <1>12, ExchangeGoesOn

LEMMA SaveDescriptionKept ==
  ASSUME ExchangeInv, SaveDescription
  PROVE  ExchangeInv'
<1>1. /\ sync = "apply" /\ index = 0 /\ importedChunks' = payload /\ index' = 1 /\ sync' = "fetch"
      /\ UNCHANGED <<height, offered, records, importedDb, importedFiles, importedRows>>
  BY DEF SaveDescription, serving
<1>2. PICK h : h = offered.height
  OBVIOUS
<1>3. /\ h \in Heights /\ Importing(h) /\ Offered(h) /\ ChunksAt(h) \in ChunkSeqs
      /\ IsCutOf(ChunksAt(h), h)
  BY <1>1, <1>2, Exchanging
<1>4. h <= height'
  BY <1>1, <1>3 DEF Offered
<1>5. importedChunks' = Description(h)
  BY <1>1, <1>3 DEF Importing, Applying
<1>6. Len(ChunksAt(h)) \in Nat /\ Len(ChunksAt(h)) >= 1
  <2>1. DbFileIdentifier \in SnapshotFiles(h)
    BY DEF SnapshotFiles
  <2>2. PICK p : p \in Positions(ChunksAt(h))
    BY <1>3, <2>1, LatestOfAll DEF Latest, PlacesOf
  <2>3. p[1] \in 1..Len(ChunksAt(h))
    BY <1>3, <2>2, PositionsOfChunks
  <2>4. Len(ChunksAt(h)) \in Nat
    BY <1>3 DEF ChunkSeqs
  <2> QED
    BY <2>3, <2>4
<1>7. 1 < offered.chunks
  BY <1>3, <1>6 DEF Offered
<1>8. Description(h) \in Descriptions
  BY <1>3, DescriptionCut
<1>9. ImporterTypes'
  BY <1>1, <1>5, <1>7, <1>8 DEF ExchangeInv, ImporterTypes
<1>10. AppliedTo(h)' = {}
  <2>1. ~Applies'
    BY <1>1 DEF Applies
  <2>2. \A p \in Positions(ChunksAt(h)) : ~(p[1] < 1)
    <3>1. \A p \in Positions(ChunksAt(h)) : p[1] \in 1..Len(ChunksAt(h))
      BY <1>3, PositionsOfChunks
    <3> QED
      BY <1>6, <3>1
  <2> QED
    BY <1>1, <2>1, <2>2 DEF AppliedTo
<1>11. SoFar(h)'
  BY <1>10 DEF SoFar
<1>12. Described(h)'
  BY <1>5 DEF Described
<1>13. Importing(h)'
  BY <1>1, <1>11, <1>12 DEF Importing, Copying, Applying, Writing, Loading
<1> QED
  BY <1>1, <1>2, <1>3, <1>4, <1>5, <1>9, <1>13, ExchangeGoesOn

LEMMA ApplyChunkKept ==
  ASSUME ExchangeInv, ApplyChunk
  PROVE  ExchangeInv'
<1>1. /\ sync = "apply" /\ index > 0 /\ sync' = "writing"
      /\ records' = importedChunks.chunks[index]
      /\ UNCHANGED <<height, offered, index, payload, importedChunks, importedDb, importedFiles,
                     importedRows>>
  BY DEF ApplyChunk, serving
<1>2. PICK h : h = offered.height
  OBVIOUS
<1>3. /\ h \in Heights /\ Importing(h) /\ Offered(h) /\ ChunksAt(h) \in ChunkSeqs
      /\ ChunkAt(h, index) \in Seq(Records)
  BY <1>1, <1>2, Exchanging
<1>4. h <= height'
  BY <1>1, <1>3 DEF Offered
<1>5. PICK chunk : chunk = ChunkAt(h, index)
  OBVIOUS
<1>6. importedChunks = Description(h)
  BY <1>1, <1>3 DEF Importing, Described
<1>7. records' = chunk /\ ChunkAt(h, index') = chunk
  BY <1>1, <1>5, <1>6 DEF ChunksAt, ChunkAt
<1>8. Done(h)' = 0
  <2>1. Done(h)' = Len(ChunkAt(h, index')) - Len(records')
    BY DEF Done
  <2>2. Len(chunk) \in Nat
    BY <1>3, <1>5
  <2> QED
    BY <1>7, <2>1, <2>2
<1>9. ImporterTypes'
  BY <1>1, <1>3, <1>5, <1>7 DEF ExchangeInv, ImporterTypes
<1>10. Carries(payload, chunk, 0, Len(chunk), h) /\ IsRest(records', chunk, 0)
  <2>1. IsRest(chunk, chunk, 0)
    BY <1>3, <1>5, RestIsAll
  <2> QED
    BY <1>1, <1>3, <1>5, <1>7, <2>1 DEF Importing, Applying
<1>11. Writing(h)'
  BY <1>1, <1>7, <1>8, <1>10 DEF Writing
<1>12. AppliedTo(h)' = AppliedTo(h)
  <2>1. ~Applies /\ Applies'
    BY <1>1 DEF Applies
  <2>2. \A p \in Positions(ChunksAt(h)) : p[1] = index => ~(p[2] <= 0)
    <3> SUFFICES ASSUME NEW p \in Positions(ChunksAt(h)), p[1] = index PROVE ~(p[2] <= 0)
      OBVIOUS
    <3>1. p[2] \in 1..Len(ChunksAt(h)[p[1]])
      BY <1>3, PositionsOfChunks
    <3>2. p[2] \in 1..Len(chunk) /\ Len(chunk) \in Nat
      BY <1>3, <1>5, <3>1 DEF ChunkAt
    <3> QED
      BY <3>2
  <2> QED
    BY <1>1, <1>8, <2>1, <2>2 DEF AppliedTo
<1>13. SoFar(h)'
  BY <1>1, <1>3, <1>12, SoFarSame DEF Importing
<1>14. Described(h)'
  BY <1>1, <1>6 DEF Described
<1>15. Importing(h)'
  BY <1>1, <1>11, <1>13, <1>14 DEF Importing, Copying, Applying, Loading
<1> QED
  BY <1>1, <1>2, <1>4, <1>9, <1>15, ExchangeGoesOn

\* While a record is written its position is the next to be applied.
LEMMA AppliedBefore ==
  ASSUME ExchangeInv, sync = "writing", NEW h, h = offered.height, NEW p, p = <<index, Done(h) + 1>>,
         Done(h) \in Nat
  PROVE  HoldsBefore(AppliedTo(h), ChunksAt(h), p)
<1>1. ChunksAt(h) \in ChunkSeqs
  BY Exchanging
<1>2. Applies
  BY DEF Applies
<1>3. p[1] = index /\ p[2] = Done(h) + 1
  OBVIOUS
<1> SUFFICES ASSUME NEW q \in Positions(ChunksAt(h))
             PROVE  q \in AppliedTo(h) <=> Precedes(q, p)
  BY DEF HoldsBefore
<1>4. q[2] \in 1..Len(ChunksAt(h)[q[1]]) /\ ChunksAt(h)[q[1]] \in Seq(Records)
  BY <1>1, PositionsOfChunks DEF ChunkSeqs
<1>5. q[2] \in Nat
  BY <1>4
<1>6. q[2] <= Done(h) <=> q[2] < p[2]
  BY <1>3, <1>5
<1> QED
  BY <1>2, <1>3, <1>6 DEF AppliedTo, Precedes

\* What a record finds in its file.
LEMMA TargetBefore ==
  ASSUME ExchangeInv, sync = "writing", records # <<>>, NEW h, h = offered.height,
         NEW r, r = Head(records), NEW c, c = Content(r.file, h)
  PROVE  /\ r \in Records /\ r.file \in SnapshotFiles(h)
         /\ EndOf(r) <= Len(c)
         /\ TargetOf(r) = TargetFile(r.file, h)
         /\ r.offset = 0 \/ TargetFile(r.file, h) = SubSeq(c, 1, r.offset)
<1>1. h \in Heights /\ Importing(h) /\ IsCutOf(ChunksAt(h), h)
  BY Exchanging
<1>2. index > 0 /\ IsRest(records, ChunkAt(h, index), Done(h)) /\ importedChunks = Description(h)
  BY <1>1 DEF Importing, Writing, Described
<1>3. PICK p : p = <<index, Done(h) + 1>>
  OBVIOUS
<1>4. /\ p \in Positions(ChunksAt(h)) /\ r = RecordAt(ChunksAt(h), p)
      /\ r \in Records /\ r.file \in SnapshotFiles(h) /\ EndOf(r) <= Len(c) /\ Done(h) \in Nat
  BY <1>2, <1>3, CurrentRecord
<1>5. PICK S : S = AppliedTo(h)
  OBVIOUS
<1>6. HoldsBefore(S, ChunksAt(h), p)
  BY <1>3, <1>4, <1>5, AppliedBefore
<1>7. r.offset = 0 \/ \E q : Latest(ChunksAt(h), r.file, S, q) /\ EndOf(RecordAt(ChunksAt(h), q)) = r.offset
  <2>1. PICK A : A = ChunksAt(h)
    OBVIOUS
  <2>2. PICK f : f = r.file
    OBVIOUS
  <2>3. IsCutOf(A, h) /\ p \in Positions(A) /\ r = RecordAt(A, p) /\ HoldsBefore(S, A, p)
    BY <1>1, <1>4, <1>6, <2>1
  <2>4. StartsAfter(A, f, S, p)
    BY <1>1, <2>2, <2>3, LatestBefore
  <2> QED
    BY <2>1, <2>2, <2>3, <2>4 DEF StartsAfter
<1>8. ASSUME r.offset # 0 PROVE TargetFile(r.file, h) = SubSeq(c, 1, r.offset)
  <2>1. PICK q : Latest(ChunksAt(h), r.file, S, q) /\ EndOf(RecordAt(ChunksAt(h), q)) = r.offset
    BY <1>7, <1>8
  <2>2. q \in AppliedTo(h)
    BY <1>5, <2>1 DEF Latest
  <2>3. TargetFile(r.file, h) = SubSeq(Content(r.file, h), 1, EndOf(RecordAt(ChunksAt(h), q)))
    BY <1>1, <1>4, <1>5, <2>1, <2>2 DEF Importing, SoFar
  <2> QED
    BY <2>1, <2>3
<1>9. TargetOf(r) = TargetFile(r.file, h)
  BY <1>1, <1>2, DescriptionCut DEF TargetOf, TargetFile
<1> QED
  BY <1>4, <1>8, <1>9

LEMMA WriteRecordKept ==
  ASSUME ExchangeInv, WriteRecord
  PROVE  ExchangeInv'
<1>1. /\ sync = "writing" /\ records # <<>> /\ records' = Tail(records)
      /\ UNCHANGED <<height, sync, offered, index, importedChunks, importedRows>>
  BY DEF WriteRecord, serving
<1>2. PICK h : h = offered.height
  OBVIOUS
<1>3. /\ h \in Heights /\ Importing(h) /\ Offered(h) /\ IsCutOf(ChunksAt(h), h)
  BY <1>1, <1>2, Exchanging
<1>4. h <= height'
  BY <1>1, <1>3 DEF Offered
<1>5. PICK chunk : chunk = ChunkAt(h, index)
  OBVIOUS
<1>6. PICK n : n = Done(h)
  OBVIOUS
<1>7. /\ index > 0 /\ IsRest(records, ChunkAt(h, index), Done(h)) /\ importedChunks = Description(h)
      /\ Carries(payload, chunk, n, Len(chunk), h) /\ chunk \in Seq(Records)
  BY <1>1, <1>2, <1>3, <1>5, <1>6, Exchanging DEF Importing, Writing, Described
<1>8. PICK r : r = Head(records)
  OBVIOUS
<1>9. PICK p : p = <<index, Done(h) + 1>>
  OBVIOUS
<1>10. /\ p \in Positions(ChunksAt(h)) /\ r = RecordAt(ChunksAt(h), p) /\ r = chunk[n + 1]
       /\ r \in Records /\ r.file \in SnapshotFiles(h) /\ p \in PlacesOf(ChunksAt(h), r.file)
       /\ n \in Nat /\ n < Len(chunk)
       /\ IsRest(Tail(records), chunk, n + 1) /\ Tail(records) \in Seq(Records)
  BY <1>1, <1>2, <1>5, <1>6, <1>7, <1>8, <1>9, CurrentRecord
<1>11. PICK c : c = Content(r.file, h)
  OBVIOUS
<1>12. /\ EndOf(r) <= Len(c) /\ TargetOf(r) = TargetFile(r.file, h)
       /\ r.offset = 0 \/ TargetFile(r.file, h) = SubSeq(c, 1, r.offset)
  BY <1>1, <1>2, <1>8, <1>11, TargetBefore
<1>13. PICK part : part = SubSeq(payload, 1, r.size)
  OBVIOUS
<1>14. PICK rest : rest = SubSeq(payload, r.size + 1, Len(payload))
  OBVIOUS
<1>15. Len(chunk) \in Nat
  BY <1>7
<1>16. IsPart(part, c, r.offset, r.size) /\ Carries(rest, chunk, n + 1, Len(chunk), h)
  <2>1. PICK last \in Nat : last = Len(chunk)
    BY <1>15
  <2>2. chunk \in Seq(Records) /\ n \in Nat /\ n < last /\ r = chunk[n + 1]
    BY <1>7, <1>10, <2>1
  <2>3. Carries(payload, chunk, n, last, h)
    BY <1>7, <2>1
  <2>4. /\ IsPart(part, Content(r.file, h), r.offset, r.size)
        /\ Carries(rest, chunk, n + 1, last, h)
    BY <1>3, <1>13, <1>14, <2>1, <2>2, <2>3, CarriesLess
  <2> QED
    BY <1>11, <2>1, <2>4
<1>17. payload' = rest
  BY <1>8, <1>14 DEF WriteRecord
<1>18. PICK w : w = Written(TargetFile(r.file, h), r)
  OBVIOUS
<1>19. w = SubSeq(c, 1, EndOf(r))
  <2>1. /\ r.offset = 0 => part = SubSeq(c, 1, EndOf(r))
        /\ SubSeq(c, 1, r.offset) \o part = SubSeq(c, 1, EndOf(r))
    BY <1>3, <1>10, <1>11, <1>12, <1>16, PartsJoin
  <2>2. CASE r.offset = 0
    <3>1. w = <<>> \o part
      BY <1>13, <1>18, <2>2 DEF Written
    <3>2. part \in Seq(Units)
      BY <1>16 DEF IsPart
    <3>3. w = part
      BY <3>1, <3>2, ConcatEmptySeq
    <3> QED
      BY <2>1, <2>2, <3>3
  <2>3. CASE r.offset # 0
    <3>1. w = TargetFile(r.file, h) \o part
      BY <1>13, <1>18, <2>3 DEF Written
    <3> QED
      BY <1>12, <2>1, <2>3, <3>1
  <2> QED
    BY <2>2, <2>3
<1>20. importedChunks.height = h
  BY <1>3, <1>7, DescriptionCut
<1>21. ImporterTypes
  BY DEF ExchangeInv
<1>22. r.file # DbFileIdentifier => r.file \in DataFiles
  BY <1>3, <1>10, FilesUpToTypes DEF SnapshotFiles
<1>23. \A f \in SnapshotFiles(h) :
         TargetFile(f, h)' = IF f = r.file THEN w ELSE TargetFile(f, h)
  <2>1. CASE r.file = DbFileIdentifier
    <3>1. importedDb' = [importedDb EXCEPT ![h] = Written(@, r)] /\ UNCHANGED importedFiles
      BY <1>8, <1>20, <2>1 DEF WriteRecord
    <3>2. w = Written(importedDb[h], r)
      BY <1>18, <2>1 DEF TargetFile
    <3>3. importedDb'[h] = w
      BY <1>3, <1>21, <3>1, <3>2 DEF ImporterTypes
    <3> QED
      BY <2>1, <3>1, <3>3 DEF TargetFile
  <2>2. CASE r.file # DbFileIdentifier
    <3>1. importedFiles' = [importedFiles EXCEPT ![r.file] = Written(@, r)] /\ UNCHANGED importedDb
      BY <1>8, <2>2 DEF WriteRecord
    <3>2. w = Written(importedFiles[r.file], r)
      BY <1>18, <2>2 DEF TargetFile
    <3>3. importedFiles'[r.file] = w /\ \A f \in DataFiles : f # r.file => importedFiles'[f] = importedFiles[f]
      BY <1>21, <1>22, <2>2, <3>1, <3>2 DEF ImporterTypes
    <3>4. \A f \in SnapshotFiles(h) : f # DbFileIdentifier => f \in DataFiles
      BY <1>3, FilesUpToTypes DEF SnapshotFiles
    <3> QED
      BY <2>2, <3>1, <3>3, <3>4 DEF TargetFile
  <2> QED
    BY <2>1, <2>2
<1>24. /\ importedDb' \in [Heights -> Seq(RowSet)] /\ importedFiles' \in [DataFiles -> Seq(Heights)]
  <2>1. EndOf(r) \in Nat /\ c \in Seq(Units)
    BY <1>3, <1>10, <1>11, RecordFields, ContentUnits
  <2>2. CASE r.file = DbFileIdentifier
    <3>1. c \in Seq(RowSet)
      BY <1>3, <1>11, <2>2, ContentUnits
    <3>2. w \in Seq(RowSet)
      <4>1. \A i \in 1..EndOf(r) : c[i] \in RowSet
        BY <1>12, <2>1, <3>1
      <4> QED
        BY <1>19, <2>1, <4>1, SubSeqProperties
    <3>3. importedDb' = [importedDb EXCEPT ![h] = Written(@, r)] /\ UNCHANGED importedFiles
      BY <1>8, <1>20, <2>2 DEF WriteRecord
    <3>4. w = Written(importedDb[h], r)
      BY <1>18, <2>2 DEF TargetFile
    <3>5. importedDb' = [importedDb EXCEPT ![h] = w]
      BY <3>3, <3>4
    <3> QED
      BY <1>21, <3>2, <3>3, <3>5 DEF ImporterTypes
  <2>3. CASE r.file # DbFileIdentifier
    <3>1. c \in Seq(Heights)
      BY <1>3, <1>11, <2>3, ContentUnits
    <3>2. w \in Seq(Heights)
      <4>1. \A i \in 1..EndOf(r) : c[i] \in Heights
        BY <1>12, <2>1, <3>1
      <4> QED
        BY <1>19, <2>1, <4>1, SubSeqProperties
    <3>3. importedFiles' = [importedFiles EXCEPT ![r.file] = Written(@, r)] /\ UNCHANGED importedDb
      BY <1>8, <2>3 DEF WriteRecord
    <3>4. w = Written(importedFiles[r.file], r)
      BY <1>18, <2>3 DEF TargetFile
    <3>5. importedFiles' = [importedFiles EXCEPT ![r.file] = w]
      BY <3>3, <3>4
    <3> QED
      BY <1>21, <3>2, <3>3, <3>5 DEF ImporterTypes
  <2> QED
    BY <2>2, <2>3
<1>25. ImporterTypes'
  BY <1>1, <1>10, <1>21, <1>24 DEF ImporterTypes
<1>26. Done(h)' = n + 1 /\ ChunkAt(h, index') = chunk
  <2>1. ChunkAt(h, index') = chunk
    BY <1>1, <1>5
  <2>2. Done(h)' = Len(chunk) - Len(records')
    BY <2>1 DEF Done
  <2>3. Len(records') = Len(chunk) - (n + 1)
    BY <1>1, <1>10 DEF IsRest
  <2> QED
    BY <1>10, <1>15, <2>1, <2>2, <2>3
<1>27. Writing(h)'
  BY <1>1, <1>7, <1>10, <1>16, <1>17, <1>26 DEF Writing
<1>28. PICK S : S = AppliedTo(h)
  OBVIOUS
<1>29. AppliedTo(h)' = S \cup {p}
  <2>1. Applies /\ Applies'
    BY <1>1 DEF Applies
  <2>2. ASSUME NEW q \in Positions(ChunksAt(h))
        PROVE  q = <<q[1], q[2]>> /\ (q[1] = index => q[2] \in Nat)
    <3>1. ChunksAt(h) \in ChunkSeqs
      BY <1>3 DEF IsCutOf
    <3>2. q = <<q[1], q[2]>> /\ q[2] \in 1..Len(ChunksAt(h)[q[1]])
      BY <2>2, <3>1, PositionsOfChunks
    <3>3. q[1] = index => q[2] \in 1..Len(chunk)
      BY <1>5, <3>2 DEF ChunkAt
    <3> QED
      BY <1>15, <3>2, <3>3
  <2>3. \A q \in Positions(ChunksAt(h)) :
          q[1] = index => (q[2] <= n + 1 <=> q[2] <= n \/ q = <<index, n + 1>>)
    BY <1>10, <2>2
  <2>4. p = <<index, n + 1>> /\ p[1] = index /\ p[2] = n + 1 /\ ~(index < index)
    BY <1>6, <1>9, <1>21 DEF ImporterTypes
  <2>5. AppliedTo(h)' = {q \in Positions(ChunksAt(h)) :
                           q[1] < index \/ (q[1] = index /\ q[2] <= n + 1)}
    BY <1>1, <1>26, <2>1 DEF AppliedTo
  <2>6. S = {q \in Positions(ChunksAt(h)) : q[1] < index \/ (q[1] = index /\ q[2] <= n)}
    BY <1>6, <1>28, <2>1 DEF AppliedTo
  <2> QED
    BY <1>10, <2>3, <2>4, <2>5, <2>6
<1>30. ASSUME NEW f \in SnapshotFiles(h), NEW q, Latest(ChunksAt(h), f, S \cup {p}, q)
       PROVE  TargetFile(f, h)' = SubSeq(Content(f, h), 1, EndOf(RecordAt(ChunksAt(h), q)))
  <2>1. CASE f = r.file
    <3>1. HoldsBefore(S, ChunksAt(h), p)
      BY <1>1, <1>2, <1>6, <1>9, <1>10, <1>28, AppliedBefore
    <3>2. q = p
      BY <1>3, <1>10, <1>30, <2>1, <3>1, LatestBefore
    <3> QED
      BY <1>10, <1>11, <1>19, <1>23, <2>1, <3>2
  <2>2. CASE f # r.file
    <3>1. p \notin PlacesOf(ChunksAt(h), f)
      BY <1>10, <2>2 DEF PlacesOf
    <3>2. Latest(ChunksAt(h), f, S, q)
      BY <1>30, <3>1, LatestOfOthers
    <3>3. q \in AppliedTo(h)
      BY <1>28, <3>2 DEF Latest
    <3>4. TargetFile(f, h) = SubSeq(Content(f, h), 1, EndOf(RecordAt(ChunksAt(h), q)))
      BY <1>3, <1>28, <1>30, <3>2, <3>3 DEF Importing, SoFar
    <3> QED
      BY <1>23, <1>30, <2>2, <3>4
  <2> QED
    BY <2>1, <2>2
<1>31. SoFar(h)'
  BY <1>29, <1>30 DEF SoFar
<1>32. Described(h)'
  BY <1>1, <1>7 DEF Described
<1>33. Importing(h)'
  BY <1>1, <1>27, <1>31, <1>32 DEF Importing, Copying, Applying, Loading
<1> QED
  BY <1>1, <1>2, <1>4, <1>25, <1>33, ExchangeGoesOn

\* When all records of a chunk are written, all those up to it are applied.
LEMMA ChunkApplied ==
  ASSUME ExchangeInv, Applies, index > 0, records = <<>>, NEW h, h = offered.height
  PROVE  /\ Done(h) = Len(ChunkAt(h, index))
         /\ \A p \in Positions(ChunksAt(h)) : p \in AppliedTo(h) <=> p[1] <= index
<1>1. /\ h \in Heights /\ Importing(h) /\ ChunksAt(h) \in ChunkSeqs
      /\ (index > 0 => ChunkAt(h, index) \in Seq(Records)) /\ index \in 0..Len(ChunksAt(h))
      /\ Len(ChunksAt(h)) \in Nat
  <2>1. sync # "idle"
    BY DEF Applies
  <2> QED
    BY <2>1, Exchanging
<1>2. PICK chunk : chunk = ChunkAt(h, index)
  OBVIOUS
<1>3. chunk \in Seq(Records) /\ Len(chunk) \in Nat
  BY <1>1, <1>2
<1>4. Len(records) = 0
  OBVIOUS
<1>5. Done(h) = Len(chunk)
  BY <1>2, <1>3, <1>4 DEF Done
<1>6. ASSUME NEW p \in Positions(ChunksAt(h)) PROVE p \in AppliedTo(h) <=> p[1] <= index
  <2>1. p[1] \in 1..Len(ChunksAt(h)) /\ p[2] \in 1..Len(ChunksAt(h)[p[1]])
    BY <1>1, <1>6, PositionsOfChunks
  <2>2. p[1] \in Nat /\ index \in Nat
    BY <1>1, <2>1
  <2>3. p[1] = index => p[2] <= Done(h)
    <3>1. p[1] = index => p[2] \in 1..Len(chunk)
      BY <1>2, <2>1 DEF ChunkAt
    <3> QED
      BY <1>3, <1>5, <3>1
  <2>4. p \in AppliedTo(h) <=> p[1] < index \/ p[1] = index
    BY <1>6, <2>3 DEF AppliedTo
  <2> QED
    BY <2>2, <2>4
<1> QED
  BY <1>2, <1>5, <1>6

LEMMA NextChunkKept ==
  ASSUME ExchangeInv, NextChunk
  PROVE  ExchangeInv'
<1>1. /\ sync = "writing" /\ records = <<>> /\ index # LastIndex /\ index' = index + 1
      /\ sync' = "fetch"
      /\ UNCHANGED <<height, offered, records, payload, importedChunks, importedDb, importedFiles,
                     importedRows>>
  BY DEF NextChunk, serving
<1>2. PICK h : h = offered.height
  OBVIOUS
<1>3. /\ h \in Heights /\ Importing(h) /\ Offered(h) /\ ChunksAt(h) \in ChunkSeqs
      /\ Len(ChunksAt(h)) \in Nat /\ index \in 0..Len(ChunksAt(h)) /\ LastIndex = Len(ChunksAt(h))
  BY <1>1, <1>2, Exchanging
<1>4. h <= height'
  BY <1>1, <1>3 DEF Offered
<1>5. index > 0 /\ importedChunks = Description(h)
  BY <1>1, <1>3 DEF Importing, Writing, Described
<1>6. index' \in Nat /\ index' < offered.chunks
  BY <1>1, <1>3 DEF Offered
<1>7. ImporterTypes'
  BY <1>1, <1>6 DEF ExchangeInv, ImporterTypes
<1>8. AppliedTo(h)' = AppliedTo(h)
  <2>1. \A p \in Positions(ChunksAt(h)) : p \in AppliedTo(h) <=> p[1] <= index
    BY <1>1, <1>2, <1>5, ChunkApplied DEF Applies
  <2>2. AppliedTo(h)' = {p \in Positions(ChunksAt(h)) : p[1] < index + 1}
    BY <1>1 DEF AppliedTo, Applies
  <2>3. \A p \in Positions(ChunksAt(h)) : p[1] <= index <=> p[1] < index + 1
    <3>1. \A p \in Positions(ChunksAt(h)) : p[1] \in 1..Len(ChunksAt(h))
      BY <1>3, PositionsOfChunks
    <3> QED
      BY <1>3, <3>1
  <2>4. AppliedTo(h) \subseteq Positions(ChunksAt(h))
    BY DEF AppliedTo
  <2> QED
    BY <2>1, <2>2, <2>3, <2>4
<1>9. SoFar(h)'
  BY <1>1, <1>3, <1>8, SoFarSame DEF Importing
<1>10. Described(h)'
  BY <1>1, <1>5 DEF Described
<1>11. Importing(h)'
  BY <1>1, <1>9, <1>10 DEF Importing, Copying, Applying, Writing, Loading
<1> QED
  BY <1>1, <1>2, <1>4, <1>7, <1>11, ExchangeGoesOn

\* Files to which every record was applied have all their content.
LEMMA FilesReceived ==
  ASSUME NEW h \in Heights, SoFar(h), Positions(ChunksAt(h)) \subseteq AppliedTo(h),
         NEW f \in SnapshotFiles(h)
  PROVE  TargetFile(f, h) = Content(f, h)
<1>1. PICK A : A = ChunksAt(h)
  OBVIOUS
<1>2. PICK S : S = AppliedTo(h)
  OBVIOUS
<1>3. IsCutOf(A, h)
  BY <1>1, DescriptionCut DEF ChunksAt
<1>4. Positions(A) \subseteq S
  BY <1>1, <1>2
<1>5. PICK p : Latest(A, f, S, p) /\ EndOf(RecordAt(A, p)) = Len(Content(f, h))
  BY <1>3, <1>4, LatestOfAll
<1>6. p \in S
  BY <1>5 DEF Latest
<1>7. TargetFile(f, h) = SubSeq(Content(f, h), 1, Len(Content(f, h)))
  BY <1>1, <1>2, <1>5, <1>6 DEF SoFar
<1>8. Content(f, h) \in Seq(Units)
  BY ContentUnits
<1> QED
  BY <1>7, <1>8, SubSeqFull

LEMMA ClearDatabaseKept ==
  ASSUME ExchangeInv, ClearDatabase
  PROVE  ExchangeInv'
<1>1. /\ sync = "writing" /\ records = <<>> /\ index = LastIndex /\ importedRows' = {}
      /\ payload' = importedDb[importedChunks.height] /\ sync' = "loading"
      /\ UNCHANGED <<height, offered, index, records, importedChunks, importedDb, importedFiles>>
  BY DEF ClearDatabase, serving
<1>2. PICK h : h = offered.height
  OBVIOUS
<1>3. /\ h \in Heights /\ Importing(h) /\ Offered(h) /\ ChunksAt(h) \in ChunkSeqs
      /\ Len(ChunksAt(h)) \in Nat /\ LastIndex = Len(ChunksAt(h))
  BY <1>1, <1>2, Exchanging
<1>4. h <= height'
  BY <1>1, <1>3 DEF Offered
<1>5. index > 0 /\ importedChunks = Description(h) /\ index = Len(ChunksAt(h))
  BY <1>1, <1>3 DEF Importing, Writing, Described
<1>6. ImporterTypes'
  BY <1>1 DEF ExchangeInv, ImporterTypes
<1>7. Positions(ChunksAt(h)) \subseteq AppliedTo(h)
  <2>1. \A p \in Positions(ChunksAt(h)) : p \in AppliedTo(h) <=> p[1] <= index
    BY <1>1, <1>2, <1>5, ChunkApplied DEF Applies
  <2>2. \A p \in Positions(ChunksAt(h)) : p[1] \in 1..Len(ChunksAt(h))
    BY <1>3, PositionsOfChunks
  <2> QED
    BY <1>3, <1>5, <2>1, <2>2
<1>8. importedDb[h] = Rows(h)
  <2>1. DbFileIdentifier \in SnapshotFiles(h)
    BY DEF SnapshotFiles
  <2>2. TargetFile(DbFileIdentifier, h) = Content(DbFileIdentifier, h)
    BY <1>3, <1>7, <2>1, FilesReceived DEF Importing
  <2> QED
    BY <2>2 DEF TargetFile, Content
<1>9. payload' = Rows(h)
  BY <1>1, <1>3, <1>5, <1>8, DescriptionCut
<1>10. Loaded(h, 0)'
  <2>1. PICK rows : rows = Rows(h)
    OBVIOUS
  <2>2. rows \in Seq(RowSet)
    BY <1>3, <2>1, RowsExist
  <2>3. IsRest(rows, rows, 0)
    BY <2>2, RestIsAll
  <2>4. {rows[i] : i \in 1..0} = {}
    OBVIOUS
  <2> QED
    BY <1>1, <1>9, <2>1, <2>2, <2>3, <2>4 DEF Loaded
<1>11. 0 \in 0..Len(Rows(h))
  BY <1>3, RowsExist
<1>12. Loading(h)'
  BY <1>1, <1>5, <1>10, <1>11 DEF Loading
<1>13. AppliedTo(h)' = AppliedTo(h)
  BY <1>1, AppliedSame DEF Applies
<1>14. SoFar(h)'
  BY <1>1, <1>3, <1>13, SoFarSame DEF Importing
<1>15. Described(h)'
  BY <1>1, <1>5 DEF Described
<1>16. Importing(h)'
  BY <1>1, <1>12, <1>14, <1>15 DEF Importing, Copying, Applying, Writing
<1> QED
  BY <1>1, <1>2, <1>4, <1>6, <1>16, ExchangeGoesOn

\* The elements of t after the first m and up to the n-th.
Between(t, m, n) == {t[i] : i \in (m + 1)..n}

\* s is cut after b elements.
IsSplit(s, b, batch, rest) ==
  b \in 0..Len(s) /\ batch = SubSeq(s, 1, b) /\ rest = SubSeq(s, b + 1, Len(s))

\* A batch is taken from the rest of a sequence of rows.
LEMMA BatchTaken ==
  ASSUME NEW t \in Seq(RowSet), NEW s \in Seq(RowSet), NEW m, IsRest(s, t, m),
         NEW b, NEW batch, NEW rest, IsSplit(s, b, batch, rest)
  PROVE  /\ m + b \in 0..Len(t) /\ ToSet(batch) = Between(t, m, m + b)
         /\ rest \in Seq(RowSet) /\ IsRest(rest, t, m + b)
<1>1. PICK k \in Nat : k = Len(t)
  OBVIOUS
<1>2. PICK l \in Nat : l = Len(s)
  OBVIOUS
<1>3. m \in 0..k /\ l = k - m /\ \A i \in 1..l : s[i] = t[m + i]
  BY <1>1, <1>2 DEF IsRest
<1>4. /\ b \in 0..l /\ m + b \in 0..k /\ b \in Nat /\ m \in Nat
      /\ batch = SubSeq(s, 1, b) /\ rest = SubSeq(s, b + 1, l)
  BY <1>2, <1>3 DEF IsSplit
<1>5. Len(batch) = b /\ \A i \in 1..b : batch[i] = t[m + i]
  <2>1. \A i \in 1..b : s[i] \in RowSet
    BY <1>2, <1>4
  <2>2. Len(batch) = b /\ \A i \in 1..b : batch[i] = s[i]
    BY <1>2, <1>4
  <2>3. \A i \in 1..b : i \in 1..l
    BY <1>4
  <2> QED
    BY <1>3, <2>2, <2>3
<1>6. ToSet(batch) = Between(t, m, m + b)
  <2>1. DOMAIN batch = 1..b
    <3>1. batch \in Seq(RowSet)
      BY <1>2, <1>4
    <3> QED
      BY <1>5, <3>1
  <2>2. ToSet(batch) = {batch[i] : i \in 1..b}
    BY <2>1 DEF ToSet
  <2>3. ASSUME NEW i \in 1..b PROVE batch[i] \in Between(t, m, m + b)
    <3>1. m + i \in (m + 1)..(m + b)
      BY <1>4
    <3> QED
      BY <1>5, <3>1 DEF Between
  <2>4. ASSUME NEW j \in (m + 1)..(m + b) PROVE t[j] \in {batch[i] : i \in 1..b}
    <3>1. j - m \in 1..b /\ m + (j - m) = j
      BY <1>4
    <3> QED
      BY <1>5, <3>1
  <2> QED
    BY <2>2, <2>3, <2>4 DEF Between
<1>7. rest \in Seq(RowSet) /\ Len(rest) = l - b /\ \A i \in 1..(l - b) : rest[i] = s[b + i]
  <2>1. rest \in Seq(RowSet)
    BY <1>2, <1>4
  <2>2. Len(rest) = l - b
    BY <1>2, <1>4
  <2>3. ASSUME NEW i \in 1..(l - b) PROVE rest[i] = s[b + i]
    <3>1. rest[i] = s[(b + 1) + i - 1]
      BY <1>2, <1>4
    <3>2. (b + 1) + i - 1 = b + i
      BY <1>4
    <3> QED
      BY <3>1, <3>2
  <2> QED
    BY <2>1, <2>2, <2>3
<1>8. IsRest(rest, t, m + b)
  <2>1. Len(rest) = k - (m + b)
    BY <1>3, <1>4, <1>7
  <2>2. ASSUME NEW i \in 1..(l - b) PROVE rest[i] = t[(m + b) + i]
    <3>1. b + i \in 1..l /\ m + (b + i) = (m + b) + i
      BY <1>2, <1>4
    <3> QED
      BY <1>3, <1>7, <3>1
  <2> QED
    BY <1>1, <1>4, <1>7, <2>1, <2>2 DEF IsRest
<1> QED
  BY <1>1, <1>4, <1>6, <1>7, <1>8

\* Rows have distinct keys: putting a batch adds it to what is there.
LEMMA BatchPut ==
  ASSUME NEW h \in Heights, NEW rows, rows = Rows(h), NEW m \in 0..Len(rows),
         NEW n \in m..Len(rows)
  PROVE  Put(Between(rows, 0, m), Between(rows, m, n)) = Between(rows, 0, n)
<1>1. Len(rows) \in Nat
  BY RowsExist
<1>2. \A i \in 1..Len(rows) : \A j \in 1..Len(rows) : rows[i][1] = rows[j][1] => i = j
  BY RowKeys
<1>3. \A i \in (0 + 1)..m : \A j \in (m + 1)..n :
         i \in 1..Len(rows) /\ j \in 1..Len(rows) /\ i # j
  BY <1>1
<1>4. \A r \in Between(rows, 0, m) : \A b \in Between(rows, m, n) : b[1] # r[1]
  BY <1>2, <1>3 DEF Between
<1>5. Put(Between(rows, 0, m), Between(rows, m, n)) = Between(rows, 0, m) \cup Between(rows, m, n)
  BY <1>4 DEF Put
<1>6. (0 + 1)..n = ((0 + 1)..m) \cup ((m + 1)..n)
  BY <1>1
<1> QED
  BY <1>5, <1>6 DEF Between

LEMMA LoadBatchKept ==
  ASSUME ExchangeInv, LoadBatch
  PROVE  ExchangeInv'
<1>1. /\ sync = "loading"
      /\ UNCHANGED <<height, offered, index, records, importedChunks, importedDb, importedFiles>>
  BY DEF LoadBatch, serving
<1>2. PICK h : h = offered.height
  OBVIOUS
<1>3. h \in Heights /\ Importing(h) /\ Offered(h)
  BY <1>1, <1>2, Exchanging
<1>4. h <= height'
  BY <1>1, <1>3 DEF Offered
<1>5. PICK rows : rows = Rows(h)
  OBVIOUS
<1>6. rows \in Seq(RowSet) /\ Len(rows) \in Nat
  BY <1>3, <1>5, RowsExist
<1>7. PICK m \in 0..Len(rows) : Loaded(h, m)
  BY <1>1, <1>3, <1>5 DEF Importing, Loading
<1>8. PICK units : units = payload
  OBVIOUS
<1>9. units \in Seq(RowSet) /\ IsRest(units, rows, m) /\ Len(units) \in Nat
  BY <1>5, <1>7, <1>8 DEF Loaded
<1>10. importedRows = Between(rows, 0, m)
  BY <1>5, <1>7 DEF Loaded, Between
<1>11. PICK b \in 0..Len(units) :
         /\ importedRows' = Put(importedRows, ToSet(SubSeq(units, 1, b)))
         /\ payload' = SubSeq(units, b + 1, Len(units))
         /\ sync' \in {"loading", "imported"}
         /\ sync' = "imported" => b = Len(units)
  <2>1. BatchSize \in Nat
    BY Constants
  <2>2. CASE /\ Len(units) > BatchSize
             /\ importedRows' = Put(importedRows, ToSet(SubSeq(units, 1, BatchSize)))
             /\ payload' = SubSeq(units, BatchSize + 1, Len(units))
             /\ sync' = sync
    <3>1. BatchSize \in 0..Len(units)
      BY <1>9, <2>1, <2>2
    <3> QED
      BY <1>1, <2>2, <3>1
  <2>3. CASE importedRows' = Put(importedRows, ToSet(units)) /\ payload' = <<>> /\ sync' = "imported"
    <3>1. PICK l \in Nat : l = Len(units)
      BY <1>9
    <3>2. units = SubSeq(units, 1, l)
      BY <1>9, <3>1, SubSeqFull
    <3>3. SubSeq(units, l + 1, l) = <<>>
      BY <1>9, <3>1
    <3>4. l \in 0..Len(units)
      BY <3>1
    <3> QED
      BY <2>3, <3>1, <3>2, <3>3, <3>4
  <2> QED
    BY <1>8, <2>2, <2>3 DEF LoadBatch
<1>12. PICK batch : batch = SubSeq(units, 1, b)
  OBVIOUS
<1>13. PICK rest : rest = SubSeq(units, b + 1, Len(units))
  OBVIOUS
<1>14. PICK n : n = m + b
  OBVIOUS
<1>15. /\ n \in 0..Len(rows) /\ ToSet(batch) = Between(rows, m, n)
       /\ rest \in Seq(RowSet) /\ IsRest(rest, rows, n)
  <2>1. IsSplit(units, b, batch, rest)
    BY <1>12, <1>13 DEF IsSplit
  <2> QED
    BY <1>6, <1>9, <1>14, <2>1, BatchTaken
<1>16. n \in m..Len(rows)
  BY <1>6, <1>9, <1>14, <1>15
<1>17. importedRows' = Between(rows, 0, n)
  BY <1>3, <1>5, <1>10, <1>11, <1>12, <1>15, <1>16, BatchPut
<1>18. Loaded(h, n)'
  BY <1>5, <1>11, <1>13, <1>15, <1>17 DEF Loaded, Between
<1>19. sync' = "imported" => importedRows' = ToSet(rows)
  <2> SUFFICES ASSUME sync' = "imported" PROVE importedRows' = ToSet(rows)
    OBVIOUS
  <2>1. n = Len(rows)
    <3>1. b = Len(units)
      BY <1>11
    <3>2. Len(units) = Len(rows) - m
      BY <1>9 DEF IsRest
    <3> QED
      BY <1>6, <1>14, <3>1, <3>2
  <2>2. DOMAIN rows = 1..Len(rows)
    BY <1>6
  <2> QED
    BY <1>17, <2>1, <2>2 DEF ToSet, Between
<1>20. index > 0 /\ index = Len(ChunksAt(h)) /\ records = <<>>
  BY <1>1, <1>3 DEF Importing, Loading
<1>21. Loading(h)'
  BY <1>1, <1>5, <1>15, <1>18, <1>19, <1>20 DEF Loading
<1>22. ImporterTypes'
  <2>1. importedRows' \subseteq RowSet
    <3>1. \A i \in (0 + 1)..n : rows[i] \in RowSet
      BY <1>6, <1>15
    <3> QED
      BY <1>17, <3>1 DEF Between
  <2>2. offered # Missing
    BY <1>1, <1>2, Exchanging
  <2> QED
    BY <1>1, <1>11, <2>1, <2>2 DEF ExchangeInv, ImporterTypes
<1>23. AppliedTo(h)' = AppliedTo(h)
  BY <1>1, <1>11, AppliedSame DEF Applies
<1>24. SoFar(h)'
  BY <1>1, <1>3, <1>23, SoFarSame DEF Importing
<1>25. Described(h)'
  BY <1>1, <1>3 DEF Importing, Described
<1>26. Importing(h)'
  BY <1>11, <1>21, <1>24, <1>25 DEF Importing, Copying, Applying, Writing
<1> QED
  BY <1>1, <1>2, <1>4, <1>22, <1>26, ExchangeGoesOn

\* The steps that touch the state of the exchange.
LEMMA ExchangeSteps ==
  ASSUME [Next]_vars
  PROVE  \/ UNCHANGED importing \/ ServerCrash \/ ImporterCrash
         \/ \E h \in Heights : OfferSnapshot(h)
         \/ ReadJson \/ OpenChunks \/ CopyRecord \/ ChunkServed
         \/ SaveDescription \/ ApplyChunk \/ WriteRecord \/ NextChunk \/ ClearDatabase \/ LoadBatch
BY DEF Next, vars, Clear, Create, GetChunk, Import, Offer, CommitBlock, ReadList, RemoveJson,
       RemoveDbFile, RemoveChunksFile, StartCreation, DumpRow, RenameDump, WriteChunksFile, WriteJson

LEMMA ExchangeStep ==
  ASSUME ServerInv, ExchangeInv, [Next]_vars
  PROVE  ExchangeInv'
<1>1. CASE UNCHANGED importing
  BY <1>1, ServingGoesOn
<1>2. CASE ServerCrash
  BY <1>2, ServerCrashKept
<1>3. CASE ImporterCrash
  BY <1>3, ImporterCrashKept
<1>4. CASE \E h \in Heights : OfferSnapshot(h)
  BY <1>4, OfferKept
<1>5. CASE ReadJson
  BY <1>5, ReadJsonKept
<1>6. CASE OpenChunks
  BY <1>6, OpenChunksKept
<1>7. CASE CopyRecord
  BY <1>7, CopyRecordKept
<1>8. CASE ChunkServed
  BY <1>8, ChunkServedKept
<1>9. CASE SaveDescription
  BY <1>9, SaveDescriptionKept
<1>10. CASE ApplyChunk
  BY <1>10, ApplyChunkKept
<1>11. CASE WriteRecord
  BY <1>11, WriteRecordKept
<1>12. CASE NextChunk
  BY <1>12, NextChunkKept
<1>13. CASE ClearDatabase
  BY <1>13, ClearDatabaseKept
<1>14. CASE LoadBatch
  BY <1>14, LoadBatchKept
<1> QED
  BY <1>1, <1>2, <1>3, <1>4, <1>5, <1>6, <1>7, <1>8, <1>9, <1>10, <1>11, <1>12, <1>13, <1>14,
     ExchangeSteps

\* The exchange keeps its invariant, together with that of the serving node.
THEOREM ExchangeSafe == Spec => [](ServerInv /\ ExchangeInv)
<1>1. Init => ServerInv /\ ExchangeInv
  BY ServerInit, ExchangeInit
<1>2. ServerInv /\ ExchangeInv /\ [Next]_vars => (ServerInv /\ ExchangeInv)'
  BY ServerStep, ExchangeStep
<1> QED
  BY <1>1, <1>2, PTL DEF Spec

\* The files of both nodes have the types they are read with: a chunk is asked for only if
\* it was announced, and what is imported is rows and units.
THEOREM SnapshotTypes == Spec => []TypeOK
<1>1. ServerInv /\ ExchangeInv => TypeOK
  BY DEF ServerInv, ExchangeInv, ServerTypes, ImporterTypes, TypeOK
<1> QED
  BY <1>1, ExchangeSafe, PTL

\* A record is always written at the end of its file: copyBufferToFile() finds the size
\* that the record names, also over the left-overs of interrupted imports.
THEOREM OffsetsAgree == Spec => []OffsetsMatch
<1>1. ExchangeInv => OffsetsMatch
  <2> SUFFICES ASSUME ExchangeInv, sync = "writing", records # <<>>
               PROVE  Head(records).offset \in {0, Len(TargetOf(Head(records)))}
    BY DEF OffsetsMatch
  <2>1. PICK h : h = offered.height
    OBVIOUS
  <2>2. PICK r : r = Head(records)
    OBVIOUS
  <2>3. PICK c : c = Content(r.file, h)
    OBVIOUS
  <2>4. /\ r \in Records /\ EndOf(r) <= Len(c) /\ TargetOf(r) = TargetFile(r.file, h)
        /\ r.offset = 0 \/ TargetFile(r.file, h) = SubSeq(c, 1, r.offset)
        /\ r.file \in SnapshotFiles(h)
    BY <2>1, <2>2, <2>3, TargetBefore
  <2>5. h \in Heights
    BY <2>1, Exchanging
  <2>6. Len(SubSeq(c, 1, r.offset)) = r.offset
    <3>1. c \in Seq(Units)
      BY <2>3, <2>4, <2>5, ContentUnits
    <3>2. PICK offset \in Nat : offset = r.offset
      BY <2>4, RecordFields
    <3>3. EndOf(r) \in Nat /\ r.offset < EndOf(r)
      BY <2>4, RecordFields
    <3>4. offset <= Len(c)
      BY <2>4, <3>1, <3>2, <3>3
    <3>5. Len(SubSeq(c, 1, offset)) = offset
      BY <3>1, <3>2, <3>4
    <3> QED
      BY <3>2, <3>5
  <2>7. r.offset = 0 \/ r.offset = Len(TargetOf(r))
    BY <2>4, <2>6
  <2> QED
    BY <2>2, <2>7
<1>2. ServerInv /\ ExchangeInv => OffsetsMatch
  BY <1>1
<1> QED
  BY <1>2, ExchangeSafe, PTL

\* A completed import is the state that the serving node had at the height of the snapshot,
\* its tables and every data file, for every distribution of the blocks over the files,
\* every size of chunk and batch, and whatever blocks, removals, creations and crashes of
\* either node came in between.
THEOREM ImportIsFaithful == Spec => []ImportFaithful
<1>1. ExchangeInv => ImportFaithful
  <2> SUFFICES ASSUME ExchangeInv, sync = "imported"
               PROVE  /\ importedRows = ToSet(Rows(offered.height))
                      /\ \A f \in FilesUpTo(offered.height) : importedFiles[f] = Bytes(f, offered.height)
    BY DEF ImportFaithful
  <2>1. PICK h : h = offered.height
    OBVIOUS
  <2>2. h \in Heights /\ Importing(h) /\ ChunksAt(h) \in ChunkSeqs /\ Len(ChunksAt(h)) \in Nat
    BY <2>1, Exchanging
  <2>3. importedRows = ToSet(Rows(h)) /\ index = Len(ChunksAt(h)) /\ records = <<>> /\ index > 0
    BY <2>2 DEF Importing, Loading
  <2>4. Positions(ChunksAt(h)) \subseteq AppliedTo(h)
    <3>1. \A p \in Positions(ChunksAt(h)) : p \in AppliedTo(h) <=> p[1] <= index
      BY <2>1, <2>3, ChunkApplied DEF Applies
    <3>2. \A p \in Positions(ChunksAt(h)) : p[1] \in 1..Len(ChunksAt(h))
      BY <2>2, PositionsOfChunks
    <3> QED
      BY <2>2, <2>3, <3>1, <3>2
  <2>5. ASSUME NEW f \in FilesUpTo(h) PROVE importedFiles[f] = Bytes(f, h)
    <3>1. f \in SnapshotFiles(h) /\ f # DbFileIdentifier
      BY <2>2, <2>5, FilesUpToTypes DEF SnapshotFiles
    <3>2. TargetFile(f, h) = Content(f, h)
      BY <2>2, <2>4, <3>1, FilesReceived DEF Importing
    <3> QED
      BY <3>1, <3>2 DEF TargetFile, Content
  <2> QED
    BY <2>1, <2>3, <2>5
<1>2. ServerInv /\ ExchangeInv => ImportFaithful
  BY <1>1
<1> QED
  BY <1>2, ExchangeSafe, PTL
==============================================================================
