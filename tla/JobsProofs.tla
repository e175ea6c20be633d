----------------------------- MODULE JobsProofs -----------------------------
(***************************************************************************)
(* Proofs about the maintenance jobs that keep files or rewrite rows, for  *)
(* any tables, keys, exports, texts, options and bounds: backups, key      *)
(* rotation, re-embedding and migration, with what others do between their *)
(* steps, and the ingest of a document that is cut into segments.          *)
(*                                                                         *)
(* What is promised of a finished job, or of a file, is not inductive: a   *)
(* restore holds its past only if every snapshot does, a rotation's report *)
(* is right only if the page it holds is still in place, a resumed job is  *)
(* complete only if its checkpoint still owes what it owed, a migration    *)
(* only if each of its batches left what is owed so far.  Each section     *)
(* states that of the run in progress and proves it step by step; the      *)
(* lemmas about the table say what JobTable's operators return.            *)
(***************************************************************************)
EXTENDS Jobs, SelectionLemmas

-----------------------------------------------------------------------------
(* The table of the jobs: what its operators return.                       *)

Unique(rows) == \A i, j \in DOMAIN rows : rows[i].id = rows[j].id => i = j

\* Some of the rows of a table.
LEMMA SelectAtUnique ==
    ASSUME NEW S, NEW rows \in Seq(S), NEW positions \in SUBSET DOMAIN rows, Unique(rows)
    PROVE  Unique(SelectAt(rows, positions))
<1> DEFINE t == SelectAt(rows, positions)
<1> SUFFICES ASSUME NEW n \in DOMAIN t, NEW m \in DOMAIN t, t[n].id = t[m].id PROVE n = m
    BY DEF Unique
<1>1. Nth(positions, n) = Nth(positions, m)
    BY SelectAtFacts DEF Unique
<1> QED BY <1>1, SelectAtFacts

\* A page is a stretch of the rows.
LEMMA PageFacts ==
    ASSUME NEW S, NEW rows \in Seq(S), NEW offset \in Nat, NEW limit \in Nat \ {0}
    PROVE  LET p == Page(rows, offset, limit)
           IN  /\ p \in Seq(S)
               /\ DOMAIN p = 1..Len(p) /\ Len(p) <= limit
               /\ \A j \in DOMAIN p : offset + j \in DOMAIN rows /\ p[j] = rows[offset + j]
               /\ p = <<>> <=> Len(rows) <= offset
               /\ \A i \in DOMAIN rows : offset < i /\ i <= offset + limit => i - offset \in DOMAIN p
<1>1. PICK last \in Nat :
         /\ Page(rows, offset, limit) = SubSeq(rows, offset + 1, last)
         /\ last <= Len(rows) /\ last <= offset + limit /\ (last = offset + limit \/ last = Len(rows))
    <2> DEFINE l == IF offset + limit <= Len(rows) THEN offset + limit ELSE Len(rows)
    <2>1. Page(rows, offset, limit) = SubSeq(rows, offset + 1, l)
        BY DEF Page
    <2>2. l \in Nat /\ l <= Len(rows) /\ l <= offset + limit /\ (l = offset + limit \/ l = Len(rows))
        OBVIOUS
    <2> QED BY <2>1, <2>2
<1> DEFINE p == Page(rows, offset, limit)
<1>2. Len(rows) \in Nat /\ DOMAIN rows = 1..Len(rows)
    OBVIOUS
<1>22. last <= Len(rows)
    BY <1>1
<1>3. ASSUME NEW k \in (offset + 1)..last PROVE rows[k] \in S
    <2>1. k \in Nat /\ offset + 1 <= k /\ k <= last
        OBVIOUS
    <2>2. k <= Len(rows) /\ 1 <= k
        BY <1>2, <1>22, <2>1
    <2>3. k \in DOMAIN rows
        BY <1>2, <2>1, <2>2
    <2> QED BY <2>3
<1>4. /\ SubSeq(rows, offset + 1, last) \in Seq(S)
      /\ Len(SubSeq(rows, offset + 1, last)) = IF offset + 1 <= last THEN last - offset ELSE 0
      /\ \A j \in 1..(last - offset) : SubSeq(rows, offset + 1, last)[j] = rows[offset + j]
    BY <1>1, <1>3
<1> HIDE DEF p
<1>5. /\ p \in Seq(S) /\ DOMAIN p = 1..Len(p) /\ Len(p) \in Nat
      /\ \A j \in 1..(last - offset) : p[j] = rows[offset + j]
    <2>1. p \in Seq(S) /\ \A j \in 1..(last - offset) : p[j] = rows[offset + j]
        BY <1>1, <1>4 DEF p
    <2> QED BY <2>1
<1>6. offset < last => Len(p) = last - offset
    BY <1>1, <1>4 DEF p
<1>7. ~(offset < last) => Len(p) = 0
    BY <1>1, <1>4 DEF p
<1>21. Len(p) <= limit
    BY <1>1, <1>6, <1>7
<1>8. \A j \in DOMAIN p : offset + j \in DOMAIN rows /\ p[j] = rows[offset + j]
    <2> TAKE j \in DOMAIN p
    <2>1. j \in Nat /\ 1 <= j /\ j <= Len(p)
        BY <1>5
    <2>2. offset < last /\ j <= last - offset
        BY <1>1, <1>6, <1>7, <2>1
    <2>3. j \in 1..(last - offset)
        BY <2>1, <2>2
    <2>4. offset + j \in 1..Len(rows)
        BY <1>2, <1>22, <2>1, <2>2
    <2> QED BY <1>2, <1>5, <2>3, <2>4
<1>9. p = <<>> <=> Len(rows) <= offset
    <2>1. p = <<>> <=> Len(p) = 0
        BY <1>5
    <2>2. Len(p) = 0 <=> Len(rows) <= offset
        BY <1>1, <1>6, <1>7
    <2> QED BY <2>1, <2>2
<1>10. ASSUME NEW i \in DOMAIN rows, offset < i, i <= offset + limit
       PROVE  i - offset \in DOMAIN p
    <2>1. i \in Nat /\ i <= Len(rows)
        BY <1>2
    <2>2. i <= last
        BY <1>1, <1>2, <1>10, <2>1
    <2>3. i - offset \in 1..(last - offset) /\ Len(p) = last - offset
        BY <1>1, <1>6, <1>10, <2>1, <2>2
    <2> QED BY <1>5, <2>3
<1> QED BY <1>5, <1>21, <1>8, <1>9, <1>10 DEF p

LEMMA UpdateRowFacts ==
    ASSUME NEW S, NEW rows \in Seq(S), NEW row \in S
    PROVE  LET t == UpdateRow(rows, row)
           IN  /\ t \in Seq(S) /\ Len(t) = Len(rows) /\ DOMAIN t = DOMAIN rows
               /\ \A i \in DOMAIN rows : t[i] = IF rows[i].id = row.id THEN row ELSE rows[i]
               /\ Unique(rows) => Unique(t)
<1>1. \A i \in DOMAIN rows : (IF rows[i].id = row.id THEN row ELSE rows[i]) \in S
    OBVIOUS
<1>2. UpdateRow(rows, row) \in Seq(S) /\ Len(UpdateRow(rows, row)) = Len(rows)
      /\ DOMAIN UpdateRow(rows, row) = DOMAIN rows
    BY <1>1 DEF UpdateRow
<1>3. \A i \in DOMAIN rows : UpdateRow(rows, row)[i] = IF rows[i].id = row.id THEN row ELSE rows[i]
    BY DEF UpdateRow
<1> QED BY <1>2, <1>3 DEF Unique

\* An upsert overwrites the row of its id or comes after the last one.
LEMMA UpsertRowFacts ==
    ASSUME NEW S, NEW rows \in Seq(S), NEW row \in S
    PROVE  LET t == UpsertRow(rows, row)
           IN  /\ t \in Seq(S) /\ DOMAIN rows \subseteq DOMAIN t
               /\ \A i \in DOMAIN rows : t[i] = IF rows[i].id = row.id THEN row ELSE rows[i]
               /\ \A i \in DOMAIN t \ DOMAIN rows : i = Len(rows) + 1 /\ t[i] = row
               /\ row.id \in Ids(rows) => DOMAIN t = DOMAIN rows
               /\ row.id \notin Ids(rows) => Len(t) = Len(rows) + 1
               /\ Unique(rows) => Unique(t)
<1>1. CASE row.id \in Ids(rows)
    <2>1. UpsertRow(rows, row) = UpdateRow(rows, row)
        BY <1>1 DEF UpsertRow, UpdateRow
    <2> QED BY <1>1, <2>1, UpdateRowFacts
<1>2. CASE row.id \notin Ids(rows)
    <2> DEFINE t == Append(rows, row)
    <2>1. UpsertRow(rows, row) = t
        BY <1>2 DEF UpsertRow
    <2>2. t \in Seq(S) /\ Len(t) = Len(rows) + 1 /\ DOMAIN t = 1..(Len(rows) + 1) /\ DOMAIN rows = 1..Len(rows)
          /\ Len(rows) \in Nat
        OBVIOUS
    <2>3. \A i \in DOMAIN rows : t[i] = rows[i] /\ rows[i].id # row.id
        BY <1>2 DEF Ids
    <2>4. t[Len(rows) + 1] = row
        OBVIOUS
    <2>5. Unique(rows) => Unique(t)
        BY <2>2, <2>3, <2>4 DEF Unique
    <2>6. \A i \in DOMAIN t \ DOMAIN rows : i = Len(rows) + 1
        BY <2>2
    <2> HIDE DEF t
    <2>7. DOMAIN rows \subseteq DOMAIN t
        BY <2>2
    <2>8. \A i \in DOMAIN rows : t[i] = IF rows[i].id = row.id THEN row ELSE rows[i]
        BY <2>3
    <2>9. \A i \in DOMAIN t \ DOMAIN rows : i = Len(rows) + 1 /\ t[i] = row
        BY <2>4, <2>6
    <2> QED BY <1>2, <2>1, <2>2, <2>5, <2>7, <2>8, <2>9, Zenon
<1> QED BY <1>1, <1>2

\* A row of a table is the row of its id.
LEMMA RowOfFacts ==
    ASSUME NEW S, NEW rows \in Seq(S), Unique(rows)
    PROVE  /\ \A i \in DOMAIN rows : rows[i].id \in Ids(rows) /\ RowOf(rows, rows[i].id) = rows[i]
           /\ \A id \in Ids(rows) : \E i \in DOMAIN rows : rows[i].id = id /\ RowOf(rows, id) = rows[i]
<1>1. ASSUME NEW i \in DOMAIN rows PROVE RowOf(rows, rows[i].id) = rows[i]
    <2> DEFINE j == CHOOSE j \in DOMAIN rows : rows[j].id = rows[i].id
    <2>1. j \in DOMAIN rows /\ rows[j].id = rows[i].id
        OBVIOUS
    <2>2. j = i
        BY <2>1 DEF Unique
    <2> QED BY <2>2 DEF RowOf
<1> QED BY <1>1 DEF Ids

\* A deletion leaves the other rows.
LEMMA DropRowFacts ==
    ASSUME NEW S, NEW rows \in Seq(S), NEW id
    PROVE  LET t == DropRow(rows, id)
           IN  /\ t \in Seq(S)
               /\ \A n \in DOMAIN t : \E i \in DOMAIN rows : t[n] = rows[i] /\ rows[i].id # id
               /\ \A i \in DOMAIN rows : rows[i].id # id => \E n \in DOMAIN t : t[n] = rows[i]
               /\ Unique(rows) => Unique(t)
<1> DEFINE kept == {i \in DOMAIN rows : rows[i].id # id}
<1>1. kept \in SUBSET DOMAIN rows /\ DropRow(rows, id) = SelectAt(rows, kept)
    BY DEF DropRow
<1>2. \A i \in kept : i \in DOMAIN rows /\ rows[i].id # id
    OBVIOUS
<1>3. \A i \in DOMAIN rows : rows[i].id # id => i \in kept
    OBVIOUS
<1> HIDE DEF kept
<1>4. SelectAt(rows, kept) \in Seq(S)
    BY <1>1, SelectAtFacts
<1>5. \A n \in DOMAIN SelectAt(rows, kept) : \E i \in DOMAIN rows :
          SelectAt(rows, kept)[n] = rows[i] /\ rows[i].id # id
    BY <1>1, <1>2, SelectAtFacts
<1>6. \A i \in DOMAIN rows : rows[i].id # id => \E n \in DOMAIN SelectAt(rows, kept) :
          SelectAt(rows, kept)[n] = rows[i]
    BY <1>1, <1>3, SelectAtFacts
<1>7. Unique(rows) => Unique(SelectAt(rows, kept))
    BY <1>1, SelectAtUnique
<1> QED BY <1>1, <1>4, <1>5, <1>6, <1>7

\* A batch overwrites the rows of its ids; its other rows come after the last one.
LEMMA UpsertRowsFacts ==
    ASSUME NEW S, NEW rows \in Seq(S), NEW batch \in Seq(S), Unique(batch)
    PROVE  LET t == UpsertRows(rows, batch)
           IN  /\ t \in Seq(S) /\ DOMAIN rows \subseteq DOMAIN t
               /\ \A i \in DOMAIN rows :
                     \/ rows[i].id \notin Ids(batch) /\ t[i] = rows[i]
                     \/ \E n \in DOMAIN batch : batch[n].id = rows[i].id /\ t[i] = batch[n]
               /\ \A i \in DOMAIN t \ DOMAIN rows : \E n \in DOMAIN batch :
                     t[i] = batch[n] /\ batch[n].id \notin Ids(rows)
               /\ \A n \in DOMAIN batch : \E i \in DOMAIN t : t[i] = batch[n]
               /\ Unique(rows) => Unique(t)
<1> DEFINE fresh == {n \in DOMAIN batch : batch[n].id \notin Ids(rows)}
           tail  == SelectAt(batch, fresh)
           head  == [i \in DOMAIN rows |-> IF rows[i].id \in Ids(batch) THEN RowOf(batch, rows[i].id) ELSE rows[i]]
           t     == UpsertRows(rows, batch)
<1>1. /\ fresh \in SUBSET DOMAIN batch
      /\ \A n \in fresh : batch[n].id \notin Ids(rows)
      /\ \A n \in DOMAIN batch : batch[n].id \in Ids(rows) \/ n \in fresh
      /\ t = head \o tail
    BY DEF UpsertRows
<1> HIDE DEF fresh, t
<1>2. /\ tail \in Seq(S) /\ Len(tail) \in Nat /\ DOMAIN tail = 1..Len(tail)
      /\ \A n \in DOMAIN tail : \E m \in fresh : tail[n] = batch[m]
      /\ \A m \in fresh : \E n \in DOMAIN tail : tail[n] = batch[m]
    <2>1. tail \in Seq(S)
        BY <1>1, SelectAtFacts
    <2>0. fresh \in SUBSET DOMAIN batch /\ batch \in Seq(S)
        BY <1>1
    <2>4. \A n \in DOMAIN tail : Nth(fresh, n) \in fresh /\ tail[n] = batch[Nth(fresh, n)]
        BY <2>0, SelectAtFacts
    <2>5. \A m \in fresh : RankIn(fresh, m) \in DOMAIN tail /\ tail[RankIn(fresh, m)] = batch[m]
        BY <2>0, SelectAtFacts
    <2> HIDE DEF tail
    <2>2. \A n \in DOMAIN tail : \E m \in fresh : tail[n] = batch[m]
        BY <2>4
    <2>3. \A m \in fresh : \E n \in DOMAIN tail : tail[n] = batch[m]
        BY <2>5
    <2> QED BY <2>1, <2>2, <2>3
<1>3. Unique(tail)
    BY <1>1, SelectAtUnique
<1>4. ASSUME NEW i \in DOMAIN rows
      PROVE  \/ rows[i].id \notin Ids(batch) /\ head[i] = rows[i]
             \/ \E n \in DOMAIN batch : batch[n].id = rows[i].id /\ head[i] = batch[n]
    BY RowOfFacts
<1>5. ASSUME NEW i \in DOMAIN rows PROVE head[i] \in S /\ head[i].id = rows[i].id
    BY <1>4
<1>6. head \in Seq(S) /\ Len(head) = Len(rows) /\ DOMAIN head = 1..Len(rows) /\ DOMAIN rows = 1..Len(rows)
      /\ Len(rows) \in Nat
    <2>1. DOMAIN head = 1..Len(rows) /\ Len(rows) \in Nat /\ DOMAIN rows = 1..Len(rows)
        OBVIOUS
    <2>2. head \in [1..Len(rows) -> S]
        BY <1>5, <2>1
    <2> HIDE DEF head
    <2> QED BY <2>1, <2>2
<1> HIDE DEF head, tail
<1>7. /\ t \in Seq(S) /\ Len(t) = Len(rows) + Len(tail) /\ DOMAIN t = 1..(Len(rows) + Len(tail))
      /\ \A i \in 1..Len(rows) : t[i] = head[i]
    <2>1. head \o tail \in Seq(S) /\ Len(head \o tail) = Len(rows) + Len(tail)
        BY <1>2, <1>6
    <2>2. t \in Seq(S) /\ Len(t) = Len(rows) + Len(tail)
        BY <1>1, <2>1, Zenon
    <2>3. \A i \in 1..Len(rows) : (head \o tail)[i] = head[i]
        BY <1>2, <1>6
    <2>4. \A i \in 1..Len(rows) : t[i] = head[i]
        BY <1>1, <2>3, Zenon
    <2>5. DOMAIN t = 1..(Len(rows) + Len(tail))
        BY <2>2
    <2> QED BY <2>2, <2>4, <2>5
<1>8. \A i \in (Len(rows) + 1)..(Len(rows) + Len(tail)) : i - Len(rows) \in DOMAIN tail /\ t[i] = tail[i - Len(rows)]
    BY <1>1, <1>2, <1>6
<1>9. \A n \in DOMAIN tail : Len(rows) + n \in DOMAIN t \ DOMAIN rows /\ t[Len(rows) + n] = tail[n]
    <2> TAKE n \in DOMAIN tail
    <2>1. n \in Nat /\ 1 <= n /\ n <= Len(tail)
        BY <1>2
    <2>2. Len(rows) + n \in (Len(rows) + 1)..(Len(rows) + Len(tail)) /\ (Len(rows) + n) - Len(rows) = n
        BY <1>2, <1>6, <2>1
    <2>3. Len(rows) + n \in 1..(Len(rows) + Len(tail)) /\ Len(rows) + n \notin 1..Len(rows)
        BY <1>2, <1>6, <2>1
    <2>4. Len(rows) + n \in DOMAIN t /\ Len(rows) + n \notin DOMAIN rows
        BY <1>6, <1>7, <2>3
    <2>5. t[Len(rows) + n] = tail[n]
        BY <1>8, <2>2
    <2> QED BY <2>4, <2>5
<1>10. DOMAIN rows \subseteq DOMAIN t
    BY <1>2, <1>6, <1>7
<1>11. ASSUME NEW i \in DOMAIN t \ DOMAIN rows
       PROVE  i - Len(rows) \in DOMAIN tail /\ t[i] = tail[i - Len(rows)]
    <2>1. i \in (Len(rows) + 1)..(Len(rows) + Len(tail)) /\ Len(rows) \in Nat
        BY <1>2, <1>6, <1>7
    <2>2. i - Len(rows) \in 1..Len(tail)
        BY <1>2, <2>1
    <2> QED BY <1>2, <1>8, <2>1, <2>2
<1>12. \A i \in DOMAIN rows :
          \/ rows[i].id \notin Ids(batch) /\ t[i] = rows[i]
          \/ \E n \in DOMAIN batch : batch[n].id = rows[i].id /\ t[i] = batch[n]
    BY <1>4, <1>6, <1>7
<1>13. \A i \in DOMAIN t \ DOMAIN rows : \E n \in DOMAIN batch :
          t[i] = batch[n] /\ batch[n].id \notin Ids(rows)
    BY <1>1, <1>2, <1>11
<1>14. ASSUME NEW n \in DOMAIN batch PROVE \E i \in DOMAIN t : t[i] = batch[n]
    <2>1. CASE n \in fresh
        BY <1>2, <1>9, <2>1
    <2>2. CASE batch[n].id \in Ids(rows)
        <3>1. PICK i \in DOMAIN rows : rows[i].id = batch[n].id
            BY <2>2 DEF Ids
        <3>2. batch[n].id \in Ids(batch)
            BY DEF Ids
        <3>3. PICK m \in DOMAIN batch : batch[m].id = rows[i].id /\ t[i] = batch[m]
            BY <1>12, <3>1, <3>2
        <3>4. m = n
            BY <3>1, <3>3 DEF Unique
        <3> QED BY <1>10, <3>3, <3>4
    <2> QED BY <1>1, <2>1, <2>2
<1>15. ASSUME Unique(rows) PROVE Unique(t)
    <2> SUFFICES ASSUME NEW i \in DOMAIN t, NEW j \in DOMAIN t, t[i].id = t[j].id PROVE i = j
        BY DEF Unique
    <2>1. \A k \in DOMAIN rows : t[k].id = rows[k].id
        BY <1>5, <1>6, <1>7
    <2>2. \A k \in DOMAIN t \ DOMAIN rows : t[k].id \notin Ids(rows)
        BY <1>13
    <2>3. CASE i \in DOMAIN rows /\ j \in DOMAIN rows
        BY <1>15, <2>1, <2>3 DEF Unique
    <2>4. CASE i \in DOMAIN rows /\ j \notin DOMAIN rows
        BY <2>1, <2>2, <2>4 DEF Ids
    <2>5. CASE i \notin DOMAIN rows /\ j \in DOMAIN rows
        BY <2>1, <2>2, <2>5 DEF Ids
    <2>6. CASE i \notin DOMAIN rows /\ j \notin DOMAIN rows
        <3>1. i - Len(rows) = j - Len(rows)
            BY <1>3, <1>11, <2>6 DEF Unique
        <3> QED BY <1>6, <1>7, <1>2, <3>1
    <2> QED BY <2>3, <2>4, <2>5, <2>6
<1> QED BY <1>7, <1>10, <1>12, <1>13, <1>14, <1>15 DEF t

-----------------------------------------------------------------------------
(* Backups.                                                                *)

SnapshotFile == [has : Nat, whole : BOOLEAN, modified : Nat]
CatalogLine == [stamp : Nat, good : BOOLEAN, ended : BOOLEAN]
MakerPhases == {"idle", "copy", "verify", "record", "newline"}
RestorePhases == {"stopped", "remove", "copy", "done"}

BackupTypes ==
    /\ clock \in Nat
    /\ commitTimes \in Seq(Nat)
    /\ files \in [DOMAIN files -> SnapshotFile]
    /\ DOMAIN files \subseteq 0..clock
    /\ catalog \in Seq(CatalogLine)
    /\ maker \in [phase : MakerPhases, stamp : 0..clock, made : Nat]
    /\ maker.phase = "newline" => catalog # <<>>
    /\ dest \in [db : Nat, wal : BOOLEAN]
    /\ restore \in [phase : RestorePhases, path : 0..clock, stamp : 0..clock, listed : BOOLEAN]

\* The commits made before a stamp are among the first n.
HoldsBefore(n, stamp) == \A i \in DOMAIN commitTimes : commitTimes[i] < stamp => i <= n

CommitsPast == \A i \in DOMAIN commitTimes : commitTimes[i] <= clock

\* A whole snapshot nobody emptied holds what was committed before its stamp.
SnapshotsHold ==
    \A p \in DOMAIN files \ emptied : files[p].whole => HoldsBefore(files[p].has, p)

RestoreSound ==
    /\ restore.listed => restore.path = restore.stamp
    /\ restore.phase \in {"copy", "done"} => ~dest.wal
    /\ restore.phase = "done" /\ restore.listed /\ restore.path \notin emptied
          => HoldsBefore(dest.db, restore.stamp)

BackupInv == BackupTypes /\ CommitsPast /\ SnapshotsHold /\ RestoreSound

LEMMA BackupInitInv == BackupInit => BackupInv
BY DEF BackupInit, BackupInv, BackupTypes, HoldsBefore, CommitsPast, SnapshotsHold, RestoreSound,
       SnapshotFile, CatalogLine, MakerPhases, RestorePhases

\* What the steps do to a line of the catalog and to a file.
LEMMA LineFacts ==
    ASSUME NEW line \in CatalogLine
    PROVE  /\ [line EXCEPT !.good = FALSE] \in CatalogLine
           /\ [line EXCEPT !.ended = TRUE] \in CatalogLine
BY DEF CatalogLine

LEMMA ExceptSeq ==
    ASSUME NEW S, NEW s \in Seq(S), NEW n \in DOMAIN s, NEW e \in S
    PROVE  [s EXCEPT ![n] = e] \in Seq(S) /\ Len([s EXCEPT ![n] = e]) = Len(s)
OBVIOUS

LEMMA TouchedFile ==
    ASSUME NEW f, f \in [DOMAIN f -> SnapshotFile], NEW p \in DOMAIN f, NEW c \in Nat
    PROVE  LET g == [f EXCEPT ![p].modified = c]
           IN  /\ DOMAIN g = DOMAIN f /\ g \in [DOMAIN g -> SnapshotFile]
               /\ \A q \in DOMAIN f : g[q].has = f[q].has /\ g[q].whole = f[q].whole
BY DEF SnapshotFile

\* A file is added or overwritten, with the time of now.
LEMMA WithFileFacts ==
    ASSUME BackupTypes, NEW path \in 0..clock, NEW has \in Nat, NEW whole \in BOOLEAN,
           files' = WithFile(path, has, whole)
    PROVE  /\ DOMAIN files' = DOMAIN files \cup {path}
           /\ files' \in [DOMAIN files' -> SnapshotFile]
           /\ DOMAIN files' \subseteq 0..clock
           /\ files'[path].has = has
           /\ \A p \in DOMAIN files \ {path} : files'[p] = files[p]
<1>1. clock \in Nat /\ DOMAIN files \subseteq 0..clock /\ files \in [DOMAIN files -> SnapshotFile]
    BY DEF BackupTypes
<1>2. [has |-> has, whole |-> whole, modified |-> clock] \in SnapshotFile
    BY <1>1 DEF SnapshotFile
<1> QED BY <1>1, <1>2 DEF WithFile

LEMMA ListedFacts ==
    ASSUME BackupTypes, NEW r \in Listed
    PROVE  /\ r.stamp \in Nat
           /\ catalog # <<>> => r.path = r.stamp
<1>1. CASE catalog # <<>>
    <2>1. PICK i \in DOMAIN catalog : r = [stamp |-> catalog[i].stamp, path |-> catalog[i].stamp]
        BY <1>1 DEF Listed
    <2>2. catalog[i] \in CatalogLine
        BY DEF BackupTypes
    <2> QED BY <2>1, <2>2 DEF CatalogLine
<1>2. CASE catalog = <<>>
    <2>1. PICK p \in DOMAIN files : r = [stamp |-> files[p].modified, path |-> p]
        BY <1>2 DEF Listed
    <2>2. files[p] \in SnapshotFile
        BY DEF BackupTypes
    <2> QED BY <1>2, <2>1, <2>2 DEF SnapshotFile
<1> QED BY <1>1, <1>2

LEMMA WithoutFacts ==
    ASSUME BackupTypes, NEW paths
    PROVE  LET w == Without(paths)
           IN  /\ w \in [DOMAIN w -> SnapshotFile]
               /\ DOMAIN w \subseteq DOMAIN files
               /\ \A p \in DOMAIN w : w[p] = files[p]
BY DEF BackupTypes, Without

\* Fewer files: what is left was there before.
LEMMA FewerFilesInv ==
    ASSUME BackupInv, NEW paths, files' = Without(paths),
           UNCHANGED <<clock, commitTimes, catalog, maker, dest, restore, emptied>>
    PROVE  BackupInv'
<1>1. BackupTypes'
    BY WithoutFacts DEF BackupInv, BackupTypes
<1>2. SnapshotsHold'
    BY WithoutFacts DEF BackupInv, SnapshotsHold, HoldsBefore
<1> QED BY <1>1, <1>2 DEF BackupInv, CommitsPast, RestoreSound, HoldsBefore

\* A step of the backups, one case per action.
LEMMA BackupNextInv == ASSUME BackupInv, [BackupNext]_backupVars PROVE BackupInv'
<1> USE DEF BackupInv
<1>1. CASE Tick
    BY <1>1 DEF BackupTypes, CommitsPast, SnapshotsHold, RestoreSound, HoldsBefore, Tick
<1>2. CASE Commit
    <2> USE <1>2 DEF Commit
    <2>1. BackupTypes'
        BY DEF BackupTypes
    <2>2. \A i \in DOMAIN commitTimes' : \/ i \in DOMAIN commitTimes /\ commitTimes'[i] = commitTimes[i]
                                         \/ commitTimes'[i] = clock
        BY DEF BackupTypes
    <2>3. ASSUME NEW n, NEW stamp \in 0..clock, HoldsBefore(n, stamp) PROVE HoldsBefore(n, stamp)'
        BY <2>2, <2>3 DEF HoldsBefore, BackupTypes
    <2>4. SnapshotsHold'
        BY <2>3 DEF SnapshotsHold, BackupTypes
    <2>5. RestoreSound'
        BY <2>3 DEF RestoreSound, BackupTypes
    <2> QED BY <2>1, <2>2, <2>4, <2>5 DEF CommitsPast, BackupTypes
<1>3. CASE StampSnapshot
    BY <1>3 DEF BackupTypes, CommitsPast, SnapshotsHold, RestoreSound, HoldsBefore, StampSnapshot, MakerPhases
<1>4. CASE CopySnapshot
    <2> USE <1>4 DEF CopySnapshot, MakerStops
    <2>1. CASE UNCHANGED files
        BY <2>1 DEF BackupTypes, CommitsPast, SnapshotsHold, RestoreSound, HoldsBefore, MakerPhases
    <2>2. ASSUME NEW whole \in BOOLEAN, maker.stamp \notin DOMAIN files,
                 files' = WithFile(maker.stamp, Len(commitTimes), whole)
          PROVE  BackupInv'
        <3>1. maker.stamp \in 0..clock /\ Len(commitTimes) \in Nat
            BY DEF BackupTypes
        <3>2. BackupTypes'
            <4>1. files' \in [DOMAIN files' -> SnapshotFile] /\ DOMAIN files' \subseteq 0..clock
                BY <2>2, <3>1, WithFileFacts
            <4>2. maker' \in [phase : MakerPhases, stamp : 0..clock, made : Nat] /\ maker'.phase # "newline"
                BY DEF BackupTypes, MakerPhases
            <4> QED BY <4>1, <4>2 DEF BackupTypes
        <3>3. HoldsBefore(Len(commitTimes), maker.stamp)
            BY DEF HoldsBefore, BackupTypes
        <3>4. /\ files'[maker.stamp].has = Len(commitTimes)
              /\ DOMAIN files' = DOMAIN files \cup {maker.stamp}
              /\ \A p \in DOMAIN files \ {maker.stamp} : files'[p] = files[p]
            BY <2>2, <3>1, WithFileFacts
        <3>5. SnapshotsHold'
            BY <3>3, <3>4 DEF SnapshotsHold, HoldsBefore
        <3> QED BY <3>2, <3>5 DEF CommitsPast, RestoreSound, HoldsBefore
    <2> QED BY <2>1, <2>2
<1>5. CASE VerifySnapshot
    <2> USE <1>5 DEF VerifySnapshot
    <2>1. CASE maker.stamp \in DOMAIN files
        <3>0. /\ files' = [files EXCEPT ![maker.stamp].modified = clock]
              /\ files \in [DOMAIN files -> SnapshotFile] /\ clock \in Nat
            BY <2>1 DEF BackupTypes
        <3>1. /\ DOMAIN files' = DOMAIN files
              /\ files' \in [DOMAIN files' -> SnapshotFile]
              /\ \A p \in DOMAIN files : files'[p].has = files[p].has /\ files'[p].whole = files[p].whole
            BY <2>1, <3>0, TouchedFile
        <3>2. BackupTypes'
            BY <2>1, <3>1 DEF BackupTypes, MakerPhases
        <3>3. SnapshotsHold'
            BY <2>1, <3>1 DEF SnapshotsHold, HoldsBefore
        <3> QED BY <2>1, <3>2, <3>3 DEF CommitsPast, RestoreSound, HoldsBefore
    <2>2. CASE maker.stamp \notin DOMAIN files
        <3>1. maker.stamp \in 0..clock
            BY DEF BackupTypes
        <3>2. BackupTypes'
            <4>1. files' \in [DOMAIN files' -> SnapshotFile] /\ DOMAIN files' \subseteq 0..clock
                BY <2>2, <3>1, WithFileFacts
            <4>2. maker' \in [phase : MakerPhases, stamp : 0..clock, made : Nat] /\ maker'.phase # "newline"
                BY DEF BackupTypes, MakerPhases
            <4> QED BY <4>1, <4>2 DEF BackupTypes
        <3>3. SnapshotsHold'
            BY <2>2, <3>1, WithFileFacts DEF SnapshotsHold, HoldsBefore
        <3> QED BY <2>2, <3>2, <3>3 DEF CommitsPast, RestoreSound, HoldsBefore
    <2> QED BY <2>1, <2>2
<1>6. CASE AppendRecord
    <2> USE <1>6 DEF AppendRecord
    <2>1. catalog' \in Seq(CatalogLine) /\ catalog' # <<>>
        <3>1. [stamp |-> maker.stamp, good |-> TRUE, ended |-> FALSE] \in CatalogLine
            BY DEF BackupTypes, CatalogLine
        <3>2. catalog \in Seq(CatalogLine) /\ Len(catalog) \in Nat
            BY DEF BackupTypes
        <3>3. CASE Len(catalog) > 0 /\ ~catalog[Len(catalog)].ended
            <4>1. Len(catalog) \in DOMAIN catalog /\ catalog[Len(catalog)] \in CatalogLine
                BY <3>2, <3>3
            <4>2. catalog' = [catalog EXCEPT ![Len(catalog)] = [catalog[Len(catalog)] EXCEPT !.good = FALSE]]
                BY <3>3
            <4>3. [catalog[Len(catalog)] EXCEPT !.good = FALSE] \in CatalogLine
                BY <4>1, LineFacts
            <4>4. catalog' \in Seq(CatalogLine) /\ Len(catalog') = Len(catalog)
                BY <3>2, <4>1, <4>2, <4>3, ExceptSeq
            <4> QED BY <3>3, <4>4
        <3>4. CASE ~(Len(catalog) > 0 /\ ~catalog[Len(catalog)].ended)
            <4>1. catalog' = Append(catalog, [stamp |-> maker.stamp, good |-> TRUE, ended |-> FALSE])
                BY <3>4
            <4>2. Len(catalog') = Len(catalog) + 1 /\ catalog' \in Seq(CatalogLine)
                BY <3>1, <3>2, <4>1
            <4> QED BY <3>2, <4>2
        <3> QED BY <3>3, <3>4
    <2>2. BackupTypes'
        BY <2>1 DEF BackupTypes, MakerPhases
    <2> QED BY <2>2 DEF CommitsPast, SnapshotsHold, RestoreSound, HoldsBefore
<1>7. CASE AppendNewline
    <2> USE <1>7 DEF AppendNewline, MakerStops
    <2>1. catalog' \in Seq(CatalogLine)
        <3>1. catalog \in Seq(CatalogLine) /\ Len(catalog) \in DOMAIN catalog
            BY DEF BackupTypes
        <3>2. catalog[Len(catalog)] \in CatalogLine
            BY <3>1
        <3>3. catalog' = [catalog EXCEPT ![Len(catalog)] = [catalog[Len(catalog)] EXCEPT !.ended = TRUE]]
            OBVIOUS
        <3>4. [catalog[Len(catalog)] EXCEPT !.ended = TRUE] \in CatalogLine
            BY <3>2, LineFacts
        <3> QED BY <3>1, <3>3, <3>4, ExceptSeq
    <2>2. BackupTypes'
        BY <2>1 DEF BackupTypes, MakerPhases
    <2> QED BY <2>2 DEF CommitsPast, SnapshotsHold, RestoreSound, HoldsBefore
<1>8. CASE MakerKilled
    BY <1>8 DEF BackupTypes, CommitsPast, SnapshotsHold, RestoreSound, HoldsBefore, MakerKilled,
                MakerStops, MakerPhases
<1>9. ASSUME NEW retention \in Retentions, Prune(retention) PROVE BackupInv'
    BY <1>9, FewerFilesInv DEF Prune
<1>10. CASE RemoveByHand
    BY <1>10, FewerFilesInv DEF RemoveByHand
<1>11. CASE BeginRestore
    <2> USE <1>11 DEF BeginRestore
    <2>1. PICK target \in 0..clock : \E r \in Selectable(target) :
             restore' = [phase |-> "remove", path |-> r.path, stamp |-> r.stamp, listed |-> catalog # <<>>]
        OBVIOUS
    <2>2. PICK r \in Selectable(target) :
             restore' = [phase |-> "remove", path |-> r.path, stamp |-> r.stamp, listed |-> catalog # <<>>]
        BY <2>1
    <2>3. /\ r.stamp \in 0..clock /\ r.path \in DOMAIN files
          /\ catalog # <<>> => r.path = r.stamp
        <3>1. r \in Listed /\ r.stamp <= target /\ r.path \in DOMAIN files
            BY DEF Selectable, Restorable
        <3>2. clock \in Nat
            BY DEF BackupTypes
        <3> QED BY <3>1, <3>2, ListedFacts
    <2>4. BackupTypes' /\ RestoreSound'
        BY <2>2, <2>3 DEF BackupTypes, RestoreSound, RestorePhases
    <2> QED BY <2>4 DEF CommitsPast, SnapshotsHold, HoldsBefore
<1>12. CASE RemoveDestination
    <2> USE <1>12 DEF RemoveDestination
    <2>1. Gone \in Nat
        BY BackupAssumption DEF Gone
    <2>2. /\ dest' \in [db : Nat, wal : BOOLEAN]
          /\ restore' \in [phase : RestorePhases, path : 0..clock, stamp : 0..clock, listed : BOOLEAN]
          /\ restore'.path = restore.path /\ restore'.stamp = restore.stamp
          /\ restore'.listed = restore.listed
          /\ restore'.phase = "stopped" \/ (restore'.phase = "copy" /\ dest'.wal = FALSE)
        <3>1. CASE dest' = [db |-> Gone, wal |-> FALSE] /\ restore' = [restore EXCEPT !.phase = "copy"]
            BY <2>1, <3>1 DEF BackupTypes, RestorePhases
        <3>2. CASE dest' = [dest EXCEPT !.db = Gone] /\ restore' = [restore EXCEPT !.phase = "stopped"]
            BY <2>1, <3>2 DEF BackupTypes, RestorePhases
        <3> QED BY <3>1, <3>2
    <2>3. BackupTypes'
        BY <2>2 DEF BackupTypes
    <2>4. RestoreSound'
        BY <2>2 DEF RestoreSound
    <2> QED BY <2>3, <2>4 DEF CommitsPast, SnapshotsHold, HoldsBefore
<1>13. CASE CopyBack
    <2> USE <1>13 DEF CopyBack
    <2>1. restore.path \in 0..clock /\ dest \in [db : Nat, wal : BOOLEAN]
          /\ restore \in [phase : RestorePhases, path : 0..clock, stamp : 0..clock, listed : BOOLEAN]
        BY DEF BackupTypes
    \* Whatever happens, the choice stays the same and no -wal comes back.
    <2>2. ASSUME NEW phase \in {"done", "stopped"}, restore' = [restore EXCEPT !.phase = phase]
          PROVE  /\ restore' \in [phase : RestorePhases, path : 0..clock, stamp : 0..clock,
                                   listed : BOOLEAN]
                 /\ restore'.path = restore.path /\ restore'.stamp = restore.stamp
                 /\ restore'.listed = restore.listed
        BY <2>1, <2>2 DEF RestorePhases
    <2>3. ASSUME NEW db \in Nat, dest' = [dest EXCEPT !.db = db]
          PROVE  dest' \in [db : Nat, wal : BOOLEAN] /\ dest'.db = db /\ (dest'.wal <=> dest.wal)
        BY <2>1, <2>3
    <2>4. ~dest.wal
        BY DEF RestoreSound
    <2>5. CASE restore.path \notin DOMAIN files
        <3>1. /\ restore' = [restore EXCEPT !.phase = "done"] /\ dest' = [dest EXCEPT !.db = 0]
              /\ files' = WithFile(restore.path, 0, TRUE) /\ emptied' = emptied \cup {restore.path}
            BY <2>5
        <3>2. BackupTypes'
            BY <2>1, <2>2, <2>3, <3>1, WithFileFacts DEF BackupTypes
        <3>3. SnapshotsHold'
            <4>1. /\ DOMAIN files' = DOMAIN files \cup {restore.path}
                  /\ \A p \in DOMAIN files \ {restore.path} : files'[p] = files[p]
                BY <3>1 DEF WithFile
            <4> QED BY <3>1, <4>1 DEF SnapshotsHold, HoldsBefore
        <3>4. RestoreSound'
            BY <2>2, <2>3, <2>4, <3>1 DEF RestoreSound
        <3> QED BY <3>2, <3>3, <3>4 DEF CommitsPast
    <2>6. CASE restore.path \in DOMAIN files /\ files[restore.path].whole
        <3>1. /\ restore' = [restore EXCEPT !.phase = "done"]
              /\ dest' = [dest EXCEPT !.db = files[restore.path].has]
            BY <2>6
        <3>2. files[restore.path].has \in Nat
            BY <2>6 DEF BackupTypes, SnapshotFile
        <3>3. BackupTypes'
            BY <2>2, <2>3, <2>6, <3>1, <3>2 DEF BackupTypes
        <3>4. restore.path \notin emptied => HoldsBefore(files[restore.path].has, restore.path)
            BY <2>6 DEF SnapshotsHold
        <3>5. RestoreSound'
            BY <2>2, <2>3, <2>4, <2>6, <3>1, <3>2, <3>4 DEF RestoreSound, HoldsBefore
        <3> QED BY <2>6, <3>3, <3>5 DEF CommitsPast, SnapshotsHold, HoldsBefore
    <2>7. CASE restore.path \in DOMAIN files /\ ~files[restore.path].whole
        <3>1. restore' = [restore EXCEPT !.phase = "stopped"] /\ dest' = dest
            BY <2>7
        <3>2. restore'.phase = "stopped"
            BY <2>1, <3>1
        <3>3. BackupTypes' /\ RestoreSound'
            BY <2>2, <2>7, <3>1, <3>2 DEF BackupTypes, RestoreSound
        <3> QED BY <2>7, <3>3 DEF CommitsPast, SnapshotsHold, HoldsBefore
    <2> QED BY <2>5, <2>6, <2>7
<1>14. CASE UseDestination
    BY <1>14 DEF BackupTypes, CommitsPast, SnapshotsHold, RestoreSound, HoldsBefore, UseDestination,
                 RestorePhases
<1>15. CASE UNCHANGED backupVars
    BY <1>15 DEF BackupTypes, CommitsPast, SnapshotsHold, RestoreSound, HoldsBefore, backupVars
<1> QED
    BY <1>1, <1>2, <1>3, <1>4, <1>5, <1>6, <1>7, <1>8, <1>9, <1>10, <1>11, <1>12, <1>13, <1>14,
       <1>15 DEF BackupNext

\* The inductive invariant of snapshots, their catalog and restores (ops.rs).
THEOREM BackupInvariant == BackupSpec => []BackupInv
<1>1. BackupInv /\ [BackupNext]_backupVars => BackupInv'
    BY BackupNextInv
<1> QED BY <1>1, BackupInitInv, PTL DEF BackupSpec

\* A restore from the catalog that ends well (restore_backup_file) gives a whole database with
\* every commit made before the snapshot's stamp, and no leftover of what it replaced.
THEOREM RestoresHoldTheirPast == BackupSpec => []RestoredHoldsItsPast
<1>1. BackupInv => RestoredHoldsItsPast
    BY DEF BackupInv, RestoreSound, HoldsBefore, RestoredHoldsItsPast
<1> QED BY <1>1, BackupInvariant, PTL

-----------------------------------------------------------------------------
\* A listed snapshot that is chosen is within the retention or was kept as the newest.
LEMMA PruneKeepsChoice ==
    ASSUME BackupTypes, NEW retention \in Retentions, Prune(retention)
    PROVE  /\ \A target \in 0..clock : \A r \in Selectable(target) :
                 r.stamp >= Cutoff(retention) => r \in Selectable(target)'
           /\ (\E r \in Selectable(clock) : r \in NewestListed) => Selectable(clock)' # {}
<1>1. PICK first \in NewestListed : \E removed \in SUBSET Expired(retention, first) : files' = Without(removed)
    BY DEF Prune
<1>2. PICK removed \in SUBSET Expired(retention, first) : files' = Without(removed)
    BY <1>1
<1>3. UNCHANGED <<clock, catalog>>
    BY DEF Prune
\* A snapshot whose file stays is listed as before.
<1>4. /\ DOMAIN files' = DOMAIN files \ removed
      /\ \A p \in DOMAIN files' : files'[p] = files[p]
    BY <1>2 DEF Without
<1>5. Listed' \subseteq Listed
    BY <1>3, <1>4 DEF Listed
<1>6. \A r \in Listed : r.path \in DOMAIN files /\ r.path \notin removed => r \in Listed'
    BY <1>3, <1>4 DEF Listed
<1>7. \A target \in 0..clock : \A r \in Selectable(target) :
         r.path \notin removed => r \in Selectable(target)'
    BY <1>3, <1>4, <1>5, <1>6 DEF Selectable, Restorable
\* A path names one listed snapshot.
<1>8. \A q, r \in Listed : q.path = r.path => q = r
    BY DEF Listed
<1>9. \A r \in Listed : r.stamp \in Nat
    BY ListedFacts
<1>10. clock \in Nat /\ Cutoff(retention) \in Nat
    BY BackupAssumption DEF BackupTypes, Cutoff
<1>11. ASSUME NEW target \in 0..clock, NEW r \in Selectable(target), r.stamp >= Cutoff(retention)
       PROVE  r \in Selectable(target)'
    <2>1. r \in Listed
        BY DEF Selectable, Restorable
    <2>2. r.path \notin removed
        BY <1>2, <1>8, <1>9, <1>10, <1>11, <2>1 DEF Expired
    <2> QED BY <1>7, <2>2
<1>12. ASSUME NEW r \in Selectable(clock), r \in NewestListed PROVE Selectable(clock)' # {}
    <2>1. r \in Listed /\ first \in Listed /\ r.stamp = first.stamp
        BY <1>9, <1>12 DEF NewestListed, Selectable, Restorable
    <2>2. first.path \notin removed
        BY <1>2, <1>8, <2>1 DEF Expired
    <2>3. first \in Selectable(clock)
        <3>1. CASE catalog # <<>>
            BY <2>1, <3>1 DEF Listed
        <3>2. CASE catalog = <<>>
            BY <1>9, <1>10, <2>1, <3>2 DEF Listed, Selectable, Restorable, NewestListed
        <3> QED BY <3>1, <3>2
    <2>4. clock \in 0..clock
        BY <1>10
    <2>5. first \in Selectable(clock)'
        BY <1>3, <1>7, <2>2, <2>3, <2>4
    <2> QED BY <2>5
<1> QED BY <1>11, <1>12

\* prune_backup_snapshots, stopped half-way or not, changes no choice of a restore that falls on
\* a snapshot within the retention, nor leaves nothing to restore where the newest was there.
THEOREM PrunesKeepTheWindow == BackupSpec => PruneKeepsWindow
<1>1. BackupInv => BackupTypes
    BY DEF BackupInv
<1>2. BackupTypes =>
        \A retention \in Retentions : Prune(retention) =>
           /\ \A target \in 0..clock : \A r \in Selectable(target) :
                r.stamp >= Cutoff(retention) => r \in Selectable(target)'
           /\ (\E r \in Selectable(clock) : r \in NewestListed) => Selectable(clock)' # {}
    BY PruneKeepsChoice
<1> QED BY <1>1, <1>2, BackupInvariant, PTL DEF PruneKeepsWindow

-----------------------------------------------------------------------------
(* Key rotation.                                                           *)

Registries == [active : KeyId \cup {NoKey}, keys : [KeyId -> Material \cup {NoKey}]]
Rotations ==
    [phase : {"running", "stopped", "done"}, reg : Registries, target : KeyId \cup {NoKey},
     inspect : BOOLEAN, offset : Nat, page : Seq(SealedRow), at : Nat, verified : BOOLEAN]

RotationTypes ==
    /\ sealedRows \in Seq(SealedRow)
    /\ registry \in Registries
    /\ adder \in [Adder -> [open : BOOLEAN, reg : Registries]]
    /\ writer \in Registries
    /\ rotation \in Rotations
    /\ rotation.at <= Len(rotation.page)
    /\ secret \in [SealedId -> PlainTexts]
    /\ calm \in BOOLEAN

\* A copy of the registry names no key that the file names otherwise.
Agrees(reg) == \A k \in KeyId : Known(reg, k) => registry.keys[k] = reg.keys[k]

\* The file opens the row, and to what its writer gave it.
RowSound(row) ==
    /\ row.key # NoKey => Known(registry, row.key) /\ row.with = registry.keys[row.key]
    /\ row.id \notin rewritten => row.plain = secret[row.id]

RowsSound ==
    spoiled = {} =>
      /\ Agrees(writer) /\ Agrees(rotation.reg)
      /\ \A i \in DOMAIN sealedRows : RowSound(sealedRows[i])
      /\ \A j \in DOMAIN rotation.page : RowSound(rotation.page[j])

\* Where the page stands in a table nobody wrote to.
PageInPlace ==
    \A j \in DOMAIN rotation.page :
       /\ rotation.offset + j \in DOMAIN sealedRows
       /\ sealedRows[rotation.offset + j].id = rotation.page[j].id
       /\ rotation.at < j => sealedRows[rotation.offset + j].key = rotation.page[j].key

BehindRotated ==
    rotation.verified => \A i \in DOMAIN sealedRows :
       i <= rotation.offset + rotation.at => sealedRows[i].key \in {NoKey, rotation.target}

RunSound ==
    rotation.phase = "running" =>
      /\ Known(rotation.reg, rotation.target)
      /\ rotation.target \in KeyId
      /\ calm => PageInPlace /\ BehindRotated

RotationInv ==
    RotationTypes /\ Unique(sealedRows) /\ RowsSound /\ RunSound /\ VerifiedMeansRotated

LEMMA SealedRowFacts ==
    ASSUME NEW row \in SealedRow
    PROVE  /\ row.id \in SealedId /\ row.key \in KeyId \cup {NoKey}
           /\ row.with \in Material \cup {NoKey} /\ row.plain \in PlainTexts
BY DEF SealedRow

LEMMA SealFacts ==
    ASSUME NEW id \in SealedId, NEW reg \in Registries, NEW key \in KeyId, NEW plain \in PlainTexts
    PROVE  LET row == Seal(id, reg, key, plain)
           IN  /\ row \in SealedRow
               /\ row.id = id /\ row.key = key /\ row.with = reg.keys[key] /\ row.plain = plain
BY DEF Seal, SealedRow, Registries

LEMMA SetKeyFacts ==
    ASSUME NEW reg \in Registries, NEW key \in KeyId, NEW material \in Material, NEW makeActive \in BOOLEAN
    PROVE  SetKey(reg, key, material, makeActive) \in Registries
BY DEF SetKey, Registries

LEMMA RunFacts ==
    ASSUME NEW r \in Rotations
    PROVE  /\ r.offset \in Nat /\ r.at \in Nat /\ r.page \in Seq(SealedRow) /\ r.reg \in Registries
           /\ r.target \in KeyId \cup {NoKey} /\ r.phase \in {"running", "stopped", "done"}
BY DEF Rotations

LEMMA RotationFacts ==
    ASSUME NEW r \in Rotations, NEW offset \in Nat, NEW page \in Seq(SealedRow), NEW at \in Nat,
           NEW phase \in {"running", "stopped", "done"}
    PROVE  /\ [r EXCEPT !.offset = offset, !.page = page, !.at = at, !.phase = phase] \in Rotations
           /\ [r EXCEPT !.at = at] \in Rotations
           /\ [r EXCEPT !.at = at, !.verified = FALSE] \in Rotations
           /\ [r EXCEPT !.phase = phase, !.page = page, !.at = at] \in Rotations
BY DEF Rotations

LEMMA EmptyRegistryFacts == EmptyRegistry \in Registries /\ \A k \in KeyId : ~Known(EmptyRegistry, k)
BY DEF EmptyRegistry, Registries, Known

LEMMA RotationInitInv == RotationInit => RotationInv
<1> SUFFICES ASSUME RotationInit PROVE RotationInv
    OBVIOUS
<1> USE RotationAssumption
<1>1. sealedRows \in Seq(SealedRow) /\ Unique(sealedRows) /\ \A i \in DOMAIN sealedRows : sealedRows[i].key = NoKey
    BY DEF RotationInit, Unique
<1>2. ASSUME NEW id \in SealedId
      PROVE  (IF id \in Ids(sealedRows) THEN RowOf(sealedRows, id).plain ELSE Garbage) \in PlainTexts
    <2>1. CASE id \in Ids(sealedRows)
        <3>1. PICK i \in DOMAIN sealedRows : RowOf(sealedRows, id) = sealedRows[i]
            BY <1>1, <2>1, RowOfFacts
        <3> QED BY <1>1, <2>1, <3>1, SealedRowFacts
    <2> QED BY <2>1 DEF PlainTexts
<1>3. secret \in [SealedId -> PlainTexts]
    BY <1>2 DEF RotationInit
<1>4. ASSUME NEW i \in DOMAIN sealedRows PROVE RowSound(sealedRows[i])
    <2>1. sealedRows[i].id \in SealedId
        BY <1>1, SealedRowFacts
    <2>2. secret[sealedRows[i].id] = sealedRows[i].plain
        BY <1>1, <2>1, RowOfFacts DEF RotationInit
    <2> QED BY <1>1, <2>2 DEF RowSound
<1>5. rotation \in Rotations /\ rotation.page = <<>> /\ rotation.at = 0 /\ rotation.phase = "stopped"
      /\ rotation.reg = EmptyRegistry
    BY EmptyRegistryFacts DEF RotationInit, Rotations
<1>6. RotationTypes
    BY <1>1, <1>3, <1>5, EmptyRegistryFacts DEF RotationInit, RotationTypes
<1>7. RowsSound
    BY <1>4, <1>5, EmptyRegistryFacts DEF RotationInit, RowsSound, Agrees
<1>8. RunSound /\ VerifiedMeansRotated
    BY <1>5 DEF RunSound, VerifiedMeansRotated
<1> QED BY <1>1, <1>6, <1>7, <1>8 DEF RotationInv

\* The steps that leave the rows and the run alone.
LEMMA AddKeyLoadInv == ASSUME RotationInv, NEW p \in Adder, AddKeyLoad(p) PROVE RotationInv'
<1>1. [open |-> TRUE, reg |-> registry] \in [open : BOOLEAN, reg : Registries]
    BY DEF RotationInv, RotationTypes
<1>2. RotationTypes'
    BY <1>1 DEF RotationInv, RotationTypes, AddKeyLoad
<1> QED BY <1>2 DEF RotationInv, AddKeyLoad, RowsSound, Agrees, RowSound, RunSound, PageInPlace, BehindRotated,
           VerifiedMeansRotated

LEMMA AddKeySaveInv == ASSUME RotationInv, NEW p \in Adder, AddKeySave(p) PROVE RotationInv'
<1> DEFINE Reg(key, material, makeActive) == SetKey(adder[p].reg, key, material, makeActive)
<1>1. PICK key \in KeyId, material \in Material, makeActive \in BOOLEAN :
         /\ registry' = Reg(key, material, makeActive)
         /\ spoiled' = spoiled \cup {k \in KeyId : Known(registry, k)
                                       /\ Reg(key, material, makeActive).keys[k] # registry.keys[k]}
    BY DEF AddKeySave
<1>2. adder[p] \in [open : BOOLEAN, reg : Registries]
    BY DEF RotationInv, RotationTypes
<1>3. registry' \in Registries
    BY <1>1, <1>2, SetKeyFacts
<1>4. adder' \in [Adder -> [open : BOOLEAN, reg : Registries]]
    <2>1. [adder[p] EXCEPT !.open = FALSE, !.reg = EmptyRegistry] \in [open : BOOLEAN, reg : Registries]
        BY <1>2, EmptyRegistryFacts
    <2>2. adder' = [adder EXCEPT ![p] = [adder[p] EXCEPT !.open = FALSE, !.reg = EmptyRegistry]]
        BY DEF AddKeySave, RotationInv, RotationTypes
    <2> QED BY <2>1, <2>2 DEF RotationInv, RotationTypes
<1>5. RotationTypes'
    BY <1>3, <1>4 DEF RotationInv, RotationTypes, AddKeySave
<1>6. RowsSound'
    <2> SUFFICES ASSUME spoiled' = {}
                 PROVE  /\ Agrees(writer)' /\ Agrees(rotation.reg)'
                        /\ \A i \in DOMAIN sealedRows : RowSound(sealedRows[i])'
                        /\ \A j \in DOMAIN rotation.page : RowSound(rotation.page[j])'
        BY DEF RowsSound, AddKeySave
    <2>1. spoiled = {} /\ \A k \in KeyId : Known(registry, k) => registry'.keys[k] = registry.keys[k]
        BY <1>1
    <2>2. \A k \in KeyId : Known(registry, k) => Known(registry', k)
        BY <2>1 DEF Known
    <2>3. Agrees(writer)' /\ Agrees(rotation.reg)'
        BY <2>1 DEF Agrees, Known, RotationInv, RowsSound, AddKeySave
    <2>4. ASSUME NEW row \in SealedRow, RowSound(row) PROVE RowSound(row)'
        <3>1. row.key # NoKey => row.key \in KeyId
            BY SealedRowFacts
        <3> QED BY <2>1, <2>2, <2>4, <3>1 DEF RowSound, AddKeySave
    <2>5. ASSUME NEW i \in DOMAIN sealedRows PROVE RowSound(sealedRows[i])'
        BY <2>1, <2>4 DEF RotationInv, RotationTypes, RowsSound, AddKeySave
    <2>6. ASSUME NEW j \in DOMAIN rotation.page PROVE RowSound(rotation.page[j])'
        <3>1. rotation.page[j] \in SealedRow
            BY RunFacts DEF RotationInv, RotationTypes
        <3> QED BY <2>1, <2>4, <3>1 DEF RotationInv, RowsSound, AddKeySave
    <2> QED BY <2>3, <2>5, <2>6
<1> QED BY <1>5, <1>6 DEF RotationInv, AddKeySave, RunSound, PageInPlace, BehindRotated, VerifiedMeansRotated

LEMMA WriterLoadsInv == ASSUME RotationInv, WriterLoads PROVE RotationInv'
<1>1. RotationTypes'
    BY DEF RotationInv, RotationTypes, WriterLoads
<1>2. RowsSound'
    BY DEF RotationInv, RowsSound, Agrees, RowSound, WriterLoads
<1> QED BY <1>1, <1>2 DEF RotationInv, WriterLoads, RunSound, PageInPlace, BehindRotated, VerifiedMeansRotated

LEMMA SealedIngestInv == ASSUME RotationInv, SealedIngest PROVE RotationInv'
<1>1. PICK id \in SealedId, plain \in Secret :
         /\ sealedRows' = UpsertRow(sealedRows, Seal(id, writer, writer.active, plain))
         /\ secret' = [secret EXCEPT ![id] = plain]
         /\ rewritten' = IF id \in Ids(rotation.page) THEN rewritten \cup {id} ELSE rewritten
    BY DEF SealedIngest
<1>2. writer \in Registries /\ writer.active \in KeyId /\ Known(writer, writer.active) /\ plain \in PlainTexts
    BY DEF SealedIngest, RotationInv, RotationTypes, Registries, Known, PlainTexts
<1>3. PICK row \in SealedRow :
         /\ sealedRows' = UpsertRow(sealedRows, row)
         /\ row.id = id /\ row.key = writer.active /\ row.with = writer.keys[writer.active] /\ row.plain = plain
    BY <1>1, <1>2, SealFacts
<1>4. /\ sealedRows' \in Seq(SealedRow) /\ Unique(sealedRows')
      /\ \A i \in DOMAIN sealedRows' :
            \/ sealedRows'[i] = row
            \/ i \in DOMAIN sealedRows /\ sealedRows'[i] = sealedRows[i] /\ sealedRows[i].id # id
    <2> DEFINE t == UpsertRow(sealedRows, row)
    <2>1. sealedRows \in Seq(SealedRow) /\ Unique(sealedRows)
        BY DEF RotationInv, RotationTypes
    <2>2. /\ t \in Seq(SealedRow) /\ Unique(t)
          /\ \A i \in DOMAIN sealedRows : t[i] = IF sealedRows[i].id = row.id THEN row ELSE sealedRows[i]
          /\ \A i \in DOMAIN t \ DOMAIN sealedRows : t[i] = row
        BY <2>1, UpsertRowFacts
    <2> HIDE DEF t
    <2>3. ASSUME NEW i \in DOMAIN t
          PROVE  \/ t[i] = row
                 \/ i \in DOMAIN sealedRows /\ t[i] = sealedRows[i] /\ sealedRows[i].id # id
        BY <1>3, <2>2
    <2>4. sealedRows' = t
        BY <1>3 DEF t
    <2> QED BY <2>2, <2>3, <2>4
<1>5. secret' \in [SealedId -> PlainTexts] /\ secret'[id] = plain
      /\ \A other \in SealedId : other # id => secret'[other] = secret[other]
    BY <1>1, <1>2 DEF RotationInv, RotationTypes
<1>6. RotationTypes'
    BY <1>4, <1>5 DEF RotationInv, RotationTypes, SealedIngest
<1>7. RowsSound'
    <2> SUFFICES ASSUME spoiled = {}
                 PROVE  /\ Agrees(writer) /\ Agrees(rotation.reg)
                        /\ \A i \in DOMAIN sealedRows' : RowSound(sealedRows[i])'
                        /\ \A j \in DOMAIN rotation.page : RowSound(rotation.page[j])'
        BY DEF RowsSound, SealedIngest, Agrees
    <2>1. Agrees(writer) /\ Agrees(rotation.reg)
        BY DEF RotationInv, RowsSound
    <2>2. ASSUME NEW other \in SealedRow, RowSound(other), other.id # id PROVE RowSound(other)'
        <3>1. other.id \in SealedId
            BY SealedRowFacts
        <3> QED BY <1>1, <1>5, <2>2, <3>1 DEF RowSound, SealedIngest
    <2>3. RowSound(row)'
        <3>1. registry.keys[writer.active] = writer.keys[writer.active]
            BY <1>2, <2>1 DEF Agrees
        <3> QED BY <1>2, <1>3, <1>5, <3>1 DEF RowSound, Known, SealedIngest
    <2>4. ASSUME NEW i \in DOMAIN sealedRows' PROVE RowSound(sealedRows[i])'
        <3>1. CASE sealedRows'[i] = row
            BY <2>3, <3>1 DEF RowSound
        <3>2. CASE i \in DOMAIN sealedRows /\ sealedRows'[i] = sealedRows[i] /\ sealedRows[i].id # id
            <4>1. sealedRows[i] \in SealedRow /\ RowSound(sealedRows[i])
                BY <3>2 DEF RotationInv, RotationTypes, RowsSound
            <4>3. PICK other \in SealedRow : other = sealedRows[i]
                BY <4>1
            <4>4. RowSound(other) /\ other.id # id /\ sealedRows'[i] = other
                BY <3>2, <4>1, <4>3
            <4>5. RowSound(other)'
                BY <2>2, <4>4
            <4> QED BY <4>4, <4>5 DEF RowSound
        <3> QED BY <1>4, <3>1, <3>2
    <2>5. ASSUME NEW j \in DOMAIN rotation.page PROVE RowSound(rotation.page[j])'
        <3> DEFINE other == rotation.page[j]
        <3>1. other \in SealedRow /\ RowSound(other)
            BY RunFacts DEF RotationInv, RotationTypes, RowsSound
        <3>2. rotation'.page[j] = other
            BY DEF SealedIngest
        <3>3. CASE other.id # id
            BY <2>2, <3>1, <3>2, <3>3 DEF RowSound
        <3>4. CASE other.id = id
            <4>1. id \in rewritten'
                BY <1>1, <3>4 DEF Ids
            <4> QED BY <3>1, <3>2, <3>4, <4>1 DEF RowSound, SealedIngest
        <3> QED BY <3>3, <3>4
    <2> QED BY <2>1, <2>4, <2>5
<1>8. RunSound' /\ VerifiedMeansRotated'
    BY DEF RotationInv, RunSound, VerifiedMeansRotated, SealedIngest
<1> QED BY <1>4, <1>6, <1>7, <1>8 DEF RotationInv

LEMMA RemoveSealedInv == ASSUME RotationInv, RemoveSealed PROVE RotationInv'
<1>1. PICK id : sealedRows' = DropRow(sealedRows, id)
    BY DEF RemoveSealed
<1>2. /\ sealedRows' \in Seq(SealedRow) /\ Unique(sealedRows')
      /\ \A n \in DOMAIN sealedRows' : \E i \in DOMAIN sealedRows : sealedRows'[n] = sealedRows[i]
    BY <1>1, DropRowFacts DEF RotationInv, RotationTypes
<1>3. RotationTypes'
    BY <1>2 DEF RotationInv, RotationTypes, RemoveSealed
<1>4. RowsSound'
    BY <1>2 DEF RotationInv, RowsSound, RowSound, Agrees, RemoveSealed
<1>5. RunSound' /\ VerifiedMeansRotated'
    BY DEF RotationInv, RunSound, VerifiedMeansRotated, RemoveSealed
<1> QED BY <1>2, <1>3, <1>4, <1>5 DEF RotationInv

LEMMA StartRotationInv == ASSUME RotationInv, StartRotation PROVE RotationInv'
<1>1. PICK target \in KeyId, inspect \in BOOLEAN :
         /\ Known(registry, target)
         /\ rotation' = [phase |-> "running", reg |-> registry, target |-> target,
                         inspect |-> inspect, offset |-> 0, page |-> <<>>, at |-> 0,
                         verified |-> TRUE]
    BY DEF StartRotation
<1>2. rotation' \in Rotations /\ rotation'.page = <<>> /\ rotation'.at = 0 /\ rotation'.offset = 0
      /\ rotation'.reg = registry /\ rotation'.target = target /\ rotation'.phase = "running"
    BY <1>1 DEF Rotations, RotationInv, RotationTypes
<1>3. RotationTypes'
    BY <1>2 DEF RotationInv, RotationTypes, StartRotation
<1>4. RowsSound'
    BY <1>2 DEF RotationInv, RowsSound, RowSound, Agrees, StartRotation
<1>5. BehindRotated'
    <2>1. \A i \in DOMAIN sealedRows : ~(i <= 0)
        BY DEF RotationInv, RotationTypes
    <2> QED BY <1>2, <2>1 DEF BehindRotated, StartRotation
<1>6. RunSound' /\ VerifiedMeansRotated'
    BY <1>1, <1>2, <1>5 DEF RunSound, PageInPlace, VerifiedMeansRotated
<1> QED BY <1>3, <1>4, <1>6 DEF RotationInv, StartRotation

LEMMA RotationReadPageInv == ASSUME RotationInv, RotationReadPage PROVE RotationInv'
<1> DEFINE offset == rotation.offset + Len(rotation.page)
           page   == Page(sealedRows, offset, RotationPage)
           phase  == IF page = <<>> THEN "done" ELSE "running"
<1>1. rotation \in Rotations /\ sealedRows \in Seq(SealedRow)
    BY DEF RotationInv, RotationTypes
<1>2. offset \in Nat /\ rotation.at = Len(rotation.page) /\ rotation.at \in Nat
    BY <1>1, RunFacts DEF RotationReadPage
<1>3. /\ page \in Seq(SealedRow)
      /\ \A j \in DOMAIN page : offset + j \in DOMAIN sealedRows /\ page[j] = sealedRows[offset + j]
      /\ page = <<>> <=> Len(sealedRows) <= offset
    BY <1>1, <1>2, PageFacts, RotationAssumption
<1>4. /\ rotation' = [rotation EXCEPT !.offset = offset, !.page = page, !.at = 0, !.phase = phase]
      /\ rotation.phase = "running"
    BY DEF RotationReadPage
<1> HIDE DEF page
<1>5. /\ rotation' \in Rotations /\ rotation'.offset = offset /\ rotation'.page = page /\ rotation'.at = 0
      /\ rotation'.phase = phase /\ rotation'.reg = rotation.reg /\ rotation'.target = rotation.target
      /\ rotation'.verified = rotation.verified
    <2>1. phase \in {"running", "stopped", "done"} /\ 0 \in Nat
        OBVIOUS
    <2>2. rotation' \in Rotations
        BY <1>1, <1>2, <1>3, <1>4, <2>1, RotationFacts
    <2> QED BY <1>1, <1>4, <2>2 DEF Rotations
<1>6. RotationTypes'
    <2>1. Len(page) \in Nat
        BY <1>3
    <2> QED BY <1>5, <2>1 DEF RotationInv, RotationTypes, RotationReadPage
<1>7. RowsSound'
    <2> SUFFICES ASSUME spoiled = {}
                 PROVE  /\ Agrees(writer) /\ Agrees(rotation.reg)
                        /\ \A i \in DOMAIN sealedRows : RowSound(sealedRows[i])
                        /\ \A j \in DOMAIN page : RowSound(page[j])
        BY <1>5 DEF RowsSound, RowSound, Agrees, RotationReadPage
    <2> QED BY <1>3 DEF RotationInv, RowsSound
<1>8. ASSUME calm
      PROVE  /\ PageInPlace'
             /\ rotation.verified => \A i \in DOMAIN sealedRows :
                   i <= offset => sealedRows[i].key \in {NoKey, rotation.target}
    <2>1. PageInPlace'
        BY <1>3, <1>5 DEF PageInPlace, RotationReadPage
    <2>2. BehindRotated
        BY <1>4, <1>8 DEF RotationInv, RunSound
    <2> QED BY <1>2, <2>1, <2>2 DEF BehindRotated
<1>9. RunSound'
    <2>1. calm => BehindRotated'
        <3>1. offset + 0 = offset
            BY <1>2
        <3> QED BY <1>5, <1>8, <3>1 DEF BehindRotated, RotationReadPage
    <2> QED BY <1>4, <1>5, <1>8, <2>1 DEF RotationInv, RunSound, RotationReadPage
<1>10. VerifiedMeansRotated'
    <2> SUFFICES ASSUME phase = "done", rotation.verified, calm, NEW i \in DOMAIN sealedRows
                 PROVE  sealedRows[i].key \in {NoKey, rotation.target}
        BY <1>5 DEF VerifiedMeansRotated, RotationReadPage
    <2>1. Len(sealedRows) <= offset
        BY <1>3
    <2>2. i <= offset
        BY <1>1, <1>2, <2>1
    <2> QED BY <1>8, <2>2
<1> QED BY <1>6, <1>7, <1>9, <1>10 DEF RotationInv, RotationReadPage

\* A stopped run leaves nothing to answer for.
LEMMA StoppedInv ==
    ASSUME RotationInv, rotation' = [rotation EXCEPT !.phase = "stopped", !.page = <<>>, !.at = 0],
           UNCHANGED <<sealedRows, registry, adder, writer, secret, rewritten, spoiled, calm>>
    PROVE  RotationInv'
<1>1. rotation \in Rotations
    BY DEF RotationInv, RotationTypes
<1>2. rotation' \in Rotations /\ rotation'.page = <<>> /\ rotation'.at = 0 /\ rotation'.phase = "stopped"
      /\ rotation'.reg = rotation.reg
    <2>1. <<>> \in Seq(SealedRow) /\ 0 \in Nat /\ "stopped" \in {"running", "stopped", "done"}
        OBVIOUS
    <2>2. rotation' \in Rotations
        BY <1>1, <2>1, RotationFacts
    <2> QED BY <1>1, <2>2 DEF Rotations
<1>3. RotationTypes'
    BY <1>2 DEF RotationInv, RotationTypes
<1>4. RowsSound'
    BY <1>2 DEF RotationInv, RowsSound, RowSound, Agrees
<1>5. RunSound' /\ VerifiedMeansRotated'
    BY <1>2 DEF RunSound, VerifiedMeansRotated
<1> QED BY <1>3, <1>4, <1>5 DEF RotationInv

\* The run goes on to the next row of its page.
LEMMA NextRowInv ==
    ASSUME RotationInv, rotation.phase = "running", rotation.at < Len(rotation.page),
           UNCHANGED <<sealedRows, registry, adder, writer, secret, rewritten, spoiled, calm>>,
           \/ /\ rotation.page[rotation.at + 1].key \in {NoKey, rotation.target}
              /\ rotation' = [rotation EXCEPT !.at = @ + 1]
           \/ rotation' = [rotation EXCEPT !.at = @ + 1, !.verified = FALSE]
    PROVE  RotationInv'
<1>1. rotation \in Rotations /\ rotation.at \in Nat /\ rotation.page \in Seq(SealedRow) /\ rotation.offset \in Nat
      /\ Len(rotation.page) \in Nat
    BY RunFacts DEF RotationInv, RotationTypes
<1>2. /\ rotation' \in Rotations /\ rotation'.at = rotation.at + 1 /\ rotation'.page = rotation.page
      /\ rotation'.offset = rotation.offset /\ rotation'.reg = rotation.reg
      /\ rotation'.target = rotation.target /\ rotation'.phase = "running"
    <2>1. rotation.at + 1 \in Nat
        BY <1>1
    <2>2. rotation' \in Rotations
        BY <1>1, <2>1, RotationFacts
    <2> QED BY <1>1, <2>2 DEF Rotations
<1>3. RotationTypes'
    <2>1. rotation.at + 1 <= Len(rotation.page)
        BY <1>1
    <2> QED BY <1>2, <2>1 DEF RotationInv, RotationTypes
<1>4. RowsSound'
    BY <1>2 DEF RotationInv, RowsSound, RowSound, Agrees
<1>5. ASSUME calm PROVE PageInPlace' /\ BehindRotated'
    <2>1. PageInPlace /\ BehindRotated
        BY <1>5 DEF RotationInv, RunSound
    <2>2. \A j \in DOMAIN rotation.page : rotation.at + 1 < j => rotation.at < j
        BY <1>1
    <2>3. PageInPlace'
        BY <1>2, <2>1, <2>2 DEF PageInPlace
    <2>4. BehindRotated'
        <3> SUFFICES ASSUME rotation'.verified, NEW i \in DOMAIN sealedRows,
                            i <= rotation.offset + (rotation.at + 1)
                     PROVE  sealedRows[i].key \in {NoKey, rotation.target}
            BY <1>2 DEF BehindRotated
        <3>1. rotation.verified /\ rotation.page[rotation.at + 1].key \in {NoKey, rotation.target}
            BY <1>1 DEF Rotations
        <3>2. CASE i <= rotation.offset + rotation.at
            BY <2>1, <3>1, <3>2 DEF BehindRotated
        <3>3. CASE i = rotation.offset + (rotation.at + 1)
            <4>1. rotation.at + 1 \in DOMAIN rotation.page /\ rotation.at < rotation.at + 1
                BY <1>1
            <4> QED BY <2>1, <3>1, <3>3, <4>1 DEF PageInPlace
        <3>4. i \in Nat
            BY DEF RotationInv, RotationTypes
        <3> QED BY <1>1, <3>2, <3>3, <3>4
    <2> QED BY <2>3, <2>4
<1>6. RunSound' /\ VerifiedMeansRotated'
    BY <1>2, <1>5 DEF RotationInv, RunSound, VerifiedMeansRotated
<1> QED BY <1>3, <1>4, <1>6 DEF RotationInv

\* The row is written back under the new key.
LEMMA ResealInv ==
    ASSUME RotationInv, rotation.phase = "running", rotation.at < Len(rotation.page),
           UNCHANGED <<registry, adder, writer, secret, rewritten, spoiled, calm>>,
           NEW row \in SealedRow, row = rotation.page[rotation.at + 1],
           row.key # NoKey, Known(rotation.reg, row.key),
           rotation' = [rotation EXCEPT !.at = @ + 1],
           sealedRows' = UpdateRow(sealedRows, Seal(row.id, rotation.reg, rotation.target,
                                                    Opened(row, rotation.reg.keys[row.key])))
    PROVE  RotationInv'
<1>1. rotation \in Rotations /\ rotation.at \in Nat /\ rotation.page \in Seq(SealedRow) /\ rotation.offset \in Nat
      /\ Len(rotation.page) \in Nat /\ rotation.reg \in Registries
    BY RunFacts DEF RotationInv, RotationTypes
<1>2. /\ rotation' \in Rotations /\ rotation'.at = rotation.at + 1 /\ rotation'.page = rotation.page
      /\ rotation'.offset = rotation.offset /\ rotation'.reg = rotation.reg
      /\ rotation'.target = rotation.target /\ rotation'.phase = "running"
      /\ rotation'.verified = rotation.verified
    <2>1. rotation.at + 1 \in Nat
        BY <1>1
    <2>2. rotation' \in Rotations
        BY <1>1, <2>1, RotationFacts
    <2> QED BY <1>1, <2>2 DEF Rotations
<1>3. rotation.target \in KeyId /\ Known(rotation.reg, rotation.target)
    BY DEF RotationInv, RunSound
<1>4. Opened(row, rotation.reg.keys[row.key]) \in PlainTexts
    BY SealedRowFacts DEF Opened, PlainTexts
<1>5. PICK sealed \in SealedRow :
         /\ sealedRows' = UpdateRow(sealedRows, sealed)
         /\ sealed.id = row.id /\ sealed.key = rotation.target
         /\ sealed.with = rotation.reg.keys[rotation.target]
         /\ sealed.plain = Opened(row, rotation.reg.keys[row.key])
    <2> DEFINE plain == Opened(row, rotation.reg.keys[row.key])
               sealed == Seal(row.id, rotation.reg, rotation.target, plain)
    <2>1. plain \in PlainTexts /\ row.id \in SealedId
        BY <1>4, SealedRowFacts
    <2> HIDE DEF plain
    <2>2. /\ sealed \in SealedRow
          /\ sealed.id = row.id /\ sealed.key = rotation.target
          /\ sealed.with = rotation.reg.keys[rotation.target] /\ sealed.plain = plain
        BY <1>1, <1>3, <2>1, SealFacts
    <2>3. sealedRows' = UpdateRow(sealedRows, sealed)
        BY DEF plain
    <2> HIDE DEF sealed
    <2> QED BY <2>2, <2>3 DEF plain
<1>6. /\ sealedRows' \in Seq(SealedRow) /\ Unique(sealedRows') /\ DOMAIN sealedRows' = DOMAIN sealedRows
      /\ \A i \in DOMAIN sealedRows :
            sealedRows'[i] = IF sealedRows[i].id = row.id THEN sealed ELSE sealedRows[i]
    <2>1. sealedRows \in Seq(SealedRow) /\ Unique(sealedRows)
        BY DEF RotationInv, RotationTypes
    <2> QED BY <1>5, <2>1, UpdateRowFacts
<1>7. RotationTypes'
    <2>1. rotation.at + 1 <= Len(rotation.page)
        BY <1>1
    <2> QED BY <1>2, <1>6, <2>1 DEF RotationInv, RotationTypes
<1>8. RowsSound'
    <2> SUFFICES ASSUME spoiled = {}
                 PROVE  /\ Agrees(writer)' /\ Agrees(rotation.reg)'
                        /\ \A i \in DOMAIN sealedRows' : RowSound(sealedRows[i])'
                        /\ \A j \in DOMAIN rotation'.page : RowSound(rotation.page[j])'
        BY DEF RowsSound
    <2>1. /\ Agrees(writer) /\ Agrees(rotation.reg)
          /\ \A i \in DOMAIN sealedRows : RowSound(sealedRows[i])
          /\ \A j \in DOMAIN rotation.page : RowSound(rotation.page[j])
        BY DEF RotationInv, RowsSound
    <2>2. RowSound(row)
        <3>1. rotation.at + 1 \in DOMAIN rotation.page
            BY <1>1
        <3> QED BY <2>1, <3>1
    <2>3. RowSound(sealed)
        <3>1. row.key \in KeyId
            BY SealedRowFacts
        <3>2. registry.keys[row.key] = rotation.reg.keys[row.key] /\ row.with = registry.keys[row.key]
            BY <2>1, <2>2, <3>1 DEF Agrees, RowSound
        <3>3. sealed.plain = row.plain
            BY <1>5, <3>2 DEF Opened
        <3>4. registry.keys[rotation.target] = rotation.reg.keys[rotation.target]
            BY <1>3, <2>1 DEF Agrees
        <3>5. Known(registry, rotation.target) /\ sealed.with = registry.keys[rotation.target]
            BY <1>3, <1>5, <3>4 DEF Known
        <3> QED BY <1>5, <2>2, <3>3, <3>5 DEF RowSound
    <2>4. Agrees(writer)' /\ Agrees(rotation.reg)'
        BY <1>2, <2>1 DEF Agrees
    <2>5. \A i \in DOMAIN sealedRows : RowSound(sealedRows'[i])
        BY <1>6, <2>1, <2>3
    <2>6. \A i \in DOMAIN sealedRows' : RowSound(sealedRows[i])'
        BY <1>6, <2>5 DEF RowSound
    <2>7. \A j \in DOMAIN rotation'.page : RowSound(rotation.page[j])'
        BY <1>2, <2>1 DEF RowSound
    <2> QED BY <2>4, <2>6, <2>7
<1>9. ASSUME calm PROVE PageInPlace' /\ BehindRotated'
    <2>1. PageInPlace /\ BehindRotated
        BY <1>9 DEF RotationInv, RunSound
    <2> DEFINE here == rotation.offset + (rotation.at + 1)
    <2>2. here \in DOMAIN sealedRows /\ sealedRows[here].id = row.id
        <3>1. rotation.at + 1 \in DOMAIN rotation.page
            BY <1>1
        <3> QED BY <2>1, <3>1 DEF PageInPlace
    <2>3. ASSUME NEW i \in DOMAIN sealedRows, i # here PROVE sealedRows'[i] = sealedRows[i]
        <3>1. sealedRows[i].id # row.id
            BY <2>2, <2>3 DEF RotationInv, Unique
        <3> QED BY <1>6, <3>1
    <2>4. sealedRows'[here] = sealed
        BY <1>6, <2>2
    <2>5. \A i \in DOMAIN sealedRows : sealedRows'[i].id = sealedRows[i].id
        BY <1>5, <1>6
    <2>6. PageInPlace'
        <3> SUFFICES ASSUME NEW j \in DOMAIN rotation.page
                     PROVE  /\ rotation.offset + j \in DOMAIN sealedRows'
                            /\ sealedRows'[rotation.offset + j].id = rotation.page[j].id
                            /\ rotation.at + 1 < j => sealedRows'[rotation.offset + j].key = rotation.page[j].key
            BY <1>2 DEF PageInPlace
        <3>1. /\ rotation.offset + j \in DOMAIN sealedRows
              /\ sealedRows[rotation.offset + j].id = rotation.page[j].id
              /\ rotation.at < j => sealedRows[rotation.offset + j].key = rotation.page[j].key
            BY <2>1 DEF PageInPlace
        <3>2. rotation.at + 1 < j => rotation.at < j /\ rotation.offset + j # here
            BY <1>1
        <3>3. rotation.offset + j \in DOMAIN sealedRows'
            BY <1>6, <3>1
        <3>4. sealedRows'[rotation.offset + j].id = rotation.page[j].id
            BY <2>5, <3>1
        <3>5. ASSUME rotation.at + 1 < j
              PROVE  sealedRows'[rotation.offset + j].key = rotation.page[j].key
            <4>1. sealedRows'[rotation.offset + j] = sealedRows[rotation.offset + j]
                BY <2>3, <3>1, <3>2, <3>5
            <4> QED BY <3>1, <3>2, <3>5, <4>1
        <3> QED BY <3>3, <3>4, <3>5
    <2>7. BehindRotated'
        <3> SUFFICES ASSUME rotation.verified, NEW i \in DOMAIN sealedRows, i <= here
                     PROVE  sealedRows'[i].key \in {NoKey, rotation.target}
            BY <1>2, <1>6 DEF BehindRotated
        <3>1. CASE i = here
            BY <1>5, <2>4, <3>1
        <3>2. CASE i # here
            <4>1. i \in Nat
                BY DEF RotationInv, RotationTypes
            <4>2. i <= rotation.offset + rotation.at
                BY <1>1, <3>2, <4>1
            <4> QED BY <2>1, <2>3, <3>2, <4>2 DEF BehindRotated
        <3> QED BY <3>1, <3>2
    <2> QED BY <2>6, <2>7
<1>10. RunSound' /\ VerifiedMeansRotated'
    BY <1>2, <1>3, <1>9 DEF RunSound, VerifiedMeansRotated
<1> QED BY <1>6, <1>7, <1>8, <1>10 DEF RotationInv

LEMMA RotateRowInv == ASSUME RotationInv, RotateRow PROVE RotationInv'
<1> DEFINE row == rotation.page[rotation.at + 1]
           next == [rotation EXCEPT !.at = @ + 1]
           resealed == Seal(row.id, rotation.reg, rotation.target, Opened(row, rotation.reg.keys[row.key]))
<1>1. /\ rotation.phase = "running" /\ rotation.at < Len(rotation.page)
      /\ UNCHANGED <<registry, adder, writer, secret, rewritten, spoiled, calm>>
    BY DEF RotateRow
<1>2. \/ row.key \in {NoKey, rotation.target} /\ rotation' = next /\ UNCHANGED sealedRows
      \/ rotation' = [next EXCEPT !.verified = FALSE] /\ UNCHANGED sealedRows
      \/ /\ row.key \notin {NoKey, rotation.target} /\ Known(rotation.reg, row.key) /\ rotation' = next
         /\ sealedRows' = UpdateRow(sealedRows, resealed)
      \/ /\ rotation' = [rotation EXCEPT !.phase = "stopped", !.page = <<>>, !.at = 0]
         /\ UNCHANGED sealedRows
    BY DEF RotateRow
<1>3. row \in SealedRow
    <2>1. rotation.at \in Nat /\ rotation.page \in Seq(SealedRow)
        BY RunFacts DEF RotationInv, RotationTypes
    <2> QED BY <1>1, <2>1
<1>4. CASE row.key \in {NoKey, rotation.target} /\ rotation' = next /\ UNCHANGED sealedRows
    BY <1>1, <1>4, NextRowInv
<1>5. CASE rotation' = [next EXCEPT !.verified = FALSE] /\ UNCHANGED sealedRows
    <2>1. rotation' = [rotation EXCEPT !.at = @ + 1, !.verified = FALSE]
        BY <1>5
    <2> QED BY <1>1, <1>5, <2>1, NextRowInv
<1>6. CASE /\ row.key \notin {NoKey, rotation.target} /\ Known(rotation.reg, row.key) /\ rotation' = next
           /\ sealedRows' = UpdateRow(sealedRows, resealed)
    BY <1>1, <1>3, <1>6, ResealInv
<1>7. CASE /\ rotation' = [rotation EXCEPT !.phase = "stopped", !.page = <<>>, !.at = 0]
           /\ UNCHANGED sealedRows
    BY <1>1, <1>7, StoppedInv
<1> QED BY <1>2, <1>4, <1>5, <1>6, <1>7

(***************************************************************************)
(* Whatever writers, add-key commands and rotations do between each        *)
(* other's steps, the key registry, its loaded copies, the tenant's rows   *)
(* and the page in a rotation's hands stay in step (security.rs,           *)
(* sqlrite-security.rs).                                                   *)
(***************************************************************************)
THEOREM RotationInvariant == RotationSpec => []RotationInv
<1>1. RotationInv /\ [RotationNext]_rotationVars => RotationInv'
    <2> SUFFICES ASSUME RotationInv, [RotationNext]_rotationVars PROVE RotationInv'
        OBVIOUS
    <2>1. CASE \E p \in Adder : AddKeyLoad(p) \/ AddKeySave(p)
        BY <2>1, AddKeyLoadInv, AddKeySaveInv
    <2>2. CASE WriterLoads
        BY <2>2, WriterLoadsInv
    <2>3. CASE SealedIngest
        BY <2>3, SealedIngestInv
    <2>4. CASE RemoveSealed
        BY <2>4, RemoveSealedInv
    <2>5. CASE StartRotation
        BY <2>5, StartRotationInv
    <2>6. CASE RotationReadPage
        BY <2>6, RotationReadPageInv
    <2>7. CASE RotateRow
        BY <2>7, RotateRowInv
    <2>8. CASE RotationKilled
        BY <2>8, StoppedInv DEF RotationKilled
    <2>9. CASE UNCHANGED rotationVars
        BY <2>9 DEF rotationVars, RotationInv, RotationTypes, RowsSound, Agrees, RowSound, RunSound,
                    PageInPlace, BehindRotated, VerifiedMeansRotated
    <2> QED BY <2>1, <2>2, <2>3, <2>4, <2>5, <2>6, <2>7, <2>8, <2>9 DEF RotationNext
<1> QED BY <1>1, RotationInitInv, PTL DEF RotationSpec

(***************************************************************************)
(* The registry file opens every row to what its writer gave it, however   *)
(* far a rotation came and whatever it was stopped by, as long as no key's *)
(* material was replaced in the file and the row's writer did not race the *)
(* rotation.                                                               *)
(***************************************************************************)
THEOREM SecretsReadable == RotationSpec => []SecretsStayReadable
<1>1. RotationInv => SecretsStayReadable
    <2> SUFFICES ASSUME RotationInv, spoiled = {}, NEW i \in DOMAIN sealedRows,
                        sealedRows[i].id \notin rewritten
                 PROVE  IF sealedRows[i].key = NoKey THEN sealedRows[i].plain = secret[sealedRows[i].id]
                        ELSE Known(registry, sealedRows[i].key)
                             /\ Opened(sealedRows[i], registry.keys[sealedRows[i].key])
                                  = secret[sealedRows[i].id]
        BY DEF SecretsStayReadable
    <2>1. RowSound(sealedRows[i])
        BY DEF RotationInv, RowsSound
    <2> QED BY <2>1 DEF RowSound, Opened
<1> QED BY <1>1, RotationInvariant, PTL

(***************************************************************************)
(* A report that every row has the target key is right of the whole        *)
(* tenant, if nobody wrote while the run read its pages.                   *)
(***************************************************************************)
THEOREM VerifiedIsRotated == RotationSpec => []VerifiedMeansRotated
<1>1. RotationInv => VerifiedMeansRotated
    BY DEF RotationInv
<1> QED BY <1>1, RotationInvariant, PTL

-----------------------------------------------------------------------------
(* Re-embedding.                                                           *)

Offsets == [offset : Nat, watched : SUBSET ReindexId, tenant : ReindexTenant]
Runs ==
    [phase : Reindexing \cup {"stopped", "done"}, offset : Nat, page : Seq(ReindexRow),
     refused : SUBSET ReindexId, failed : BOOLEAN, watched : SUBSET ReindexId]

ReindexTypes ==
    /\ chunks \in Seq(ReindexRow)
    /\ Unique(chunks)
    /\ offsetFile \in Offsets
    /\ job \in Runs
    /\ Unique(job.page)
    /\ job.phase \notin {"embed", "store"} => job.page = <<>>
    /\ jobOptions \in ReindexOptions
    /\ DOMAIN intent = ReindexId

\* The rows in the job's hands are as others left them, or raced.
PageAsLeft ==
    \A j \in DOMAIN job.page : job.page[j].id \notin raced =>
       job.page[j].id \in Ids(chunks) /\ job.page[j].text = intent[job.page[j].id]

\* While a job or the file watches, no row was deleted or moved since the page was read.
PageInTable ==
    job.watched \cup offsetFile.watched # {} =>
      \A j \in DOMAIN job.page : \E i \in DOMAIN chunks :
         chunks[i].id = job.page[j].id /\ chunks[i].tenant = job.page[j].tenant

\* The watched rows of the tenant have the new model, come after the offset, or are held.
WatchedIn(rows, watched, tenant, offset, held) ==
    \A id \in watched : \E i \in InTenant(rows, tenant) :
       /\ rows[i].id = id
       /\ \/ rows[i].model = TargetModel
          \/ RankIn(InTenant(rows, tenant), i) > offset
          \/ id \in held

GivenIn(rows, watched) ==
    \A id \in watched : \E i \in DOMAIN rows : rows[i].id = id /\ rows[i].model = TargetModel

JobKeepsWatch ==
    /\ job.phase = "page" => WatchedIn(chunks, job.watched, jobOptions.tenant, job.offset, {})
    /\ job.phase \in {"embed", "store", "save"} =>
         WatchedIn(chunks, job.watched, jobOptions.tenant, job.offset + jobOptions.batch,
                   Ids(job.page) \cup job.refused)
    /\ job.phase \in {"page", "embed", "save"} => job.refused = {}
    /\ job.phase \in {"clear", "done"} => GivenIn(chunks, job.watched)

FileKeepsWatch ==
    WatchedIn(chunks, offsetFile.watched, offsetFile.tenant, offsetFile.offset, {})

ReindexInv ==
    ReindexTypes /\ PageAsLeft /\ ReindexUndoesOnlyItsPage /\ PageInTable /\ JobKeepsWatch /\ FileKeepsWatch

LEMMA ReindexRowFacts ==
    ASSUME NEW row \in ReindexRow
    PROVE  /\ row.id \in ReindexId /\ row.tenant \in ReindexTenant
           /\ WithModel(row) \in ReindexRow /\ WithModel(row).id = row.id
           /\ WithModel(row).tenant = row.tenant /\ WithModel(row).text = row.text
           /\ WithModel(row).model = TargetModel
BY DEF ReindexRow, WithModel

LEMMA RunsFacts ==
    ASSUME NEW j \in Runs
    PROVE  /\ j.phase \in Reindexing \cup {"stopped", "done"} /\ j.offset \in Nat
           /\ j.page \in Seq(ReindexRow) /\ j.refused \in SUBSET ReindexId /\ j.watched \in SUBSET ReindexId
BY DEF Runs

LEMMA OptionsFacts ==
    ASSUME NEW options \in ReindexOptions
    PROVE  options.batch \in Nat \ {0} /\ options.tenant \in ReindexTenant /\ options.mismatch \in BOOLEAN
BY ReindexAssumption

LEMMA HaltFacts ==
    ASSUME NEW j \in Runs, NEW phase \in Reindexing \cup {"stopped", "done"}
    PROVE  /\ Halt(phase, j) \in Runs
           /\ Halt(phase, j).phase = phase /\ Halt(phase, j).page = <<>> /\ Halt(phase, j).refused = {}
           /\ Halt(phase, j).offset = j.offset /\ Halt(phase, j).watched = j.watched
<1>1. <<>> \in Seq(ReindexRow)
    OBVIOUS
<1> QED BY <1>1 DEF Runs, Halt

LEMMA InTenantFacts ==
    ASSUME NEW rows \in Seq(ReindexRow), NEW tenant
    PROVE  /\ InTenant(rows, tenant) \in SUBSET DOMAIN rows
           /\ InTenant(rows, tenant) \subseteq Nat /\ IsFiniteSet(InTenant(rows, tenant))
           /\ Cardinality(InTenant(rows, tenant)) \in Nat
           /\ \A i \in InTenant(rows, tenant) :
                RankIn(InTenant(rows, tenant), i) \in 1..Cardinality(InTenant(rows, tenant))
<1>1. InTenant(rows, tenant) \in SUBSET DOMAIN rows
    BY DEF InTenant
<1>2. IsFiniteSet(DOMAIN rows) /\ DOMAIN rows \subseteq Nat
    <2>1. IsFiniteSet(1..Len(rows)) /\ DOMAIN rows = 1..Len(rows)
        BY FS_Interval
    <2> QED BY <2>1
<1>3. InTenant(rows, tenant) \subseteq Nat /\ IsFiniteSet(InTenant(rows, tenant))
    BY <1>1, <1>2, FS_Subset
<1> QED BY <1>1, <1>3, RankFacts

\* A table that keeps its rows' tenants keeps their places in them.
LEMMA RankKept ==
    ASSUME NEW rows \in Seq(ReindexRow), NEW t \in Seq(ReindexRow), DOMAIN rows \subseteq DOMAIN t,
           \A i \in DOMAIN rows : t[i].tenant = rows[i].tenant,
           NEW tenant, NEW i \in InTenant(rows, tenant)
    PROVE  i \in InTenant(t, tenant) /\ RankIn(InTenant(t, tenant), i) = RankIn(InTenant(rows, tenant), i)
<1>1. i \in DOMAIN rows /\ i \in InTenant(t, tenant)
    BY DEF InTenant
<1>2. ASSUME NEW j, j <= i PROVE j \in InTenant(t, tenant) <=> j \in InTenant(rows, tenant)
    <2>1. j \in DOMAIN t => j \in DOMAIN rows
        BY <1>1, <1>2
    <2> QED BY <2>1 DEF InTenant
<1>3. {j \in InTenant(t, tenant) : j <= i} = {j \in InTenant(rows, tenant) : j <= i}
    BY <1>2
<1> QED BY <1>1, <1>3 DEF RankIn

\* What keeps the watch: nobody deletes or moves a row, a watched one gets no other model.
LEMMA WatchKept ==
    ASSUME NEW rows \in Seq(ReindexRow), NEW t \in Seq(ReindexRow), DOMAIN rows \subseteq DOMAIN t,
           NEW watched, NEW less \in SUBSET watched, NEW tenant, NEW offset, NEW held,
           \A i \in DOMAIN rows : t[i].id = rows[i].id /\ t[i].tenant = rows[i].tenant,
           \A i \in DOMAIN rows : rows[i].id \in less => t[i].model \in {rows[i].model, TargetModel}
    PROVE  /\ WatchedIn(rows, watched, tenant, offset, held) => WatchedIn(t, less, tenant, offset, held)
           /\ GivenIn(rows, watched) => GivenIn(t, less)
<1>1. ASSUME WatchedIn(rows, watched, tenant, offset, held), NEW id \in less
      PROVE  \E i \in InTenant(t, tenant) :
                /\ t[i].id = id
                /\ t[i].model = TargetModel \/ RankIn(InTenant(t, tenant), i) > offset \/ id \in held
    <2>1. PICK i \in InTenant(rows, tenant) :
             /\ rows[i].id = id
             /\ rows[i].model = TargetModel \/ RankIn(InTenant(rows, tenant), i) > offset \/ id \in held
        BY <1>1 DEF WatchedIn
    <2>2. i \in DOMAIN rows /\ i \in InTenant(t, tenant)
          /\ RankIn(InTenant(t, tenant), i) = RankIn(InTenant(rows, tenant), i)
        <3>1. i \in DOMAIN rows
            BY DEF InTenant
        <3>2. \A k \in DOMAIN rows : t[k].tenant = rows[k].tenant
            OBVIOUS
        <3> QED BY <3>1, <3>2, RankKept
    <2>3. t[i].id = id /\ t[i].model \in {rows[i].model, TargetModel}
        BY <2>1, <2>2
    <2> QED BY <2>1, <2>2, <2>3
<1>2. ASSUME GivenIn(rows, watched) PROVE GivenIn(t, less)
    BY <1>2 DEF GivenIn
<1> QED BY <1>1, <1>2 DEF WatchedIn

LEMMA NothingWatched ==
    ASSUME NEW rows, NEW tenant, NEW offset, NEW held
    PROVE  WatchedIn(rows, {}, tenant, offset, held) /\ GivenIn(rows, {})
BY DEF WatchedIn, GivenIn

LEMMA ReindexInitInv == ReindexInit => ReindexInv
<1> SUFFICES ASSUME ReindexInit PROVE ReindexInv
    OBVIOUS
<1> USE ReindexAssumption
<1>1. chunks \in Seq(ReindexRow) /\ Unique(chunks)
    BY DEF ReindexInit, Unique
<1>2. offsetFile \in Offsets /\ offsetFile.watched = {}
    BY DEF ReindexInit, NoOffset, Offsets
<1>3. job \in Runs /\ job.page = <<>> /\ job.watched = {} /\ job.phase = "stopped" /\ Unique(job.page)
    <2>1. <<>> \in Seq(ReindexRow) /\ DOMAIN <<>> = {}
        OBVIOUS
    <2> QED BY <2>1 DEF ReindexInit, Runs, Unique
<1>4. jobOptions \in ReindexOptions
    BY DEF ReindexInit
<1>5. ReindexTypes
    BY <1>1, <1>2, <1>3, <1>4 DEF ReindexTypes, ReindexInit
<1>6. ReindexUndoesOnlyItsPage
    BY DEF ReindexInit, ReindexUndoesOnlyItsPage
<1>7. PageAsLeft /\ PageInTable
    BY <1>2, <1>3 DEF PageAsLeft, PageInTable
<1>8. JobKeepsWatch /\ FileKeepsWatch
    BY <1>2, <1>3, NothingWatched DEF JobKeepsWatch, FileKeepsWatch
<1> QED BY <1>5, <1>6, <1>7, <1>8 DEF ReindexInv

LEMMA StartReindexInv == ASSUME ReindexInv, StartReindex PROVE ReindexInv'
<1> DEFINE from == IF jobOptions'.persist THEN offsetFile.offset ELSE 0
           watched == IF from = 0 THEN ScopeIds(jobOptions'.tenant)
                      ELSE IF offsetFile.tenant = jobOptions'.tenant THEN offsetFile.watched ELSE {}
<1>1. /\ chunks \in Seq(ReindexRow) /\ offsetFile \in Offsets /\ job \in Runs /\ jobOptions' \in ReindexOptions
      /\ offsetFile.offset \in Nat /\ offsetFile.watched \in SUBSET ReindexId
    BY DEF ReindexInv, ReindexTypes, StartReindex, Offsets
<1>2. from \in Nat /\ from \in {0, offsetFile.offset}
    BY <1>1
<1>3. watched \in SUBSET ReindexId
    <2>1. ScopeIds(jobOptions'.tenant) \in SUBSET ReindexId
        BY <1>1, InTenantFacts, ReindexRowFacts DEF ScopeIds
    <2> QED BY <1>1, <2>1
<1>4. job' = [Halt("page", job) EXCEPT !.offset = from, !.failed = FALSE, !.watched = watched]
    BY DEF StartReindex
<1>5. WatchedIn(chunks, watched, jobOptions'.tenant, from, {})
    <2>1. CASE from = 0
        <3> SUFFICES ASSUME NEW i \in InTenant(chunks, jobOptions'.tenant)
                     PROVE  RankIn(InTenant(chunks, jobOptions'.tenant), i) > 0
            BY <2>1 DEF WatchedIn, ScopeIds
        <3> QED BY <1>1, InTenantFacts
    <2>2. CASE from # 0 /\ offsetFile.tenant = jobOptions'.tenant
        BY <1>2, <2>2 DEF ReindexInv, FileKeepsWatch
    <2>3. CASE from # 0 /\ offsetFile.tenant # jobOptions'.tenant
        BY <2>3, NothingWatched
    <2> QED BY <2>1, <2>2, <2>3
<1> HIDE DEF from, watched
<1>6. /\ job' \in Runs /\ job'.phase = "page" /\ job'.page = <<>> /\ job'.refused = {}
      /\ job'.offset = from /\ job'.watched = watched
    <2>1. Halt("page", job) \in Runs /\ Halt("page", job).phase = "page" /\ Halt("page", job).page = <<>>
          /\ Halt("page", job).refused = {}
        BY <1>1, HaltFacts DEF Reindexing
    <2> HIDE DEF Halt
    <2> QED BY <1>2, <1>3, <1>4, <2>1 DEF Runs
<1>7. ReindexTypes'
    <2>1. Unique(job'.page)
        BY <1>6 DEF Unique
    <2> QED BY <1>1, <1>6, <2>1 DEF ReindexInv, ReindexTypes, StartReindex
<1>8. PageAsLeft' /\ PageInTable'
    BY <1>6 DEF PageAsLeft, PageInTable
<1>9. JobKeepsWatch' /\ FileKeepsWatch'
    BY <1>5, <1>6 DEF ReindexInv, JobKeepsWatch, FileKeepsWatch, StartReindex
<1> QED BY <1>7, <1>8, <1>9 DEF ReindexInv, ReindexUndoesOnlyItsPage, StartReindex

\* The page that is read: rows of the tenant, each once, from the offset on.
LEMMA NextPageFacts ==
    ASSUME ReindexInv, job.phase = "page"
    PROVE  /\ NextPage \in Seq(ReindexRow) /\ Unique(NextPage)
           /\ \A n \in DOMAIN NextPage : \E i \in DOMAIN chunks : NextPage[n] = chunks[i]
           /\ NextPage = <<>> => GivenIn(chunks, job.watched)
           /\ \A id \in job.watched : \E i \in InTenant(chunks, jobOptions.tenant) :
                 /\ chunks[i].id = id
                 /\ \/ chunks[i].model = TargetModel
                    \/ RankIn(InTenant(chunks, jobOptions.tenant), i) > job.offset + jobOptions.batch
                    \/ \E n \in DOMAIN NextPage : NextPage[n] = chunks[i]
<1> DEFINE P == InTenant(chunks, jobOptions.tenant)
           R == SelectAt(chunks, P)
           page == NextPage
<1>1. /\ chunks \in Seq(ReindexRow) /\ Unique(chunks) /\ job.offset \in Nat /\ jobOptions.batch \in Nat \ {0}
    BY RunsFacts, OptionsFacts DEF ReindexInv, ReindexTypes
<1>2. P \in SUBSET DOMAIN chunks /\ Cardinality(P) \in Nat /\ \A i \in P : RankIn(P, i) \in 1..Cardinality(P)
    BY <1>1, InTenantFacts
<1> HIDE DEF P
<1>3. /\ R \in Seq(ReindexRow) /\ Unique(R) /\ Len(R) = Cardinality(P)
      /\ \A n \in DOMAIN R : \E i \in P : R[n] = chunks[i]
      /\ \A i \in P : RankIn(P, i) \in DOMAIN R /\ R[RankIn(P, i)] = chunks[i]
    BY <1>1, <1>2, SelectAtFacts, SelectAtUnique
<1> HIDE DEF R
<1>4. page = Page(R, job.offset, jobOptions.batch)
    BY DEF NextPage, R, P
<1> HIDE DEF page
<1>5. /\ page \in Seq(ReindexRow)
      /\ \A n \in DOMAIN page : job.offset + n \in DOMAIN R /\ page[n] = R[job.offset + n]
      /\ page = <<>> <=> Len(R) <= job.offset
      /\ \A i \in DOMAIN R : job.offset < i /\ i <= job.offset + jobOptions.batch => i - job.offset \in DOMAIN page
    <2>1. PICK offset \in Nat, limit \in Nat \ {0} : offset = job.offset /\ limit = jobOptions.batch
        BY <1>1
    <2>2. PICK rows \in Seq(ReindexRow) : rows = R
        BY <1>3
    <2>3. PICK p : p = page /\ p = Page(rows, offset, limit)
        BY <1>4, <2>1, <2>2
    <2>4. /\ p \in Seq(ReindexRow)
          /\ \A n \in DOMAIN p : offset + n \in DOMAIN rows /\ p[n] = rows[offset + n]
          /\ p = <<>> <=> Len(rows) <= offset
          /\ \A i \in DOMAIN rows : offset < i /\ i <= offset + limit => i - offset \in DOMAIN p
        BY <2>3, PageFacts
    <2> QED BY <2>1, <2>2, <2>3, <2>4
<1>6. Unique(page)
    <2> SUFFICES ASSUME NEW n \in DOMAIN page, NEW m \in DOMAIN page, page[n].id = page[m].id PROVE n = m
        BY DEF Unique
    <2>1. job.offset + n = job.offset + m
        BY <1>3, <1>5 DEF Unique
    <2>2. n \in Nat /\ m \in Nat
        BY <1>5
    <2> QED BY <1>1, <2>1, <2>2
<1>7. \A n \in DOMAIN page : \E i \in DOMAIN chunks : page[n] = chunks[i]
    BY <1>2, <1>3, <1>5
<1>8. ASSUME NEW id \in job.watched
      PROVE  \E i \in P : /\ chunks[i].id = id
                          /\ chunks[i].model = TargetModel \/ RankIn(P, i) > job.offset
    BY <1>8 DEF ReindexInv, JobKeepsWatch, WatchedIn, P
<1>9. ASSUME NEW i \in P, RankIn(P, i) > job.offset, ~(RankIn(P, i) > job.offset + jobOptions.batch)
      PROVE  \E n \in DOMAIN page : page[n] = chunks[i]
    <2> DEFINE r == RankIn(P, i)
    <2>1. r \in DOMAIN R /\ R[r] = chunks[i] /\ r \in Nat
        BY <1>2, <1>3
    <2> HIDE DEF r
    <2>2. job.offset < r /\ r <= job.offset + jobOptions.batch
        BY <1>1, <1>9, <2>1 DEF r
    <2>3. r - job.offset \in DOMAIN page /\ job.offset + (r - job.offset) = r
        BY <1>1, <1>5, <2>1, <2>2
    <2>4. page[r - job.offset] = R[r]
        BY <1>5, <2>3
    <2> QED BY <2>1, <2>3, <2>4
<1>10. page = <<>> => GivenIn(chunks, job.watched)
    <2> SUFFICES ASSUME page = <<>>, NEW id \in job.watched
                 PROVE  \E i \in DOMAIN chunks : chunks[i].id = id /\ chunks[i].model = TargetModel
        BY DEF GivenIn
    <2>1. PICK i \in P : chunks[i].id = id /\ (chunks[i].model = TargetModel \/ RankIn(P, i) > job.offset)
        BY <1>8
    <2>2. ~(RankIn(P, i) > job.offset)
        BY <1>1, <1>2, <1>3, <1>5
    <2> QED BY <1>2, <2>1, <2>2
<1>11. \A id \in job.watched : \E i \in P :
          /\ chunks[i].id = id
          /\ \/ chunks[i].model = TargetModel
             \/ RankIn(P, i) > job.offset + jobOptions.batch
             \/ \E n \in DOMAIN page : page[n] = chunks[i]
    BY <1>8, <1>9
<1> QED BY <1>5, <1>6, <1>7, <1>10, <1>11 DEF P, page

LEMMA ReadPageInv == ASSUME ReindexInv, ReadPage PROVE ReindexInv'
<1>1. /\ chunks \in Seq(ReindexRow) /\ Unique(chunks) /\ job \in Runs /\ job.phase = "page" /\ job.page = <<>>
    BY DEF ReindexInv, ReindexTypes, ReadPage
<1>2. CASE NextPage = <<>>
    <2>1. job' \in Runs /\ job'.phase = "clear" /\ job'.page = <<>> /\ job'.watched = job.watched
        <3>1. job' = [job EXCEPT !.phase = "clear"]
            BY <1>2 DEF ReadPage
        <3> QED BY <1>1, <3>1 DEF Runs, Reindexing
    <2>2. GivenIn(chunks, job.watched)
        BY <1>1, <1>2, NextPageFacts
    <2>3. ReindexTypes'
        BY <1>1, <2>1 DEF ReindexInv, ReindexTypes, ReadPage
    <2>4. PageAsLeft' /\ PageInTable'
        BY <2>1 DEF PageAsLeft, PageInTable
    <2>5. JobKeepsWatch' /\ FileKeepsWatch'
        BY <2>1, <2>2 DEF ReindexInv, JobKeepsWatch, FileKeepsWatch, ReadPage
    <2> QED BY <2>3, <2>4, <2>5 DEF ReindexInv, ReindexUndoesOnlyItsPage, ReadPage
<1>3. CASE NextPage # <<>>
    <2> DEFINE wanted == {n \in DOMAIN NextPage : ~ShouldSkip(NextPage[n])}
               page == Wanted(NextPage)
    <2>1. /\ NextPage \in Seq(ReindexRow) /\ Unique(NextPage)
          /\ \A n \in DOMAIN NextPage : \E i \in DOMAIN chunks : NextPage[n] = chunks[i]
        BY <1>1, NextPageFacts
    <2>2. wanted \in SUBSET DOMAIN NextPage /\ page = SelectAt(NextPage, wanted)
        BY DEF Wanted
    <2>3. \A n \in DOMAIN NextPage : n \in wanted \/ NextPage[n].model = TargetModel
        BY DEF ShouldSkip
    <2> HIDE DEF wanted, page
    <2>4. /\ page \in Seq(ReindexRow) /\ Unique(page)
          /\ \A m \in DOMAIN page : \E n \in DOMAIN NextPage : page[m] = NextPage[n]
          /\ \A n \in wanted : \E m \in DOMAIN page : page[m] = NextPage[n]
        BY <2>1, <2>2, SelectAtFacts, SelectAtUnique
    <2>5. \A m \in DOMAIN page : \E i \in DOMAIN chunks : page[m] = chunks[i]
        BY <2>1, <2>4
    <2>6. /\ job' \in Runs /\ job'.phase = "embed" /\ job'.page = page /\ job'.watched = job.watched
          /\ job'.offset = job.offset /\ job'.refused = job.refused
        <3>1. job' = [job EXCEPT !.phase = "embed", !.page = page]
            BY <1>3 DEF ReadPage, page
        <3> QED BY <1>1, <2>4, <3>1 DEF Runs, Reindexing
    <2>7. WatchedIn(chunks, job.watched, jobOptions.tenant, job.offset + jobOptions.batch, Ids(page))
        <3> SUFFICES ASSUME NEW id \in job.watched
                     PROVE  \E i \in InTenant(chunks, jobOptions.tenant) :
                               /\ chunks[i].id = id
                               /\ \/ chunks[i].model = TargetModel
                                  \/ RankIn(InTenant(chunks, jobOptions.tenant), i) > job.offset + jobOptions.batch
                                  \/ id \in Ids(page)
            BY DEF WatchedIn
        <3>1. PICK i \in InTenant(chunks, jobOptions.tenant) :
                 /\ chunks[i].id = id
                 /\ \/ chunks[i].model = TargetModel
                    \/ RankIn(InTenant(chunks, jobOptions.tenant), i) > job.offset + jobOptions.batch
                    \/ \E n \in DOMAIN NextPage : NextPage[n] = chunks[i]
            BY <1>1, NextPageFacts
        <3>2. ASSUME NEW n \in DOMAIN NextPage, NextPage[n] = chunks[i]
              PROVE  chunks[i].model = TargetModel \/ id \in Ids(page)
            BY <2>3, <2>4, <3>1, <3>2 DEF Ids
        <3> QED BY <3>1, <3>2
    <2>8. ReindexTypes'
        BY <2>4, <2>6 DEF ReindexInv, ReindexTypes, ReadPage
    <2>9. PageAsLeft'
        <3> SUFFICES ASSUME NEW m \in DOMAIN page, page[m].id \notin raced
                     PROVE  page[m].id \in Ids(chunks) /\ page[m].text = intent[page[m].id]
            BY <2>6 DEF PageAsLeft, ReadPage
        <3>1. PICK i \in DOMAIN chunks : page[m] = chunks[i]
            BY <2>5
        <3>2. page[m].id \in Ids(chunks) /\ RowOf(chunks, page[m].id) = page[m] /\ page[m].id \in ReindexId
            BY <1>1, <3>1, RowOfFacts, ReindexRowFacts
        <3> QED BY <3>2 DEF ReindexInv, ReindexUndoesOnlyItsPage
    <2>10. PageInTable'
        BY <2>5, <2>6 DEF PageInTable, ReadPage
    <2>11. JobKeepsWatch' /\ FileKeepsWatch'
        <3>1. Ids(page) \cup {} = Ids(page)
            OBVIOUS
        <3>2. job.refused = {}
            BY <1>1 DEF ReindexInv, JobKeepsWatch
        <3> QED BY <2>6, <2>7, <3>1, <3>2 DEF ReindexInv, JobKeepsWatch, FileKeepsWatch, ReadPage
    <2> QED BY <2>8, <2>9, <2>10, <2>11 DEF ReindexInv, ReindexUndoesOnlyItsPage, ReadPage
<1> QED BY <1>2, <1>3

LEMMA EmbedPageInv == ASSUME ReindexInv, EmbedPage PROVE ReindexInv'
<1>1. /\ job \in Runs /\ job.phase = "embed" /\ job.page \in Seq(ReindexRow) /\ Unique(job.page)
      /\ job.refused = {}
    BY RunsFacts DEF ReindexInv, ReindexTypes, JobKeepsWatch, EmbedPage
<1>2. PICK gone \in SUBSET Ids(job.page) :
         job' = [job EXCEPT !.phase = "store",
                            !.page = SelectAt(@, {n \in DOMAIN @ : @[n].id \notin gone}),
                            !.refused = gone,
                            !.failed = @ \/ gone # {}]
    BY DEF EmbedPage
<1> DEFINE kept == {n \in DOMAIN job.page : job.page[n].id \notin gone}
           page == SelectAt(job.page, kept)
           failed == job.failed \/ gone # {}
<1>3. kept \in SUBSET DOMAIN job.page /\ \A n \in DOMAIN job.page : n \in kept \/ job.page[n].id \in gone
    OBVIOUS
<1>4. job' = [job EXCEPT !.phase = "store", !.page = page, !.refused = gone, !.failed = failed]
    BY <1>2
<1> HIDE DEF kept, page
<1>5. /\ page \in Seq(ReindexRow) /\ Unique(page)
      /\ \A m \in DOMAIN page : \E n \in DOMAIN job.page : page[m] = job.page[n]
      /\ \A n \in kept : \E m \in DOMAIN page : page[m] = job.page[n]
    BY <1>1, <1>3, SelectAtFacts, SelectAtUnique DEF page
<1>6. gone \in SUBSET ReindexId
    BY <1>1, ReindexRowFacts DEF Ids
<1>7. failed \in BOOLEAN
    OBVIOUS
<1> HIDE DEF failed
<1>8. /\ job' \in Runs /\ job'.phase = "store" /\ job'.page = page /\ job'.refused = gone
      /\ job'.watched = job.watched /\ job'.offset = job.offset
    BY <1>1, <1>4, <1>5, <1>6, <1>7 DEF Runs, Reindexing
<1>9. ReindexTypes'
    BY <1>5, <1>8 DEF ReindexInv, ReindexTypes, EmbedPage
<1>10. PageAsLeft'
    BY <1>5, <1>8 DEF ReindexInv, PageAsLeft, EmbedPage
<1>11. PageInTable'
    <2> SUFFICES ASSUME job.watched \cup offsetFile.watched # {}, NEW m \in DOMAIN page
                 PROVE  \E i \in DOMAIN chunks : chunks[i].id = page[m].id /\ chunks[i].tenant = page[m].tenant
        BY <1>8 DEF PageInTable, EmbedPage
    <2>1. PICK n \in DOMAIN job.page : page[m] = job.page[n]
        BY <1>5
    <2> QED BY <2>1 DEF ReindexInv, PageInTable
<1>12. Ids(job.page) \subseteq Ids(page) \cup gone
    BY <1>3, <1>5 DEF Ids
<1>13. WatchedIn(chunks, job.watched, jobOptions.tenant, job.offset + jobOptions.batch, Ids(page) \cup gone)
    <2>1. WatchedIn(chunks, job.watched, jobOptions.tenant, job.offset + jobOptions.batch,
                    Ids(job.page) \cup job.refused)
        BY <1>1 DEF ReindexInv, JobKeepsWatch
    <2> QED BY <1>1, <1>12, <2>1 DEF WatchedIn
<1>14. JobKeepsWatch' /\ FileKeepsWatch'
    BY <1>8, <1>13 DEF ReindexInv, JobKeepsWatch, FileKeepsWatch, EmbedPage
<1> QED BY <1>9, <1>10, <1>11, <1>14 DEF ReindexInv, ReindexUndoesOnlyItsPage, EmbedPage

\* What writing the page back does to the table.
LEMMA StoredPage ==
    ASSUME ReindexInv, StorePage
    PROVE  \E t \in Seq(ReindexRow) :
           /\ chunks' = t /\ Unique(t) /\ DOMAIN chunks \subseteq DOMAIN t
           /\ \A i \in DOMAIN t :
                 \/ i \in DOMAIN chunks /\ t[i] = chunks[i]
                 \/ \E n \in DOMAIN job.page : t[i] = WithModel(job.page[n])
           /\ \A i \in DOMAIN chunks :
                 \/ chunks[i].id \notin Ids(job.page) /\ t[i] = chunks[i]
                 \/ \E n \in DOMAIN job.page : job.page[n].id = chunks[i].id /\ t[i] = WithModel(job.page[n])
           /\ \A n \in DOMAIN job.page : \E i \in DOMAIN t : t[i] = WithModel(job.page[n])
<1>1. job.page \in Seq(ReindexRow) /\ Unique(job.page) /\ chunks \in Seq(ReindexRow) /\ Unique(chunks)
    BY RunsFacts DEF ReindexInv, ReindexTypes
<1>2. PICK batch : batch = [i \in DOMAIN job.page |-> WithModel(job.page[i])]
    OBVIOUS
<1>3. DOMAIN batch = DOMAIN job.page /\ \A n \in DOMAIN job.page : batch[n] = WithModel(job.page[n])
    BY <1>2
<1>4. \A n \in DOMAIN job.page : batch[n] \in ReindexRow /\ batch[n].id = job.page[n].id
    BY <1>1, <1>3, ReindexRowFacts
<1>5. batch \in Seq(ReindexRow)
    <2>1. DOMAIN batch = 1..Len(job.page) /\ Len(job.page) \in Nat
        BY <1>1, <1>3
    <2>2. batch \in [1..Len(job.page) -> ReindexRow]
        BY <1>2, <1>3, <1>4, <2>1
    <2> QED BY <2>1, <2>2
<1>6. Unique(batch)
    BY <1>1, <1>3, <1>4 DEF Unique
<1>7. Ids(batch) = Ids(job.page)
    BY <1>3, <1>4 DEF Ids
<1> DEFINE t == UpsertRows(chunks, batch)
<1>8. /\ t \in Seq(ReindexRow) /\ DOMAIN chunks \subseteq DOMAIN t
      /\ \A i \in DOMAIN chunks :
            \/ chunks[i].id \notin Ids(batch) /\ t[i] = chunks[i]
            \/ \E n \in DOMAIN batch : batch[n].id = chunks[i].id /\ t[i] = batch[n]
      /\ \A i \in DOMAIN t \ DOMAIN chunks : \E n \in DOMAIN batch : t[i] = batch[n]
      /\ \A n \in DOMAIN batch : \E i \in DOMAIN t : t[i] = batch[n]
      /\ Unique(t)
    BY <1>1, <1>5, <1>6, UpsertRowsFacts
<1>21. chunks' = t
    BY <1>2 DEF StorePage
<1> HIDE DEF t
<1>9. ASSUME NEW i \in DOMAIN chunks
      PROVE  \/ chunks[i].id \notin Ids(job.page) /\ t[i] = chunks[i]
             \/ \E n \in DOMAIN job.page : job.page[n].id = chunks[i].id /\ t[i] = WithModel(job.page[n])
    BY <1>3, <1>4, <1>7, <1>8
<1>10. ASSUME NEW i \in DOMAIN t
       PROVE  \/ i \in DOMAIN chunks /\ t[i] = chunks[i]
              \/ \E n \in DOMAIN job.page : t[i] = WithModel(job.page[n])
    <2>1. CASE i \in DOMAIN chunks
        BY <1>9, <2>1
    <2>2. CASE i \notin DOMAIN chunks
        BY <1>3, <1>8, <2>2
    <2> QED BY <2>1, <2>2
<1>11. ASSUME NEW n \in DOMAIN job.page PROVE \E i \in DOMAIN t : t[i] = WithModel(job.page[n])
    BY <1>3, <1>8
<1>12. t \in Seq(ReindexRow) /\ Unique(t) /\ DOMAIN chunks \subseteq DOMAIN t
    BY <1>8
<1> QED BY <1>21, <1>9, <1>10, <1>11, <1>12

LEMMA StorePageInv == ASSUME ReindexInv, StorePage PROVE ReindexInv'
<1>1. /\ job \in Runs /\ job.page \in Seq(ReindexRow) /\ chunks \in Seq(ReindexRow) /\ Unique(chunks)
      /\ job.phase = "store"
    BY RunsFacts DEF ReindexInv, ReindexTypes, StorePage
<1>2. PICK t \in Seq(ReindexRow) :
         /\ chunks' = t /\ Unique(t) /\ DOMAIN chunks \subseteq DOMAIN t
         /\ \A i \in DOMAIN t :
               \/ i \in DOMAIN chunks /\ t[i] = chunks[i]
               \/ \E n \in DOMAIN job.page : t[i] = WithModel(job.page[n])
         /\ \A i \in DOMAIN chunks :
               \/ chunks[i].id \notin Ids(job.page) /\ t[i] = chunks[i]
               \/ \E n \in DOMAIN job.page : job.page[n].id = chunks[i].id /\ t[i] = WithModel(job.page[n])
         /\ \A n \in DOMAIN job.page : \E i \in DOMAIN t : t[i] = WithModel(job.page[n])
    BY StoredPage
<1>4. \A n \in DOMAIN job.page :
         /\ WithModel(job.page[n]).id = job.page[n].id /\ WithModel(job.page[n]).tenant = job.page[n].tenant
         /\ WithModel(job.page[n]).text = job.page[n].text /\ WithModel(job.page[n]).model = TargetModel
    BY <1>1, ReindexRowFacts
<1>5. /\ job' \in Runs /\ job'.page = <<>> /\ job'.refused = {}
      /\ \/ job'.phase = "stopped" /\ job'.watched = job.watched
         \/ /\ job'.phase = "save" /\ job'.watched = job.watched \ job.refused
            /\ job'.offset = job.offset
    <2>1. CASE job.failed /\ ~jobOptions.cont
        <3>1. job' = Halt("stopped", job)
            BY <2>1 DEF StorePage
        <3> QED BY <1>1, <3>1, HaltFacts
    <2>2. CASE ~(job.failed /\ ~jobOptions.cont)
        <3> DEFINE watched == job.watched \ job.refused
        <3>1. job' = [job EXCEPT !.phase = "save", !.page = <<>>, !.refused = {}, !.watched = watched]
            BY <2>2 DEF StorePage
        <3>2. <<>> \in Seq(ReindexRow) /\ watched \in SUBSET ReindexId
            BY <1>1, RunsFacts
        <3> QED BY <1>1, <3>1, <3>2 DEF Runs, Reindexing
    <2> QED BY <2>1, <2>2
<1>6. ReindexTypes'
    <2>1. Unique(job'.page)
        BY <1>5 DEF Unique
    <2> QED BY <1>2, <1>5, <2>1 DEF ReindexInv, ReindexTypes, StorePage
<1>7. PageAsLeft' /\ PageInTable'
    BY <1>5 DEF PageAsLeft, PageInTable
<1>8. \A i \in DOMAIN chunks : t[i].id = chunks[i].id
    BY <1>2, <1>4
<1>9. ReindexUndoesOnlyItsPage'
    <2> SUFFICES ASSUME NEW id \in ReindexId \ raced
                 PROVE  IF id \in Ids(t) THEN RowOf(t, id).text = intent[id] ELSE intent[id] = Absent
        BY <1>2 DEF ReindexUndoesOnlyItsPage, StorePage
    <2>1. IF id \in Ids(chunks) THEN RowOf(chunks, id).text = intent[id] ELSE intent[id] = Absent
        BY DEF ReindexInv, ReindexUndoesOnlyItsPage
    <2>2. CASE id \in Ids(t)
        <3>1. PICK i \in DOMAIN t : t[i].id = id /\ RowOf(t, id) = t[i]
            BY <1>2, <2>2, RowOfFacts
        <3>2. CASE i \in DOMAIN chunks /\ t[i] = chunks[i]
            <4>1. id \in Ids(chunks) /\ RowOf(chunks, id) = chunks[i]
                BY <1>1, <3>1, <3>2, RowOfFacts
            <4> QED BY <2>1, <2>2, <3>1, <3>2, <4>1
        <3>3. ASSUME NEW n \in DOMAIN job.page, t[i] = WithModel(job.page[n])
              PROVE  RowOf(t, id).text = intent[id]
            BY <1>4, <3>1, <3>3 DEF ReindexInv, PageAsLeft
        <3> QED BY <1>2, <2>2, <3>2, <3>3
    <2>3. CASE id \notin Ids(t)
        <3>1. id \notin Ids(chunks)
            BY <1>2, <1>8, <2>3 DEF Ids
        <3> QED BY <2>1, <2>3, <3>1
    <2> QED BY <2>2, <2>3
<1>10. ASSUME job.watched \cup offsetFile.watched # {}, NEW i \in DOMAIN chunks
       PROVE  t[i].tenant = chunks[i].tenant
    <2>1. CASE t[i] = chunks[i]
        BY <2>1
    <2>2. ASSUME NEW n \in DOMAIN job.page, job.page[n].id = chunks[i].id, t[i] = WithModel(job.page[n])
          PROVE  t[i].tenant = chunks[i].tenant
        <3>1. PICK k \in DOMAIN chunks : chunks[k].id = job.page[n].id /\ chunks[k].tenant = job.page[n].tenant
            BY <1>10 DEF ReindexInv, PageInTable
        <3>2. k = i
            BY <1>1, <2>2, <3>1 DEF Unique
        <3> QED BY <1>4, <2>2, <3>1, <3>2
    <2> QED BY <1>2, <2>1, <2>2
<1>11. \A i \in DOMAIN chunks : t[i].model \in {chunks[i].model, TargetModel}
    BY <1>2, <1>4
<1>12. FileKeepsWatch'
    <2>1. CASE offsetFile.watched = {}
        BY <2>1, NothingWatched DEF FileKeepsWatch, StorePage
    <2>2. CASE offsetFile.watched # {}
        <3>1. WatchedIn(chunks, offsetFile.watched, offsetFile.tenant, offsetFile.offset, {})
            BY DEF ReindexInv, FileKeepsWatch
        <3>2. \A i \in DOMAIN chunks : t[i].id = chunks[i].id /\ t[i].tenant = chunks[i].tenant
            BY <1>8, <1>10, <2>2
        <3>3. WatchedIn(t, offsetFile.watched, offsetFile.tenant, offsetFile.offset, {})
            BY <1>1, <1>2, <1>11, <3>1, <3>2, WatchKept
        <3> QED BY <1>2, <3>3 DEF FileKeepsWatch, StorePage
    <2> QED BY <2>1, <2>2
<1>13. JobKeepsWatch'
    <2> DEFINE less == job.watched \ job.refused
               tenant == jobOptions.tenant
               offset == job.offset + jobOptions.batch
    <2> SUFFICES WatchedIn(t, less, tenant, offset, {})
        <3>1. Ids(job'.page) \cup job'.refused = {}
            BY <1>5 DEF Ids
        <3> QED BY <1>2, <1>5, <3>1 DEF JobKeepsWatch, StorePage
    <2>1. CASE less = {}
        BY <2>1, NothingWatched
    <2>2. CASE less # {}
        <3>1. WatchedIn(chunks, job.watched, tenant, offset, Ids(job.page) \cup job.refused)
            BY <1>1 DEF ReindexInv, JobKeepsWatch
        <3>2. \A i \in DOMAIN chunks : t[i].id = chunks[i].id /\ t[i].tenant = chunks[i].tenant
            BY <1>8, <1>10, <2>2
        <3>3. less \in SUBSET job.watched
            OBVIOUS
        <3> HIDE DEF less, tenant, offset
        <3>21. PICK held : held = Ids(job.page) \cup job.refused
            OBVIOUS
        <3>22. WatchedIn(chunks, job.watched, tenant, offset, held)
            BY <3>1, <3>21
        <3>23. DOMAIN chunks \subseteq DOMAIN t
            BY <1>2
        <3>4. WatchedIn(t, less, tenant, offset, held)
            BY <1>1, <1>11, <3>22, <3>23, <3>2, <3>3, WatchKept
        <3>5. ASSUME NEW i \in InTenant(t, tenant), t[i].id \in Ids(job.page) PROVE t[i].model = TargetModel
            <4>1. i \in DOMAIN t
                BY DEF InTenant
            <4>2. PICK n \in DOMAIN job.page : job.page[n].id = t[i].id
                BY <3>5 DEF Ids
            <4>3. PICK k \in DOMAIN t : t[k] = WithModel(job.page[n])
                BY <1>2
            <4>4. k = i
                BY <1>2, <1>4, <4>1, <4>2, <4>3 DEF Unique
            <4> QED BY <1>4, <4>3, <4>4
        <3>6. \A id \in less : id \notin job.refused
            BY DEF less
        <3> QED BY <3>21, <3>4, <3>5, <3>6 DEF WatchedIn
    <2> QED BY <2>1, <2>2
<1> QED BY <1>6, <1>7, <1>9, <1>12, <1>13 DEF ReindexInv

LEMMA SaveOffsetInv == ASSUME ReindexInv, SaveOffset PROVE ReindexInv'
<1>1. /\ job \in Runs /\ job.phase = "save" /\ job.page = <<>> /\ job.refused = {} /\ jobOptions \in ReindexOptions
      /\ offsetFile \in Offsets
    BY DEF ReindexInv, ReindexTypes, JobKeepsWatch, SaveOffset
<1> DEFINE offset == job.offset + jobOptions.batch
<1>2. offset \in Nat
    <2>1. job.offset \in Nat /\ jobOptions.batch \in Nat
        BY <1>1, RunsFacts, OptionsFacts
    <2> QED BY <2>1
<1>3. job' = [job EXCEPT !.phase = "page", !.offset = offset]
    BY DEF SaveOffset
<1>4. WatchedIn(chunks, job.watched, jobOptions.tenant, offset, {})
    <2>1. Ids(job.page) \cup job.refused = {}
        BY <1>1 DEF Ids
    <2> QED BY <1>1, <2>1 DEF ReindexInv, JobKeepsWatch
<1> HIDE DEF offset
<1>5. /\ job' \in Runs /\ job'.phase = "page" /\ job'.offset = offset /\ job'.page = <<>>
      /\ job'.refused = {} /\ job'.watched = job.watched
    BY <1>1, <1>2, <1>3 DEF Runs, Reindexing
<1>6. /\ offsetFile' \in Offsets
      /\ \/ offsetFile' = offsetFile
         \/ /\ offsetFile'.offset = offset /\ offsetFile'.watched = job.watched
            /\ offsetFile'.tenant = jobOptions.tenant
    <2>1. job.watched \in SUBSET ReindexId /\ jobOptions.tenant \in ReindexTenant
        BY <1>1, RunsFacts, OptionsFacts
    <2>2. \/ offsetFile' = offsetFile
          \/ offsetFile' = [offset |-> offset, watched |-> job.watched, tenant |-> jobOptions.tenant]
        BY <1>5 DEF SaveOffset
    <2> QED BY <1>1, <1>2, <2>1, <2>2 DEF Offsets
<1>7. ReindexTypes'
    BY <1>5, <1>6 DEF ReindexInv, ReindexTypes, SaveOffset, Unique
<1>8. PageAsLeft' /\ PageInTable'
    BY <1>5 DEF PageAsLeft, PageInTable
<1>9. JobKeepsWatch'
    BY <1>4, <1>5 DEF JobKeepsWatch, SaveOffset
<1>10. FileKeepsWatch'
    BY <1>4, <1>6 DEF ReindexInv, FileKeepsWatch, SaveOffset
<1> QED BY <1>7, <1>8, <1>9, <1>10 DEF ReindexInv, ReindexUndoesOnlyItsPage, SaveOffset

\* The job ends, and what it owes is given or no longer asked.
LEMMA HaltInv ==
    ASSUME ReindexInv, NEW phase \in {"stopped", "done"}, job' = Halt(phase, job),
           phase = "done" => GivenIn(chunks, job.watched),
           offsetFile' \in {NoOffset, offsetFile},
           UNCHANGED <<chunks, jobOptions, intent, raced>>
    PROVE  ReindexInv'
<1>1. job \in Runs
    BY DEF ReindexInv, ReindexTypes
<1>2. job' \in Runs /\ job'.phase = phase /\ job'.page = <<>> /\ job'.refused = {} /\ job'.watched = job.watched
    BY <1>1, HaltFacts
<1>3. NoOffset \in Offsets /\ NoOffset.watched = {}
    BY ReindexAssumption DEF NoOffset, Offsets
<1>4. ReindexTypes'
    BY <1>2, <1>3 DEF ReindexInv, ReindexTypes, Unique
<1>5. PageAsLeft' /\ PageInTable'
    BY <1>2 DEF PageAsLeft, PageInTable
<1>6. JobKeepsWatch'
    BY <1>2 DEF JobKeepsWatch
<1>7. FileKeepsWatch'
    <2>1. CASE offsetFile' = NoOffset
        BY <1>3, <2>1, NothingWatched DEF FileKeepsWatch
    <2>2. CASE offsetFile' = offsetFile
        BY <2>2 DEF ReindexInv, FileKeepsWatch
    <2> QED BY <2>1, <2>2
<1> QED BY <1>4, <1>5, <1>6, <1>7 DEF ReindexInv, ReindexUndoesOnlyItsPage

\* Others' changes stop the watch over what they touch.
LEMMA UnwatchFacts ==
    ASSUME ReindexTypes, NEW ids, Unwatch(ids)
    PROVE  /\ job' \in Runs /\ job'.page = job.page /\ job'.phase = job.phase /\ job'.offset = job.offset
           /\ job'.refused = job.refused /\ job'.watched = job.watched \ ids
           /\ offsetFile' \in Offsets /\ offsetFile'.offset = offsetFile.offset
           /\ offsetFile'.tenant = offsetFile.tenant /\ offsetFile'.watched = offsetFile.watched \ ids
<1>1. job \in Runs /\ offsetFile \in Offsets
    BY DEF ReindexTypes
<1>2. PICK less, fileLess : less = job.watched \ ids /\ fileLess = offsetFile.watched \ ids
    OBVIOUS
<1>3. less \in SUBSET ReindexId /\ fileLess \in SUBSET ReindexId
    BY <1>1, <1>2 DEF Runs, Offsets
<1>4. job' = [job EXCEPT !.watched = less] /\ offsetFile' = [offsetFile EXCEPT !.watched = fileLess]
    BY <1>2 DEF Unwatch
<1> QED BY <1>1, <1>2, <1>3, <1>4 DEF Runs, Offsets

LEMMA OthersWriteInv == ASSUME ReindexInv, OthersWrite PROVE ReindexInv'
<1>1. PICK id \in ReindexId, tenant \in ReindexTenant, text \in ReindexText :
         /\ chunks' = UpsertRow(chunks, [id |-> id, tenant |-> tenant, text |-> text, model |-> OldModel])
         /\ intent' = [intent EXCEPT ![id] = text]
         /\ raced' = IF id \in Ids(job.page) THEN raced \cup {id} ELSE raced
         /\ IF id \in Ids(chunks) /\ RowOf(chunks, id).tenant # tenant
            THEN Unwatch(ReindexId)
            ELSE Unwatch({id})
    BY DEF OthersWrite
<1>2. PICK row \in ReindexRow : /\ chunks' = UpsertRow(chunks, row)
                                /\ row.id = id /\ row.tenant = tenant /\ row.text = text
    <2>1. [id |-> id, tenant |-> tenant, text |-> text, model |-> OldModel] \in ReindexRow
        BY DEF ReindexRow
    <2> QED BY <1>1, <2>1
<1>3. chunks \in Seq(ReindexRow) /\ Unique(chunks) /\ job.page \in Seq(ReindexRow) /\ ReindexTypes
    BY RunsFacts DEF ReindexInv, ReindexTypes
<1>4. PICK t \in Seq(ReindexRow) :
         /\ chunks' = t /\ Unique(t) /\ DOMAIN chunks \subseteq DOMAIN t
         /\ \A i \in DOMAIN chunks : chunks[i].id # id => t[i] = chunks[i]
         /\ \A i \in DOMAIN chunks : chunks[i].id = id => t[i] = row
         /\ \A i \in DOMAIN t \ DOMAIN chunks : t[i] = row
         /\ \E i \in DOMAIN t : t[i] = row
    <2> DEFINE t == UpsertRow(chunks, row)
    <2>1. /\ t \in Seq(ReindexRow) /\ Unique(t) /\ DOMAIN chunks \subseteq DOMAIN t
          /\ \A i \in DOMAIN chunks : t[i] = IF chunks[i].id = row.id THEN row ELSE chunks[i]
          /\ \A i \in DOMAIN t \ DOMAIN chunks : t[i] = row
          /\ row.id \notin Ids(chunks) => Len(t) = Len(chunks) + 1
        <3>1. chunks \in Seq(ReindexRow) /\ Unique(chunks)
            BY <1>3
        <3>2. t \in Seq(ReindexRow) /\ Unique(t) /\ DOMAIN chunks \subseteq DOMAIN t
            BY <3>1, UpsertRowFacts
        <3>3. \A i \in DOMAIN chunks : t[i] = IF chunks[i].id = row.id THEN row ELSE chunks[i]
            BY <3>1, UpsertRowFacts
        <3>4. /\ \A i \in DOMAIN t \ DOMAIN chunks : t[i] = row
              /\ row.id \notin Ids(chunks) => Len(t) = Len(chunks) + 1
            BY <3>1, UpsertRowFacts
        <3> QED BY <3>2, <3>3, <3>4
    <2>2. t = chunks'
        BY <1>2
    <2> HIDE DEF t
    <2>3. \E i \in DOMAIN t : t[i] = row
        <3>1. CASE row.id \in Ids(chunks)
            BY <2>1, <3>1 DEF Ids
        <3>2. CASE row.id \notin Ids(chunks)
            <4>1. Len(chunks) + 1 \in DOMAIN t /\ Len(chunks) + 1 \notin DOMAIN chunks
                BY <1>3, <2>1, <3>2
            <4> QED BY <2>1, <4>1
        <3> QED BY <3>1, <3>2
    <2> QED BY <1>2, <2>1, <2>2, <2>3
<1>5. DOMAIN intent' = ReindexId /\ intent'[id] = text
      /\ \A other \in ReindexId : other # id => intent'[other] = intent[other]
    BY <1>1 DEF ReindexInv, ReindexTypes
<1>6. PICK ids : /\ Unwatch(ids)
                 /\ \/ ids = ReindexId
                    \/ ids = {id} /\ (id \in Ids(chunks) => RowOf(chunks, id).tenant = tenant)
    BY <1>1
<1>7. /\ job' \in Runs /\ job'.page = job.page /\ job'.phase = job.phase /\ job'.offset = job.offset
      /\ job'.refused = job.refused /\ job'.watched = job.watched \ ids
      /\ offsetFile' \in Offsets /\ offsetFile'.offset = offsetFile.offset
      /\ offsetFile'.tenant = offsetFile.tenant /\ offsetFile'.watched = offsetFile.watched \ ids
    BY <1>3, <1>6, UnwatchFacts
<1>8. ReindexTypes'
    BY <1>4, <1>5, <1>7 DEF ReindexTypes, ReindexInv, OthersWrite
<1>9. \A i \in DOMAIN chunks : t[i].id = chunks[i].id
    BY <1>2, <1>4
<1>10. ASSUME NEW other \in ReindexId, other # id
       PROVE  /\ other \in Ids(t) <=> other \in Ids(chunks)
              /\ other \in Ids(chunks) => RowOf(t, other) = RowOf(chunks, other)
    <2>1. other \in Ids(t) => other \in Ids(chunks)
        BY <1>2, <1>4, <1>10 DEF Ids
    <2>2. ASSUME other \in Ids(chunks) PROVE other \in Ids(t) /\ RowOf(t, other) = RowOf(chunks, other)
        <3>1. PICK i \in DOMAIN chunks : chunks[i].id = other /\ RowOf(chunks, other) = chunks[i]
            BY <1>3, <2>2, RowOfFacts
        <3>2. i \in DOMAIN t /\ t[i] = chunks[i]
            BY <1>4, <1>10, <3>1
        <3> QED BY <1>4, <3>1, <3>2, RowOfFacts
    <2> QED BY <2>1, <2>2
<1>11. id \in Ids(t) /\ RowOf(t, id) = row
    BY <1>2, <1>4, RowOfFacts
<1>12. raced \subseteq raced' /\ (id \in Ids(job.page) => id \in raced')
    BY <1>1
<1>13. ReindexUndoesOnlyItsPage'
    <2> SUFFICES ASSUME NEW other \in ReindexId \ raced'
                 PROVE  IF other \in Ids(t) THEN RowOf(t, other).text = intent'[other] ELSE intent'[other] = Absent
        BY <1>4 DEF ReindexUndoesOnlyItsPage
    <2>1. CASE other = id
        BY <1>2, <1>5, <1>11, <2>1
    <2>2. CASE other # id
        BY <1>5, <1>10, <1>12, <2>2 DEF ReindexInv, ReindexUndoesOnlyItsPage
    <2> QED BY <2>1, <2>2
<1>14. PageAsLeft'
    <2> SUFFICES ASSUME NEW j \in DOMAIN job.page, job.page[j].id \notin raced'
                 PROVE  job.page[j].id \in Ids(t) /\ job.page[j].text = intent'[job.page[j].id]
        BY <1>4, <1>7 DEF PageAsLeft
    <2>1. job.page[j].id \in ReindexId /\ job.page[j].id # id
        BY <1>3, <1>12, ReindexRowFacts DEF Ids
    <2>2. job.page[j].id \in Ids(chunks) /\ job.page[j].text = intent[job.page[j].id]
        BY <1>12 DEF ReindexInv, PageAsLeft
    <2> QED BY <1>5, <1>10, <2>1, <2>2
<1>15. CASE ids = ReindexId
    <2>1. job'.watched = {} /\ offsetFile'.watched = {}
        BY <1>3, <1>7, <1>15 DEF ReindexTypes, Runs, Offsets
    <2> QED BY <1>8, <1>13, <1>14, <2>1, <1>7, NothingWatched
            DEF ReindexInv, PageInTable, JobKeepsWatch, FileKeepsWatch
<1>16. CASE ids = {id} /\ (id \in Ids(chunks) => RowOf(chunks, id).tenant = tenant)
    <2>1. ASSUME NEW i \in DOMAIN chunks PROVE t[i].tenant = chunks[i].tenant
        <3>1. CASE chunks[i].id # id
            BY <1>4, <3>1
        <3>2. CASE chunks[i].id = id
            <4>1. id \in Ids(chunks) /\ RowOf(chunks, id) = chunks[i]
                BY <1>3, <3>2, RowOfFacts
            <4> QED BY <1>2, <1>4, <1>16, <3>2, <4>1
        <3> QED BY <3>1, <3>2
    <2>2. ASSUME NEW watched, NEW scope, NEW offset, NEW held
          PROVE  /\ WatchedIn(chunks, watched, scope, offset, held) => WatchedIn(t, watched \ ids, scope, offset, held)
                 /\ GivenIn(chunks, watched) => GivenIn(t, watched \ ids)
        <3>1. PICK less \in SUBSET watched : less = watched \ ids
            OBVIOUS
        <3>2. \A i \in DOMAIN chunks : t[i].id = chunks[i].id /\ t[i].tenant = chunks[i].tenant
            BY <1>9, <2>1
        <3>3. \A i \in DOMAIN chunks : chunks[i].id \in less => t[i].model \in {chunks[i].model, TargetModel}
            BY <1>4, <1>16, <3>1
        <3>4. DOMAIN chunks \subseteq DOMAIN t
            BY <1>4
        <3>5. /\ WatchedIn(chunks, watched, scope, offset, held) => WatchedIn(t, less, scope, offset, held)
              /\ GivenIn(chunks, watched) => GivenIn(t, less)
            BY <1>3, <3>2, <3>3, <3>4, WatchKept
        <3> QED BY <3>1, <3>5
    <2>3. PageInTable'
        <3> SUFFICES ASSUME job'.watched \cup offsetFile'.watched # {}, NEW j \in DOMAIN job.page
                     PROVE  \E i \in DOMAIN t : t[i].id = job.page[j].id /\ t[i].tenant = job.page[j].tenant
            BY <1>4, <1>7 DEF PageInTable
        <3>1. job.watched \cup offsetFile.watched # {}
            BY <1>7
        <3>2. PICK i \in DOMAIN chunks : chunks[i].id = job.page[j].id /\ chunks[i].tenant = job.page[j].tenant
            BY <3>1 DEF ReindexInv, PageInTable
        <3> QED BY <1>4, <1>9, <2>1, <3>2
    <2>4. FileKeepsWatch'
        <3>1. WatchedIn(chunks, offsetFile.watched, offsetFile.tenant, offsetFile.offset, {})
            BY DEF ReindexInv, FileKeepsWatch
        <3>2. WatchedIn(t, offsetFile.watched \ ids, offsetFile.tenant, offsetFile.offset, {})
            BY <2>2, <3>1
        <3>3. chunks' = t
            BY <1>4
        <3> QED BY <1>7, <3>2, <3>3 DEF FileKeepsWatch
    <2>5. JobKeepsWatch'
        <3> DEFINE tenantNow == jobOptions.tenant
                   next == job.offset + jobOptions.batch
                   held == Ids(job.page) \cup job.refused
                   less == job.watched \ ids
        <3>1. /\ job.phase = "page" => WatchedIn(chunks, job.watched, tenantNow, job.offset, {})
              /\ job.phase \in {"embed", "store", "save"} => WatchedIn(chunks, job.watched, tenantNow, next, held)
              /\ job.phase \in {"clear", "done"} => GivenIn(chunks, job.watched)
              /\ job.phase \in {"page", "embed", "save"} => job.refused = {}
            BY DEF ReindexInv, JobKeepsWatch
        <3> HIDE DEF tenantNow, next, held
        <3>2. /\ job.phase = "page" => WatchedIn(t, less, tenantNow, job.offset, {})
              /\ job.phase \in {"embed", "store", "save"} => WatchedIn(t, less, tenantNow, next, held)
              /\ job.phase \in {"clear", "done"} => GivenIn(t, less)
            BY <2>2, <3>1
        <3>3. chunks' = t /\ jobOptions' = jobOptions
            BY <1>4 DEF OthersWrite
        <3>4. job'.watched = less
            BY <1>7
        <3> HIDE DEF less
        <3> QED BY <1>7, <3>1, <3>2, <3>3, <3>4 DEF JobKeepsWatch, tenantNow, next, held
    <2> QED BY <1>8, <1>13, <1>14, <2>3, <2>4, <2>5 DEF ReindexInv
<1> QED BY <1>6, <1>15, <1>16

LEMMA OthersRemoveInv == ASSUME ReindexInv, OthersRemove PROVE ReindexInv'
<1>1. PICK id \in Ids(chunks) :
         /\ chunks' = DropRow(chunks, id)
         /\ intent' = [intent EXCEPT ![id] = Absent]
         /\ raced' = IF id \in Ids(job.page) THEN raced \cup {id} ELSE raced
    BY DEF OthersRemove
<1>2. chunks \in Seq(ReindexRow) /\ Unique(chunks) /\ job.page \in Seq(ReindexRow) /\ ReindexTypes
    BY RunsFacts DEF ReindexInv, ReindexTypes
<1>3. PICK t \in Seq(ReindexRow) :
         /\ chunks' = t /\ Unique(t)
         /\ \A n \in DOMAIN t : \E i \in DOMAIN chunks : t[n] = chunks[i] /\ chunks[i].id # id
         /\ \A i \in DOMAIN chunks : chunks[i].id # id => \E n \in DOMAIN t : t[n] = chunks[i]
    BY <1>1, <1>2, DropRowFacts
<1>4. id \in ReindexId
    BY <1>2, ReindexRowFacts DEF Ids
<1>5. DOMAIN intent' = ReindexId /\ intent'[id] = Absent
      /\ \A other \in ReindexId : other # id => intent'[other] = intent[other]
    BY <1>1, <1>4 DEF ReindexInv, ReindexTypes
<1>6. /\ job' \in Runs /\ job'.page = job.page /\ job'.phase = job.phase /\ job'.offset = job.offset
      /\ job'.refused = job.refused /\ job'.watched = {}
      /\ offsetFile' \in Offsets /\ offsetFile'.watched = {}
    <2>1. job.watched \ ReindexId = {} /\ offsetFile.watched \ ReindexId = {}
        BY <1>2 DEF ReindexTypes, Runs, Offsets
    <2>2. Unwatch(ReindexId)
        BY DEF OthersRemove
    <2> QED BY <1>2, <2>1, <2>2, UnwatchFacts
<1>7. ReindexTypes'
    BY <1>3, <1>5, <1>6 DEF ReindexTypes, ReindexInv, OthersRemove
<1>8. ASSUME NEW other \in ReindexId, other # id
      PROVE  /\ other \in Ids(t) <=> other \in Ids(chunks)
             /\ other \in Ids(chunks) => RowOf(t, other) = RowOf(chunks, other)
    <2>1. other \in Ids(t) => other \in Ids(chunks)
        BY <1>3 DEF Ids
    <2>2. ASSUME other \in Ids(chunks) PROVE other \in Ids(t) /\ RowOf(t, other) = RowOf(chunks, other)
        <3>1. PICK i \in DOMAIN chunks : chunks[i].id = other /\ RowOf(chunks, other) = chunks[i]
            BY <1>2, <2>2, RowOfFacts
        <3>2. PICK n \in DOMAIN t : t[n] = chunks[i]
            BY <1>3, <1>8, <3>1
        <3> QED BY <1>3, <3>1, <3>2, RowOfFacts
    <2> QED BY <2>1, <2>2
<1>9. id \notin Ids(t)
    BY <1>3 DEF Ids
<1>10. raced \subseteq raced' /\ (id \in Ids(job.page) => id \in raced')
    BY <1>1
<1>11. ReindexUndoesOnlyItsPage'
    <2> SUFFICES ASSUME NEW other \in ReindexId \ raced'
                 PROVE  IF other \in Ids(t) THEN RowOf(t, other).text = intent'[other] ELSE intent'[other] = Absent
        BY <1>3 DEF ReindexUndoesOnlyItsPage
    <2>1. CASE other = id
        BY <1>5, <1>9, <2>1
    <2>2. CASE other # id
        BY <1>5, <1>8, <1>10, <2>2 DEF ReindexInv, ReindexUndoesOnlyItsPage
    <2> QED BY <2>1, <2>2
<1>12. PageAsLeft'
    <2> SUFFICES ASSUME NEW j \in DOMAIN job.page, job.page[j].id \notin raced'
                 PROVE  job.page[j].id \in Ids(t) /\ job.page[j].text = intent'[job.page[j].id]
        BY <1>3, <1>6 DEF PageAsLeft
    <2>1. job.page[j].id \in ReindexId /\ job.page[j].id # id
        BY <1>2, <1>10, ReindexRowFacts DEF Ids
    <2>2. job.page[j].id \in Ids(chunks) /\ job.page[j].text = intent[job.page[j].id]
        BY <1>10 DEF ReindexInv, PageAsLeft
    <2> QED BY <1>5, <1>8, <2>1, <2>2
<1> QED BY <1>6, <1>7, <1>11, <1>12, NothingWatched
        DEF ReindexInv, PageInTable, JobKeepsWatch, FileKeepsWatch

(***************************************************************************)
(* Wherever a re-embedding stands, is stopped or resumed, and whatever     *)
(* others write and delete meanwhile: each chunk it still owes the new     *)
(* model comes after the offset, is in the job's hands or has it, for the  *)
(* run and for the checkpoint file (reindex_embeddings, reindex.rs).       *)
(***************************************************************************)
THEOREM ReindexInvariant == ReindexSpec => []ReindexInv
<1>1. ReindexInv /\ [ReindexNext]_reindexVars => ReindexInv'
    <2> SUFFICES ASSUME ReindexInv, [ReindexNext]_reindexVars PROVE ReindexInv'
        OBVIOUS
    <2>1. CASE StartReindex
        BY <2>1, StartReindexInv
    <2>2. CASE ReadPage
        BY <2>2, ReadPageInv
    <2>3. CASE EmbedPage
        BY <2>3, EmbedPageInv
    <2>4. CASE StorePage
        BY <2>4, StorePageInv
    <2>5. CASE SaveOffset
        BY <2>5, SaveOffsetInv
    <2>6. CASE ClearOffset
        <3>1. GivenIn(chunks, job.watched)
            BY <2>6 DEF ReindexInv, JobKeepsWatch, ClearOffset
        <3> QED BY <2>6, <3>1, HaltInv DEF ClearOffset
    <2>7. CASE StopReindex
        BY <2>7, HaltInv DEF StopReindex
    <2>8. CASE OthersWrite
        BY <2>8, OthersWriteInv
    <2>9. CASE OthersRemove
        BY <2>9, OthersRemoveInv
    <2>10. CASE UNCHANGED reindexVars
        BY <2>10 DEF reindexVars, ReindexInv, ReindexTypes, PageAsLeft, ReindexUndoesOnlyItsPage, PageInTable,
                     JobKeepsWatch, FileKeepsWatch
    <2> QED BY <2>1, <2>2, <2>3, <2>4, <2>5, <2>6, <2>7, <2>8, <2>9, <2>10 DEF ReindexNext, ReindexStep
<1> QED BY <1>1, ReindexInitInv, PTL DEF ReindexSpec

(***************************************************************************)
(* The job undoes the changes others made to the page in its hands at      *)
(* most: every other chunk stays as they left it.                          *)
(***************************************************************************)
THEOREM ReindexUndoesNoMore == ReindexSpec => []ReindexUndoesOnlyItsPage
<1>1. ReindexInv => ReindexUndoesOnlyItsPage
    BY DEF ReindexInv
<1> QED BY <1>1, ReindexInvariant, PTL

(***************************************************************************)
(* A job that ends well, however often it was resumed and whatever was     *)
(* written next to it, has given the new model to every chunk it found     *)
(* that nobody touched and the provider took.                              *)
(***************************************************************************)
THEOREM ReindexGivesTheModel == ReindexSpec => []ReindexComplete
<1>1. ReindexInv => ReindexComplete
    <2> SUFFICES ASSUME ReindexInv, job.phase = "done", NEW id \in job.watched
                 PROVE  RowOf(chunks, id).model = TargetModel
        BY DEF ReindexComplete
    <2>1. PICK i \in DOMAIN chunks : chunks[i].id = id /\ chunks[i].model = TargetModel
        BY DEF ReindexInv, JobKeepsWatch, GivenIn
    <2>2. RowOf(chunks, id) = chunks[i]
        BY <2>1, RowOfFacts DEF ReindexInv, ReindexTypes
    <2> QED BY <2>1, <2>2
<1> QED BY <1>1, ReindexInvariant, PTL

-----------------------------------------------------------------------------
(* Migration.                                                              *)

\* The first stages of a transaction as one function.
DocumentPrefix(f, docs, given, m) ==
    f = [n \in 0..m |-> IF n = 0 THEN docs ELSE UpsertDocument(f[n - 1], given[n])]
IngestPrefix(f, t, records, m) ==
    f = [n \in 0..m |-> IF n = 0 THEN t ELSE IngestRecord(f[n - 1], records[n])]

LEMMA DocumentStagesAre ==
    ASSUME NEW docs, NEW given, Len(given) \in Nat
    PROVE  LET stage == DocumentStages(docs, given)
           IN  /\ stage[0] = docs
               /\ \A n \in 1..Len(given) : stage[n] = UpsertDocument(stage[n - 1], given[n])
<1> DEFINE G == {m \in Nat : \E f : DocumentPrefix(f, docs, given, m)}
<1>1. 0 \in G
    <2> DEFINE f == [n \in 0..0 |-> docs]
    <2>1. DocumentPrefix(f, docs, given, 0)
        BY DEF DocumentPrefix
    <2> QED BY <2>1
<1>2. ASSUME NEW m \in Nat, m \in G PROVE m + 1 \in G
    <2>1. PICK f : DocumentPrefix(f, docs, given, m)
        BY <1>2
    <2> DEFINE g == [n \in 0..(m + 1) |-> IF n = 0 THEN docs ELSE UpsertDocument(f[n - 1], given[n])]
    <2>2. \A n \in 0..m : f[n] = IF n = 0 THEN docs ELSE UpsertDocument(f[n - 1], given[n])
        BY <2>1 DEF DocumentPrefix
    <2>3. \A n \in 0..(m + 1) : g[n] = IF n = 0 THEN docs ELSE UpsertDocument(f[n - 1], given[n])
        OBVIOUS
    <2>4. \A n \in 0..m : n \in 0..(m + 1)
        OBVIOUS
    <2>5. \A n \in 0..m : g[n] = f[n]
        BY <2>2, <2>3, <2>4
    <2>6. \A n \in 0..(m + 1) : n # 0 => n - 1 \in 0..m
        OBVIOUS
    <2>7. \A n \in 0..(m + 1) : n # 0 => g[n - 1] = f[n - 1]
        BY <2>5, <2>6
    <2>8. g = [n \in 0..(m + 1) |-> IF n = 0 THEN docs ELSE UpsertDocument(g[n - 1], given[n])]
        BY <2>3, <2>7
    <2> HIDE DEF g
    <2>9. DocumentPrefix(g, docs, given, m + 1)
        BY <2>8 DEF DocumentPrefix
    <2> QED BY <2>9
<1> HIDE DEF G
<1>3. \A m \in Nat : m \in G
    BY <1>1, <1>2, EveryNatural
<1>4. \E f : DocumentPrefix(f, docs, given, Len(given))
    BY <1>3 DEF G
<1> DEFINE stage == DocumentStages(docs, given)
<1>5. stage = CHOOSE f : DocumentPrefix(f, docs, given, Len(given))
    BY DEF DocumentStages, DocumentPrefix
<1>6. DocumentPrefix(stage, docs, given, Len(given))
    BY <1>4, <1>5
<1>7. (\A n \in 1..Len(given) : n \in 0..Len(given) /\ n # 0) /\ 0 \in 0..Len(given)
    OBVIOUS
<1> HIDE DEF stage
<1>8. \A n \in 0..Len(given) : stage[n] = IF n = 0 THEN docs ELSE UpsertDocument(stage[n - 1], given[n])
    BY <1>6 DEF DocumentPrefix
<1> QED BY <1>7, <1>8 DEF stage

LEMMA IngestStagesAre ==
    ASSUME NEW t, NEW records, Len(records) \in Nat
    PROVE  LET stage == IngestStages(t, records)
           IN  /\ stage[0] = t
               /\ \A n \in 1..Len(records) : stage[n] = IngestRecord(stage[n - 1], records[n])
<1> DEFINE G == {m \in Nat : \E f : IngestPrefix(f, t, records, m)}
<1>1. 0 \in G
    <2> DEFINE f == [n \in 0..0 |-> t]
    <2>1. IngestPrefix(f, t, records, 0)
        BY DEF IngestPrefix
    <2> QED BY <2>1
<1>2. ASSUME NEW m \in Nat, m \in G PROVE m + 1 \in G
    <2>1. PICK f : IngestPrefix(f, t, records, m)
        BY <1>2
    <2> DEFINE g == [n \in 0..(m + 1) |-> IF n = 0 THEN t ELSE IngestRecord(f[n - 1], records[n])]
    <2>2. \A n \in 0..m : f[n] = IF n = 0 THEN t ELSE IngestRecord(f[n - 1], records[n])
        BY <2>1 DEF IngestPrefix
    <2>3. \A n \in 0..(m + 1) : g[n] = IF n = 0 THEN t ELSE IngestRecord(f[n - 1], records[n])
        OBVIOUS
    <2>4. \A n \in 0..m : n \in 0..(m + 1)
        OBVIOUS
    <2>5. \A n \in 0..m : g[n] = f[n]
        BY <2>2, <2>3, <2>4
    <2>6. \A n \in 0..(m + 1) : n # 0 => n - 1 \in 0..m
        OBVIOUS
    <2>7. \A n \in 0..(m + 1) : n # 0 => g[n - 1] = f[n - 1]
        BY <2>5, <2>6
    <2>8. g = [n \in 0..(m + 1) |-> IF n = 0 THEN t ELSE IngestRecord(g[n - 1], records[n])]
        BY <2>3, <2>7
    <2> HIDE DEF g
    <2>9. IngestPrefix(g, t, records, m + 1)
        BY <2>8 DEF IngestPrefix
    <2> QED BY <2>9
<1> HIDE DEF G
<1>3. \A m \in Nat : m \in G
    BY <1>1, <1>2, EveryNatural
<1>4. \E f : IngestPrefix(f, t, records, Len(records))
    BY <1>3 DEF G
<1> DEFINE stage == IngestStages(t, records)
<1>5. stage = CHOOSE f : IngestPrefix(f, t, records, Len(records))
    BY DEF IngestStages, IngestPrefix
<1>6. IngestPrefix(stage, t, records, Len(records))
    BY <1>4, <1>5
<1>7. (\A n \in 1..Len(records) : n \in 0..Len(records) /\ n # 0) /\ 0 \in 0..Len(records)
    OBVIOUS
<1> HIDE DEF stage
<1>8. \A n \in 0..Len(records) : stage[n] = IF n = 0 THEN t ELSE IngestRecord(stage[n - 1], records[n])
    BY <1>6 DEF IngestPrefix
<1> QED BY <1>7, <1>8 DEF stage

\* The last of the first positions, one more or less.
LEMMA LastBefore ==
    ASSUME NEW records, NEW n \in Nat, NEW i \in 1..n, NEW id, IsLast(i, About(records, n + 1, id))
    PROVE  IsLast(i, About(records, n, id)) /\ records[n + 1].id # id
<1>1. i \in About(records, n + 1, id) /\ \A j \in About(records, n + 1, id) : j <= i
    BY DEF IsLast
<1>2. n + 1 \in 1..(n + 1) /\ ~(n + 1 <= i) /\ \A j \in 1..n : j \in 1..(n + 1)
    OBVIOUS
<1>3. n + 1 \notin About(records, n + 1, id)
    BY <1>1, <1>2
<1>4. \A j \in About(records, n, id) : j \in About(records, n + 1, id)
    BY <1>2 DEF About
<1>5. i \in About(records, n, id)
    BY <1>1 DEF About
<1> QED BY <1>1, <1>2, <1>3, <1>4, <1>5 DEF IsLast, About

LEMMA LastSourcedBefore ==
    ASSUME NEW records, NEW n \in Nat, NEW i \in 1..n, NEW doc_id, IsLast(i, Sourced(records, n + 1, doc_id))
    PROVE  /\ IsLast(i, Sourced(records, n, doc_id))
           /\ records[n + 1].doc # doc_id \/ records[n + 1].src = NoSource
<1>1. i \in Sourced(records, n + 1, doc_id) /\ \A j \in Sourced(records, n + 1, doc_id) : j <= i
    BY DEF IsLast
<1>2. n + 1 \in 1..(n + 1) /\ ~(n + 1 <= i) /\ \A j \in 1..n : j \in 1..(n + 1)
    OBVIOUS
<1>3. n + 1 \notin Sourced(records, n + 1, doc_id)
    BY <1>1, <1>2
<1>4. \A j \in Sourced(records, n, doc_id) : j \in Sourced(records, n + 1, doc_id)
    BY <1>2 DEF Sourced
<1>5. i \in Sourced(records, n, doc_id)
    BY <1>1 DEF Sourced
<1> QED BY <1>1, <1>2, <1>3, <1>4, <1>5 DEF IsLast, Sourced

\* What the destination owes to the documents and the first records of an export.
Migrated(t, given, records, n) ==
    /\ ChunksGiven(t, records, n) /\ MetadataGiven(t, given, Len(given)) /\ SourcesGiven(t, records, n)
    /\ OwnSourcesGiven(t, given, Len(given), records, n) /\ NoOrphans(t)

\* A record changes its document's source only if it names one.
LEMMA RecordIngested ==
    ASSUME NEW t, NEW given, NEW records, NEW n \in Nat, Migrated(t, given, records, n)
    PROVE  Migrated(IngestRecord(t, records[n + 1]), given, records, n + 1)
<1>1. PICK r : r = records[n + 1]
    OBVIOUS
<1>2. PICK new : new = IngestRecord(t, r)
    OBVIOUS
<1>3. new.docs = TouchDocument(t.docs, r) /\ new.chunks = Override(t.chunks, r.id, ChunkOf(r))
    BY <1>2 DEF IngestRecord
<1>4. /\ DOMAIN new.docs = DOMAIN t.docs \cup {r.doc}
      /\ r.src # NoSource => new.docs[r.doc].src = r.src
      /\ \A d \in DOMAIN t.docs :
            /\ new.docs[d].meta = t.docs[d].meta
            /\ r.doc # d \/ r.src = NoSource => new.docs[d].src = t.docs[d].src
    <2>1. PICK docs, touched, key, value :
             /\ docs = t.docs /\ touched = new.docs /\ key = r.doc
             /\ value = [src |-> SourceOver(docs, key, r.src),
                         meta |-> IF key \in DOMAIN docs THEN docs[key].meta ELSE "{}"]
        OBVIOUS
    <2>2. touched = Override(docs, key, value)
        BY <1>3, <2>1 DEF TouchDocument
    <2>3. /\ DOMAIN touched = DOMAIN docs \cup {key} /\ touched[key] = value
          /\ \A k \in DOMAIN docs : k # key => touched[k] = docs[k]
        BY <2>2 DEF Override
    <2>4. value.src = SourceOver(docs, key, r.src) /\ (key \in DOMAIN docs => value.meta = docs[key].meta)
        BY <2>1
    <2>5. /\ r.src # NoSource => value.src = r.src
          /\ key \in DOMAIN docs /\ r.src = NoSource => value.src = docs[key].src
        BY <2>4 DEF SourceOver
    <2>6. /\ DOMAIN touched = DOMAIN docs \cup {key}
          /\ r.src # NoSource => touched[key].src = r.src
          /\ \A d \in DOMAIN docs :
                /\ touched[d].meta = docs[d].meta
                /\ key # d \/ r.src = NoSource => touched[d].src = docs[d].src
        BY <2>3, <2>4, <2>5
    <2> QED BY <2>1, <2>6
<1>5. /\ DOMAIN new.chunks = DOMAIN t.chunks \cup {r.id} /\ new.chunks[r.id] = ChunkOf(r)
      /\ \A k \in DOMAIN t.chunks : k # r.id => new.chunks[k] = t.chunks[k]
    <2>1. PICK f, over, key, value : f = t.chunks /\ over = new.chunks /\ key = r.id /\ value = ChunkOf(r)
        OBVIOUS
    <2>2. over = Override(f, key, value)
        BY <1>3, <2>1
    <2>3. /\ DOMAIN over = DOMAIN f \cup {key} /\ over[key] = value
          /\ \A k \in DOMAIN f : k # key => over[k] = f[k]
        BY <2>2 DEF Override
    <2> QED BY <2>1, <2>3
<1>6. \A i \in 1..(n + 1) : i = n + 1 \/ i \in 1..n
    OBVIOUS
<1>7. ChunksGiven(new, records, n + 1)
    <2> SUFFICES ASSUME NEW i \in 1..(n + 1), IsLast(i, About(records, n + 1, records[i].id))
                 PROVE  records[i].id \in DOMAIN new.chunks /\ new.chunks[records[i].id] = ChunkOf(records[i])
        BY DEF ChunksGiven
    <2>1. CASE i = n + 1
        BY <1>1, <1>5, <2>1
    <2>2. CASE i \in 1..n
        <3>1. IsLast(i, About(records, n, records[i].id)) /\ r.id # records[i].id
            BY <1>1, <2>2, LastBefore
        <3>2. records[i].id \in DOMAIN t.chunks /\ t.chunks[records[i].id] = ChunkOf(records[i])
            BY <2>2, <3>1 DEF Migrated, ChunksGiven
        <3> QED BY <1>5, <3>1, <3>2
    <2> QED BY <1>6, <2>1, <2>2
<1>8. MetadataGiven(new, given, Len(given))
    BY <1>4 DEF Migrated, MetadataGiven
<1>9. SourcesGiven(new, records, n + 1)
    <2> SUFFICES ASSUME NEW i \in 1..(n + 1), IsLast(i, Sourced(records, n + 1, records[i].doc))
                 PROVE  records[i].doc \in DOMAIN new.docs /\ new.docs[records[i].doc].src = records[i].src
        BY DEF SourcesGiven
    <2>1. CASE i = n + 1
        <3>1. records[i].src # NoSource
            BY DEF IsLast, Sourced
        <3> QED BY <1>1, <1>4, <2>1, <3>1
    <2>2. CASE i \in 1..n
        <3>1. /\ IsLast(i, Sourced(records, n, records[i].doc))
              /\ r.doc # records[i].doc \/ r.src = NoSource
            BY <1>1, <2>2, LastSourcedBefore
        <3>2. records[i].doc \in DOMAIN t.docs /\ t.docs[records[i].doc].src = records[i].src
            BY <2>2, <3>1 DEF Migrated, SourcesGiven
        <3> QED BY <1>4, <3>1, <3>2
    <2> QED BY <1>6, <2>1, <2>2
<1>10. OwnSourcesGiven(new, given, Len(given), records, n + 1)
    <2> SUFFICES ASSUME NEW i \in 1..Len(given),
                        IsLast(i, {j \in About(given, Len(given), given[i].id) : given[j].src # NoSource}),
                        Sourced(records, n + 1, given[i].id) = {}
                 PROVE  new.docs[given[i].id].src = given[i].src
        BY DEF OwnSourcesGiven
    <2>1. n + 1 \in 1..(n + 1) /\ \A j \in 1..n : j \in 1..(n + 1)
        OBVIOUS
    <2>2. Sourced(records, n, given[i].id) = {} /\ (r.doc # given[i].id \/ r.src = NoSource)
        BY <1>1, <2>1 DEF Sourced
    <2>3. t.docs[given[i].id].src = given[i].src /\ given[i].id \in DOMAIN t.docs
        BY <2>2 DEF Migrated, OwnSourcesGiven, MetadataGiven
    <2> QED BY <1>4, <2>2, <2>3
<1>11. NoOrphans(new)
    <2> SUFFICES ASSUME NEW id \in DOMAIN new.chunks PROVE new.chunks[id].doc \in DOMAIN new.docs
        BY DEF NoOrphans
    <2>1. CASE id = r.id
        BY <1>4, <1>5, <2>1 DEF ChunkOf
    <2>2. CASE id # r.id
        BY <1>4, <1>5, <2>2 DEF Migrated, NoOrphans
    <2> QED BY <2>1, <2>2
<1> QED BY <1>1, <1>2, <1>7, <1>8, <1>9, <1>10, <1>11 DEF Migrated

\* A document upserted after others.
LEMMA DocumentUpserted ==
    ASSUME NEW t, NEW given, NEW m \in Nat, NEW records, MetadataGiven(t, given, m),
           OwnSourcesGiven(t, given, m, records, 0), NoOrphans(t), NEW new, new.chunks = t.chunks,
           new.docs = UpsertDocument(t.docs, given[m + 1])
    PROVE  /\ MetadataGiven(new, given, m + 1) /\ OwnSourcesGiven(new, given, m + 1, records, 0)
           /\ NoOrphans(new)
<1>1. PICK d : d = given[m + 1]
    OBVIOUS
<1>2. /\ DOMAIN new.docs = DOMAIN t.docs \cup {d.id}
      /\ new.docs[d.id].meta = d.meta /\ new.docs[d.id].src = SourceOver(t.docs, d.id, d.src)
      /\ \A k \in DOMAIN t.docs : k # d.id => new.docs[k] = t.docs[k]
    <2>1. PICK f, over, key, value :
             /\ f = t.docs /\ over = new.docs /\ key = d.id
             /\ value = [src |-> SourceOver(t.docs, d.id, d.src), meta |-> d.meta]
        OBVIOUS
    <2>2. over = Override(f, key, value)
        BY <1>1, <2>1 DEF UpsertDocument
    <2>3. /\ DOMAIN over = DOMAIN f \cup {key} /\ over[key] = value
          /\ \A k \in DOMAIN f : k # key => over[k] = f[k]
        BY <2>2 DEF Override
    <2> QED BY <2>1, <2>3
<1>3. \A i \in 1..(m + 1) : i = m + 1 \/ i \in 1..m
    OBVIOUS
<1>4. MetadataGiven(new, given, m + 1)
    <2> SUFFICES ASSUME NEW i \in 1..(m + 1)
                 PROVE  /\ given[i].id \in DOMAIN new.docs
                        /\ IsLast(i, About(given, m + 1, given[i].id))
                              => new.docs[given[i].id].meta = given[i].meta
        BY DEF MetadataGiven
    <2>1. CASE i = m + 1
        BY <1>1, <1>2, <2>1
    <2>2. CASE i \in 1..m
        <3>1. given[i].id \in DOMAIN new.docs
            BY <1>2, <2>2 DEF MetadataGiven
        <3>2. ASSUME IsLast(i, About(given, m + 1, given[i].id))
              PROVE  new.docs[given[i].id].meta = given[i].meta
            <4>1. IsLast(i, About(given, m, given[i].id)) /\ d.id # given[i].id
                BY <1>1, <2>2, <3>2, LastBefore
            <4> QED BY <1>2, <2>2, <4>1 DEF MetadataGiven
        <3> QED BY <3>1, <3>2
    <2> QED BY <1>3, <2>1, <2>2
<1>5. OwnSourcesGiven(new, given, m + 1, records, 0)
    <2> SUFFICES ASSUME NEW i \in 1..(m + 1),
                        IsLast(i, {j \in About(given, m + 1, given[i].id) : given[j].src # NoSource})
                 PROVE  new.docs[given[i].id].src = given[i].src
        BY DEF OwnSourcesGiven
    <2> DEFINE named(k) == {j \in About(given, k, given[i].id) : given[j].src # NoSource}
    <2>1. i \in named(m + 1) /\ \A j \in named(m + 1) : j <= i
        BY DEF IsLast
    <2>2. CASE i = m + 1
        <3>1. d.src # NoSource
            BY <1>1, <2>1, <2>2
        <3> QED BY <1>1, <1>2, <2>2, <3>1 DEF SourceOver
    <2>3. CASE i \in 1..m
        <3>1. m + 1 \in 1..(m + 1) /\ ~(m + 1 <= i) /\ \A j \in 1..m : j \in 1..(m + 1)
            BY <2>3
        <3>2. d.id # given[i].id \/ d.src = NoSource
            BY <1>1, <2>1, <3>1 DEF About
        <3>3. IsLast(i, named(m))
            BY <2>1, <2>3, <3>1 DEF IsLast, About
        <3>4. Sourced(records, 0, given[i].id) = {}
            BY DEF Sourced
        <3>5. t.docs[given[i].id].src = given[i].src /\ given[i].id \in DOMAIN t.docs
            BY <2>3, <3>3, <3>4 DEF OwnSourcesGiven, MetadataGiven
        <3> QED BY <1>2, <3>2, <3>5 DEF SourceOver
    <2> QED BY <1>3, <2>2, <2>3
<1>6. NoOrphans(new)
    BY <1>2 DEF NoOrphans
<1> QED BY <1>4, <1>5, <1>6

\* Of an export's documents there is a last one.
LEMMA ExportIsListed ==
    ASSUME NEW e \in Exports
    PROVE  Len(e.chunks) \in Nat /\ Len(DocumentsOf(e)) \in Nat
<1>1. /\ e.chunks \in Seq({e.chunks[i] : i \in DOMAIN e.chunks})
      /\ e.documents \in Seq({e.documents[i] : i \in DOMAIN e.documents})
    BY MigrationAssumption DEF IsList
<1>2. Len(e.chunks) \in Nat /\ Len(e.documents) \in Nat
    BY <1>1
<1>3. CASE e.kind # "sqlite"
    <2> DEFINE S == {e.chunks[i] : i \in DOMAIN e.chunks}
               firsts == {i \in DOMAIN e.chunks : \A j \in 1..(i - 1) : e.chunks[j].doc # e.chunks[i].doc}
    <2>1. firsts \in SUBSET DOMAIN e.chunks /\ e.chunks \in Seq(S)
        BY <1>1
    <2> HIDE DEF S, firsts
    <2>2. SelectAt(e.chunks, firsts) \in Seq(S)
        BY <2>1, SelectAtFacts
    <2>3. PICK described : described = FirstOfDoc(e.chunks)
        OBVIOUS
    <2>4. described \in Seq(S)
        BY <2>2, <2>3 DEF FirstOfDoc, firsts
    <2>5. DOMAIN described = 1..Len(described) /\ Len(described) \in Nat
        BY <2>4
    <2>6. DocumentsOf(e) = [i \in 1..Len(described) |-> DocumentOf(described[i])]
        BY <1>3, <2>3, <2>5 DEF DocumentsOf
    <2> QED BY <1>2, <2>5, <2>6
<1> QED BY <1>2, <1>3 DEF DocumentsOf

MigrationInv ==
    /\ DOMAIN migration = {"phase", "at"} /\ DOMAIN destination = {"docs", "chunks"} /\ NoOrphans(destination)
    /\ migration.phase \in {"documents", "chunks", "done"} => export \in Exports
    /\ migration.phase = "documents" => migration.at = 0
    /\ migration.phase \in {"chunks", "done"} =>
          /\ migration.at \in 0..Len(export.chunks)
          /\ Migrated(destination, DocumentsOf(export), export.chunks, migration.at)
    /\ migration.phase = "done" => migration.at = Len(export.chunks)

LEMMA MigrationInvInit == MigrationInit => MigrationInv
BY DEF MigrationInit, MigrationInv, Nothing, NoOrphans

LEMMA DocumentsKeep ==
    ASSUME MigrationInv, UpsertDocuments
    PROVE  MigrationInv'
<1>1. PICK given, records : given = DocumentsOf(export) /\ records = export.chunks
    OBVIOUS
<1>2. PICK L \in Nat : L = Len(given)
    BY <1>1, ExportIsListed DEF MigrationInv, UpsertDocuments
<1>3. PICK docs, stage : docs = destination.docs /\ stage = DocumentStages(docs, given)
    OBVIOUS
<1>4. stage[0] = docs /\ \A n \in 1..L : stage[n] = UpsertDocument(stage[n - 1], given[n])
    BY <1>2, <1>3, DocumentStagesAre
<1>5. DOMAIN destination = {"docs", "chunks"} /\ NoOrphans(destination)
    BY DEF MigrationInv
<1> DEFINE At(m) == [destination EXCEPT !.docs = stage[m]]
           Kept(m) == /\ MetadataGiven(At(m), given, m) /\ OwnSourcesGiven(At(m), given, m, records, 0)
                      /\ NoOrphans(At(m))
           G == {m \in Nat : m <= L => Kept(m)}
<1>6. \A m : At(m).docs = stage[m] /\ At(m).chunks = destination.chunks
    BY <1>5
<1>7. 0 \in G
    <2>1. At(0).docs = destination.docs /\ At(0).chunks = destination.chunks
        BY <1>3, <1>4, <1>6
    <2> HIDE DEF At
    <2> QED BY <1>5, <2>1 DEF MetadataGiven, OwnSourcesGiven, NoOrphans
<1>8. ASSUME NEW m \in Nat, m \in G PROVE m + 1 \in G
    <2> SUFFICES ASSUME m + 1 <= L PROVE Kept(m + 1)
        OBVIOUS
    <2>1. m <= L /\ m + 1 \in 1..L /\ (m + 1) - 1 = m
        BY <1>2
    <2>2. Kept(m)
        BY <1>8, <2>1
    <2>3. At(m + 1).docs = UpsertDocument(At(m).docs, given[m + 1]) /\ At(m + 1).chunks = At(m).chunks
        BY <1>4, <1>6, <2>1
    <2> HIDE DEF At
    <2> QED BY <2>2, <2>3, DocumentUpserted
<1> HIDE DEF G
<1>9. L \in G
    BY <1>2, <1>7, <1>8, EveryNatural
<1>10. Kept(L)
    BY <1>2, <1>9 DEF G
<1>11. PICK new : new = At(L)
    OBVIOUS
<1>12. destination' = new /\ export' = export /\ migration' = [migration EXCEPT !.phase = "chunks"]
    BY <1>1, <1>2, <1>3, <1>11 DEF UpsertDocuments
<1>13. DOMAIN new = {"docs", "chunks"}
    BY <1>5, <1>11
<1>14. MetadataGiven(new, given, L) /\ OwnSourcesGiven(new, given, L, records, 0) /\ NoOrphans(new)
    BY <1>10, <1>11
<1> HIDE DEF At, Kept
<1>15. ChunksGiven(new, records, 0) /\ SourcesGiven(new, records, 0)
    BY DEF ChunksGiven, SourcesGiven
<1>16. Migrated(new, given, records, 0)
    BY <1>2, <1>14, <1>15 DEF Migrated
<1>17. migration.phase = "documents" /\ migration.at = 0 /\ export \in Exports /\ DOMAIN migration = {"phase", "at"}
    BY DEF MigrationInv, UpsertDocuments
<1>18. migration'.phase = "chunks" /\ migration'.at = 0 /\ DOMAIN migration' = {"phase", "at"}
    BY <1>12, <1>17
<1>19. 0 \in 0..Len(export.chunks)
    BY <1>17, ExportIsListed
<1> QED BY <1>1, <1>12, <1>13, <1>14, <1>16, <1>17, <1>18, <1>19 DEF MigrationInv

LEMMA PartOfSequence ==
    ASSUME NEW S, NEW s \in Seq(S), NEW low \in 0..Len(s), NEW high \in 0..Len(s), low < high
    PROVE  /\ Len(SubSeq(s, low + 1, high)) = high - low
           /\ \A n \in 1..(high - low) : SubSeq(s, low + 1, high)[n] = s[low + n]
<1>1. Len(s) \in Nat /\ low \in Nat /\ high \in Nat /\ high <= Len(s)
    OBVIOUS
<1>2. Len(SubSeq(s, low + 1, high)) = high - low
    BY <1>1
<1>3. ASSUME NEW n \in 1..(high - low) PROVE SubSeq(s, low + 1, high)[n] = s[low + n]
    <2>1. n \in Nat /\ (low + 1) + n - 1 = low + n /\ low + 1 <= high
        BY <1>1
    <2> QED BY <1>1, <2>1
<1> QED BY <1>2, <1>3

LEMMA BatchKeeps ==
    ASSUME MigrationInv, MigrateBatch
    PROVE  MigrationInv'
<1>0. /\ migration.phase = "chunks" /\ export \in Exports /\ DOMAIN migration = {"phase", "at"}
      /\ DOMAIN destination = {"docs", "chunks"}
    BY DEF MigrationInv, MigrateBatch
<1>1. CASE ~Valid(NextChunks)
    <2>1. destination' = destination /\ export' = export /\ migration' = [migration EXCEPT !.phase = "stopped"]
        BY <1>1 DEF MigrateBatch
    <2>2. migration'.phase = "stopped" /\ DOMAIN migration' = {"phase", "at"}
        BY <1>0, <2>1
    <2> QED BY <2>1, <2>2 DEF MigrationInv
<1>2. CASE Valid(NextChunks)
    <2>1. PICK given, records : given = DocumentsOf(export) /\ records = export.chunks
        OBVIOUS
    <2>2. PICK total \in Nat : total = Len(records)
        BY <1>0, <2>1, ExportIsListed
    <2>3. PICK from \in 0..total : from = migration.at
        BY <1>0, <2>1, <2>2 DEF MigrationInv
    <2>4. Migrated(destination, given, records, from) /\ from < total
        BY <1>0, <2>1, <2>2, <2>3 DEF MigrationInv, MigrateBatch
    <2>5. PICK to \in 0..total : to = (IF from + MigrationBatch <= total THEN from + MigrationBatch ELSE total)
                                 /\ from < to
        BY <2>2, <2>3, <2>4, MigrationAssumption
    <2>6. PICK batch : batch = SubSeq(records, from + 1, to)
        OBVIOUS
    <2>7. NextChunks = batch
        BY <2>1, <2>2, <2>3, <2>5, <2>6 DEF NextChunks
    <2>8. PICK L \in Nat : L = Len(batch) /\ L = to - from /\ \A n \in 1..L : batch[n] = records[from + n]
        <3>1. \E S : records \in Seq(S)
            BY <1>0, <2>1, MigrationAssumption DEF IsList
        <3>2. PICK S : records \in Seq(S)
            BY <3>1
        <3>3. Len(batch) = to - from /\ \A n \in 1..(to - from) : batch[n] = records[from + n]
            BY <2>2, <2>5, <2>6, <3>2, PartOfSequence
        <3> QED BY <2>5, <3>3
    <2>9. PICK t, stage : t = destination /\ stage = IngestStages(t, batch)
        OBVIOUS
    <2>10. stage[0] = t /\ \A n \in 1..L : stage[n] = IngestRecord(stage[n - 1], batch[n])
        <3>1. Len(batch) \in Nat
            BY <2>8
        <3>2. stage[0] = t /\ \A n \in 1..Len(batch) : stage[n] = IngestRecord(stage[n - 1], batch[n])
            BY <2>9, <3>1, IngestStagesAre
        <3> QED BY <2>8, <3>2
    <2> DEFINE Good(n) == Migrated(stage[n], given, records, from + n) /\ DOMAIN stage[n] = {"docs", "chunks"}
               G == {n \in Nat : n <= L => Good(n)}
    <2>11. 0 \in G
        <3>1. from + 0 = from
            OBVIOUS
        <3> QED BY <1>0, <2>4, <2>9, <2>10, <3>1
    <2>12. ASSUME NEW n \in Nat, n \in G PROVE n + 1 \in G
        <3> SUFFICES ASSUME n + 1 <= L PROVE Good(n + 1)
            OBVIOUS
        <3>1. n <= L /\ n + 1 \in 1..L /\ (n + 1) - 1 = n /\ from + (n + 1) = (from + n) + 1 /\ from + n \in Nat
            BY <2>8
        <3>2. Migrated(stage[n], given, records, from + n)
            BY <2>12, <3>1
        <3>3. stage[n + 1] = IngestRecord(stage[n], records[(from + n) + 1])
            BY <2>8, <2>10, <3>1
        <3>4. DOMAIN stage[n + 1] = {"docs", "chunks"}
            BY <3>3 DEF IngestRecord
        <3> QED BY <3>1, <3>2, <3>3, <3>4, RecordIngested
    <2> HIDE DEF G
    <2>13. L \in G
        BY <2>8, <2>11, <2>12, EveryNatural
    <2>14. PICK new : new = stage[L]
        OBVIOUS
    <2>15. Migrated(new, given, records, to) /\ DOMAIN new = {"docs", "chunks"}
        <3>1. from + L = to
            BY <2>8
        <3> QED BY <2>8, <2>13, <2>14, <3>1 DEF G
    <2>16. destination' = new /\ export' = export /\ migration' = [migration EXCEPT !.at = from + L]
        BY <1>2, <2>3, <2>7, <2>8, <2>9, <2>14 DEF MigrateBatch
    <2>17. migration'.phase = "chunks" /\ migration'.at = to /\ DOMAIN migration' = {"phase", "at"}
        BY <1>0, <2>8, <2>16
    <2>18. NoOrphans(new)
        BY <2>15 DEF Migrated
    <2> QED BY <1>0, <2>1, <2>2, <2>15, <2>16, <2>17, <2>18 DEF MigrationInv
<1> QED BY <1>1, <1>2

LEMMA MigrationInvStep ==
    ASSUME MigrationInv, [MigrationNext]_migrationVars
    PROVE  MigrationInv'
<1>1. CASE StartMigration
    <2>1. export' \in Exports /\ migration' = [phase |-> "documents", at |-> 0] /\ destination' = destination
        BY <1>1 DEF StartMigration
    <2> QED BY <2>1 DEF MigrationInv
<1>2. CASE UpsertDocuments
    BY <1>2, DocumentsKeep
<1>3. CASE MigrateBatch
    BY <1>3, BatchKeeps
<1>4. CASE EndMigration
    <2>1. /\ migration' = [migration EXCEPT !.phase = "done"] /\ destination' = destination /\ export' = export
          /\ migration.phase = "chunks" /\ migration.at = Len(export.chunks)
        BY <1>4 DEF EndMigration
    <2>2. migration'.phase = "done" /\ migration'.at = migration.at /\ DOMAIN migration' = {"phase", "at"}
        BY <2>1 DEF MigrationInv
    <2> QED BY <2>1, <2>2 DEF MigrationInv
<1>5. CASE MigrationKilled
    <2>1. migration' = [migration EXCEPT !.phase = "stopped"] /\ destination' = destination /\ export' = export
        BY <1>5 DEF MigrationKilled
    <2>2. migration'.phase = "stopped" /\ DOMAIN migration' = {"phase", "at"}
        BY <2>1 DEF MigrationInv
    <2> QED BY <2>1, <2>2 DEF MigrationInv
<1>6. CASE UNCHANGED migrationVars
    BY <1>6 DEF MigrationInv, migrationVars
<1> QED BY <1>1, <1>2, <1>3, <1>4, <1>5, <1>6 DEF MigrationNext

(***************************************************************************)
(* Whatever exports were tried before and wherever a run failed or was     *)
(* killed, the batches of migrate.rs leave the destination, at every commit, as *)
(* the documents and the records so far would have it.                     *)
(***************************************************************************)
THEOREM MigrationInvariant == MigrationSpec => []MigrationInv
BY MigrationInvInit, MigrationInvStep, PTL DEF MigrationSpec

(***************************************************************************)
(* MigratedAsExported: a migration that ends well has carried the whole    *)
(* export over, of any size and in batches of any size (migrate.rs).       *)
(***************************************************************************)
THEOREM MigrationsCarryAll == MigrationSpec => []MigratedAsExported
<1>1. MigrationInv => MigratedAsExported
    BY DEF MigrationInv, Migrated, MigratedAsExported
<1> QED BY <1>1, MigrationInvariant, PTL

-----------------------------------------------------------------------------
(* A document in segments: what each turn of the three ways to cut leaves  *)
(* behind it is covered, up to where the next one starts.                  *)

\* The offsets of the first characters.
OffsetPrefix(f, t, m) ==
    f = [i \in 0..m |-> IF i = 0 THEN 0 ELSE f[i - 1] + t[i].w]

LEMMA OffsetsAre ==
    ASSUME NEW t, Len(t) \in Nat
    PROVE  /\ OffsetOf(t)[0] = 0
           /\ \A i \in 1..Len(t) : OffsetOf(t)[i] = OffsetOf(t)[i - 1] + t[i].w
<1> DEFINE G == {m \in Nat : \E f : OffsetPrefix(f, t, m)}
<1>1. 0 \in G
    <2> DEFINE f == [i \in 0..0 |-> 0]
    <2>1. OffsetPrefix(f, t, 0)
        BY DEF OffsetPrefix
    <2> QED BY <2>1
<1>2. ASSUME NEW m \in Nat, m \in G PROVE m + 1 \in G
    <2>1. PICK f : OffsetPrefix(f, t, m)
        BY <1>2
    <2> DEFINE g == [i \in 0..(m + 1) |-> IF i = 0 THEN 0 ELSE f[i - 1] + t[i].w]
    <2>2. \A i \in 0..m : f[i] = IF i = 0 THEN 0 ELSE f[i - 1] + t[i].w
        BY <2>1 DEF OffsetPrefix
    <2>3. \A i \in 0..(m + 1) : g[i] = IF i = 0 THEN 0 ELSE f[i - 1] + t[i].w
        OBVIOUS
    <2>4. \A i \in 0..m : i \in 0..(m + 1)
        OBVIOUS
    <2>5. \A i \in 0..m : g[i] = f[i]
        BY <2>2, <2>3, <2>4
    <2>6. \A i \in 0..(m + 1) : i # 0 => i - 1 \in 0..m
        OBVIOUS
    <2>7. \A i \in 0..(m + 1) : i # 0 => g[i - 1] = f[i - 1]
        BY <2>5, <2>6
    <2>8. g = [i \in 0..(m + 1) |-> IF i = 0 THEN 0 ELSE g[i - 1] + t[i].w]
        BY <2>3, <2>7
    <2> HIDE DEF g
    <2>9. OffsetPrefix(g, t, m + 1)
        BY <2>8 DEF OffsetPrefix
    <2> QED BY <2>9
<1> HIDE DEF G
<1>3. Len(t) \in G
    BY <1>1, <1>2, EveryNatural
<1> DEFINE turn == OffsetOf(t)
<1>4. \E f : OffsetPrefix(f, t, Len(t))
    BY <1>3 DEF G
<1>5. turn = CHOOSE f : OffsetPrefix(f, t, Len(t))
    BY DEF OffsetOf, OffsetPrefix
<1>6. OffsetPrefix(turn, t, Len(t))
    BY <1>4, <1>5
<1>7. 0 \in 0..(Len(t)) /\ \A i \in 1..(Len(t)) : i \in 0..(Len(t)) /\ i # 0
    OBVIOUS
<1> HIDE DEF turn
<1>8. \A i \in 0..(Len(t)) : turn[i] = IF i = 0 THEN 0 ELSE turn[i - 1] + t[i].w
    BY <1>6 DEF OffsetPrefix
<1>9. turn[0] = 0 /\ \A i \in 1..(Len(t)) : turn[i] = turn[i - 1] + t[i].w
    BY <1>7, <1>8
<1> QED BY <1>9 DEF turn

\* The first turns of chunk_fixed().
FixedPrefix(f, bounds, from, stop, max, overlap, m) ==
    f = [n \in 0..m |-> IF n = 0 THEN [start |-> from, segs |-> <<>>] ELSE NextTurn(bounds, stop, max, overlap, f[n - 1])]

LEMMA FixedTurnsAre ==
    ASSUME NEW bounds, NEW from, NEW stop, NEW max, NEW overlap, stop - from \in Nat
    PROVE  /\ FixedTurns(bounds, from, stop, max, overlap)[0] = [start |-> from, segs |-> <<>>]
           /\ \A n \in 1..stop - from : FixedTurns(bounds, from, stop, max, overlap)[n] = NextTurn(bounds, stop, max, overlap, FixedTurns(bounds, from, stop, max, overlap)[n - 1])
<1> DEFINE G == {m \in Nat : \E f : FixedPrefix(f, bounds, from, stop, max, overlap, m)}
<1>1. 0 \in G
    <2> DEFINE f == [n \in 0..0 |-> [start |-> from, segs |-> <<>>]]
    <2>1. FixedPrefix(f, bounds, from, stop, max, overlap, 0)
        BY DEF FixedPrefix
    <2> QED BY <2>1
<1>2. ASSUME NEW m \in Nat, m \in G PROVE m + 1 \in G
    <2>1. PICK f : FixedPrefix(f, bounds, from, stop, max, overlap, m)
        BY <1>2
    <2> DEFINE g == [n \in 0..(m + 1) |-> IF n = 0 THEN [start |-> from, segs |-> <<>>] ELSE NextTurn(bounds, stop, max, overlap, f[n - 1])]
    <2>2. \A n \in 0..m : f[n] = IF n = 0 THEN [start |-> from, segs |-> <<>>] ELSE NextTurn(bounds, stop, max, overlap, f[n - 1])
        BY <2>1 DEF FixedPrefix
    <2>3. \A n \in 0..(m + 1) : g[n] = IF n = 0 THEN [start |-> from, segs |-> <<>>] ELSE NextTurn(bounds, stop, max, overlap, f[n - 1])
        OBVIOUS
    <2>4. \A n \in 0..m : n \in 0..(m + 1)
        OBVIOUS
    <2>5. \A n \in 0..m : g[n] = f[n]
        BY <2>2, <2>3, <2>4
    <2>6. \A n \in 0..(m + 1) : n # 0 => n - 1 \in 0..m
        OBVIOUS
    <2>7. \A n \in 0..(m + 1) : n # 0 => g[n - 1] = f[n - 1]
        BY <2>5, <2>6
    <2>8. g = [n \in 0..(m + 1) |-> IF n = 0 THEN [start |-> from, segs |-> <<>>] ELSE NextTurn(bounds, stop, max, overlap, g[n - 1])]
        BY <2>3, <2>7
    <2> HIDE DEF g
    <2>9. FixedPrefix(g, bounds, from, stop, max, overlap, m + 1)
        BY <2>8 DEF FixedPrefix
    <2> QED BY <2>9
<1> HIDE DEF G
<1>3. stop - from \in G
    BY <1>1, <1>2, EveryNatural
<1> DEFINE turn == FixedTurns(bounds, from, stop, max, overlap)
<1>4. \E f : FixedPrefix(f, bounds, from, stop, max, overlap, stop - from)
    BY <1>3 DEF G
<1>5. turn = CHOOSE f : FixedPrefix(f, bounds, from, stop, max, overlap, stop - from)
    BY DEF FixedTurns, FixedPrefix
<1>6. FixedPrefix(turn, bounds, from, stop, max, overlap, stop - from)
    BY <1>4, <1>5
<1>7. 0 \in 0..(stop - from) /\ \A n \in 1..(stop - from) : n \in 0..(stop - from) /\ n # 0
    OBVIOUS
<1> HIDE DEF turn
<1>8. \A n \in 0..(stop - from) : turn[n] = IF n = 0 THEN [start |-> from, segs |-> <<>>] ELSE NextTurn(bounds, stop, max, overlap, turn[n - 1])
    BY <1>6 DEF FixedPrefix
<1>9. turn[0] = [start |-> from, segs |-> <<>>] /\ \A n \in 1..(stop - from) : turn[n] = NextTurn(bounds, stop, max, overlap, turn[n - 1])
    BY <1>7, <1>8
<1> QED BY <1>9 DEF turn

\* The first sections.
HeadingPrefix(f, t, maxChars, overlapChars, m) ==
    f = [i \in 0..m |-> IF i = 0 THEN <<>> ELSE f[i - 1] \o Section(t, i, maxChars, overlapChars)]

LEMMA HeadingTurnsAre ==
    ASSUME NEW t, NEW maxChars, NEW overlapChars, Cardinality(SectionStarts(t)) \in Nat
    PROVE  /\ HeadingTurns(t, maxChars, overlapChars)[0] = <<>>
           /\ \A i \in 1..Cardinality(SectionStarts(t)) : HeadingTurns(t, maxChars, overlapChars)[i] = HeadingTurns(t, maxChars, overlapChars)[i - 1] \o Section(t, i, maxChars, overlapChars)
<1> DEFINE G == {m \in Nat : \E f : HeadingPrefix(f, t, maxChars, overlapChars, m)}
<1>1. 0 \in G
    <2> DEFINE f == [i \in 0..0 |-> <<>>]
    <2>1. HeadingPrefix(f, t, maxChars, overlapChars, 0)
        BY DEF HeadingPrefix
    <2> QED BY <2>1
<1>2. ASSUME NEW m \in Nat, m \in G PROVE m + 1 \in G
    <2>1. PICK f : HeadingPrefix(f, t, maxChars, overlapChars, m)
        BY <1>2
    <2> DEFINE g == [i \in 0..(m + 1) |-> IF i = 0 THEN <<>> ELSE f[i - 1] \o Section(t, i, maxChars, overlapChars)]
    <2>2. \A i \in 0..m : f[i] = IF i = 0 THEN <<>> ELSE f[i - 1] \o Section(t, i, maxChars, overlapChars)
        BY <2>1 DEF HeadingPrefix
    <2>3. \A i \in 0..(m + 1) : g[i] = IF i = 0 THEN <<>> ELSE f[i - 1] \o Section(t, i, maxChars, overlapChars)
        OBVIOUS
    <2>4. \A i \in 0..m : i \in 0..(m + 1)
        OBVIOUS
    <2>5. \A i \in 0..m : g[i] = f[i]
        BY <2>2, <2>3, <2>4
    <2>6. \A i \in 0..(m + 1) : i # 0 => i - 1 \in 0..m
        OBVIOUS
    <2>7. \A i \in 0..(m + 1) : i # 0 => g[i - 1] = f[i - 1]
        BY <2>5, <2>6
    <2>8. g = [i \in 0..(m + 1) |-> IF i = 0 THEN <<>> ELSE g[i - 1] \o Section(t, i, maxChars, overlapChars)]
        BY <2>3, <2>7
    <2> HIDE DEF g
    <2>9. HeadingPrefix(g, t, maxChars, overlapChars, m + 1)
        BY <2>8 DEF HeadingPrefix
    <2> QED BY <2>9
<1> HIDE DEF G
<1>3. Cardinality(SectionStarts(t)) \in G
    BY <1>1, <1>2, EveryNatural
<1> DEFINE turn == HeadingTurns(t, maxChars, overlapChars)
<1>4. \E f : HeadingPrefix(f, t, maxChars, overlapChars, Cardinality(SectionStarts(t)))
    BY <1>3 DEF G
<1>5. turn = CHOOSE f : HeadingPrefix(f, t, maxChars, overlapChars, Cardinality(SectionStarts(t)))
    BY DEF HeadingTurns, HeadingPrefix
<1>6. HeadingPrefix(turn, t, maxChars, overlapChars, Cardinality(SectionStarts(t)))
    BY <1>4, <1>5
<1>7. 0 \in 0..(Cardinality(SectionStarts(t))) /\ \A i \in 1..(Cardinality(SectionStarts(t))) : i \in 0..(Cardinality(SectionStarts(t))) /\ i # 0
    OBVIOUS
<1> HIDE DEF turn
<1>8. \A i \in 0..(Cardinality(SectionStarts(t))) : turn[i] = IF i = 0 THEN <<>> ELSE turn[i - 1] \o Section(t, i, maxChars, overlapChars)
    BY <1>6 DEF HeadingPrefix
<1>9. turn[0] = <<>> /\ \A i \in 1..(Cardinality(SectionStarts(t))) : turn[i] = turn[i - 1] \o Section(t, i, maxChars, overlapChars)
    BY <1>7, <1>8
<1> QED BY <1>9 DEF turn

\* The first sentences.
SemanticPrefix(f, t, max, m) ==
    f = [n \in 0..m |-> IF n = 0 THEN <<>> ELSE Joined(f[n - 1], Sentences(t)[n], max)]

LEMMA SemanticTurnsAre ==
    ASSUME NEW t, NEW max, Len(Sentences(t)) \in Nat
    PROVE  /\ SemanticTurns(t, max)[0] = <<>>
           /\ \A n \in 1..Len(Sentences(t)) : SemanticTurns(t, max)[n] = Joined(SemanticTurns(t, max)[n - 1], Sentences(t)[n], max)
<1> DEFINE G == {m \in Nat : \E f : SemanticPrefix(f, t, max, m)}
<1>1. 0 \in G
    <2> DEFINE f == [n \in 0..0 |-> <<>>]
    <2>1. SemanticPrefix(f, t, max, 0)
        BY DEF SemanticPrefix
    <2> QED BY <2>1
<1>2. ASSUME NEW m \in Nat, m \in G PROVE m + 1 \in G
    <2>1. PICK f : SemanticPrefix(f, t, max, m)
        BY <1>2
    <2> DEFINE g == [n \in 0..(m + 1) |-> IF n = 0 THEN <<>> ELSE Joined(f[n - 1], Sentences(t)[n], max)]
    <2>2. \A n \in 0..m : f[n] = IF n = 0 THEN <<>> ELSE Joined(f[n - 1], Sentences(t)[n], max)
        BY <2>1 DEF SemanticPrefix
    <2>3. \A n \in 0..(m + 1) : g[n] = IF n = 0 THEN <<>> ELSE Joined(f[n - 1], Sentences(t)[n], max)
        OBVIOUS
    <2>4. \A n \in 0..m : n \in 0..(m + 1)
        OBVIOUS
    <2>5. \A n \in 0..m : g[n] = f[n]
        BY <2>2, <2>3, <2>4
    <2>6. \A n \in 0..(m + 1) : n # 0 => n - 1 \in 0..m
        OBVIOUS
    <2>7. \A n \in 0..(m + 1) : n # 0 => g[n - 1] = f[n - 1]
        BY <2>5, <2>6
    <2>8. g = [n \in 0..(m + 1) |-> IF n = 0 THEN <<>> ELSE Joined(g[n - 1], Sentences(t)[n], max)]
        BY <2>3, <2>7
    <2> HIDE DEF g
    <2>9. SemanticPrefix(g, t, max, m + 1)
        BY <2>8 DEF SemanticPrefix
    <2> QED BY <2>9
<1> HIDE DEF G
<1>3. Len(Sentences(t)) \in G
    BY <1>1, <1>2, EveryNatural
<1> DEFINE turn == SemanticTurns(t, max)
<1>4. \E f : SemanticPrefix(f, t, max, Len(Sentences(t)))
    BY <1>3 DEF G
<1>5. turn = CHOOSE f : SemanticPrefix(f, t, max, Len(Sentences(t)))
    BY DEF SemanticTurns, SemanticPrefix
<1>6. SemanticPrefix(turn, t, max, Len(Sentences(t)))
    BY <1>4, <1>5
<1>7. 0 \in 0..(Len(Sentences(t))) /\ \A n \in 1..(Len(Sentences(t))) : n \in 0..(Len(Sentences(t))) /\ n # 0
    OBVIOUS
<1> HIDE DEF turn
<1>8. \A n \in 0..(Len(Sentences(t))) : turn[n] = IF n = 0 THEN <<>> ELSE Joined(turn[n - 1], Sentences(t)[n], max)
    BY <1>6 DEF SemanticPrefix
<1>9. turn[0] = <<>> /\ \A n \in 1..(Len(Sentences(t))) : turn[n] = Joined(turn[n - 1], Sentences(t)[n], max)
    BY <1>7, <1>8
<1> QED BY <1>9 DEF turn

-----------------------------------------------------------------------------
(* Offsets of characters.                                                  *)

\* A character that is wider than a segment may be.
Wide(t, max) == \E i \in DOMAIN t : t[i].w > max

LEMMA OffsetFacts ==
    ASSUME NEW t \in Seq(Character)
    PROVE  /\ Len(t) \in Nat /\ DOMAIN t = 1..Len(t)
           /\ OffsetOf(t)[0] = 0
           /\ \A i \in 0..Len(t) : OffsetOf(t)[i] \in Nat
           /\ \A i \in 1..Len(t) : t[i].w \in Nat \ {0} /\ OffsetOf(t)[i] = OffsetOf(t)[i - 1] + t[i].w
           /\ \A i, j \in 0..Len(t) : i < j => OffsetOf(t)[i] < OffsetOf(t)[j]
<1> DEFINE L == Len(t)
           o == OffsetOf(t)
<1>1. L \in Nat /\ DOMAIN t = 1..L
    OBVIOUS
<1>2. \A i \in 1..L : t[i].w \in Nat \ {0}
    <2>1. \A i \in 1..L : t[i] \in Character
        BY <1>1
    <2> QED BY <2>1 DEF Character
<1>3. o[0] = 0 /\ \A i \in 1..L : o[i] = o[i - 1] + t[i].w
    BY <1>1, OffsetsAre
<1> HIDE DEF o, L
<1> DEFINE N == {i \in Nat : i <= L => o[i] \in Nat}
<1>4. 0 \in N
    BY <1>1, <1>3
<1>5. ASSUME NEW i \in Nat, i \in N PROVE i + 1 \in N
    <2> SUFFICES ASSUME i + 1 <= L PROVE o[i + 1] \in Nat
        OBVIOUS
    <2>1. i + 1 \in 1..L /\ (i + 1) - 1 = i /\ i <= L
        BY <1>1
    <2>2. o[i + 1] = o[i] + t[i + 1].w
        BY <1>3, <2>1
    <2>3. t[i + 1].w \in Nat
        BY <1>2, <2>1
    <2>4. o[i] \in Nat
        BY <1>5, <2>1
    <2> QED BY <2>2, <2>3, <2>4
<1> HIDE DEF N
<1>6. \A i \in Nat : i \in N
    BY <1>4, <1>5, EveryNatural
<1>7. \A i \in 0..L : o[i] \in Nat
    BY <1>1, <1>6 DEF N
<1> DEFINE M == {j \in Nat : j <= L => \A i \in 0..L : i < j => o[i] < o[j]}
<1>8. 0 \in M
    BY <1>1
<1>9. ASSUME NEW j \in Nat, j \in M PROVE j + 1 \in M
    <2> SUFFICES ASSUME j + 1 <= L, NEW i \in 0..L, i < j + 1 PROVE o[i] < o[j + 1]
        OBVIOUS
    <2>1. j + 1 \in 1..L /\ (j + 1) - 1 = j /\ j <= L /\ j \in 0..L
        BY <1>1
    <2>2. o[j + 1] = o[j] + t[j + 1].w /\ t[j + 1].w \in Nat \ {0}
        BY <1>2, <1>3, <2>1
    <2>3. o[j] \in Nat /\ o[i] \in Nat
        BY <1>7, <2>1
    <2>4. i = j \/ i < j
        BY <1>1
    <2>5. i < j => o[i] < o[j]
        BY <1>9, <2>1
    <2>6. o[j] < o[j + 1] /\ o[j + 1] \in Nat
        BY <2>2, <2>3
    <2> QED BY <2>3, <2>4, <2>5, <2>6
<1> HIDE DEF M
<1>10. \A j \in Nat : j \in M
    BY <1>8, <1>9, EveryNatural
<1>11. \A i, j \in 0..L : i < j => o[i] < o[j]
    BY <1>1, <1>10 DEF M
<1> QED BY <1>1, <1>2, <1>3, <1>7, <1>11 DEF o, L

LEMMA BoundaryFacts ==
    ASSUME NEW t \in Seq(Character)
    PROVE  /\ Bytes(t) \in Nat /\ Boundaries(t) \subseteq 0..Bytes(t)
           /\ 0 \in Boundaries(t) /\ Bytes(t) \in Boundaries(t)
<1> DEFINE L == Len(t)
           o == OffsetOf(t)
<1>1. /\ L \in Nat /\ o[0] = 0 /\ \A i \in 0..L : o[i] \in Nat
      /\ \A i, j \in 0..L : i < j => o[i] < o[j]
    BY OffsetFacts
<1> HIDE DEF o, L
<1>2. 0 \in 0..L /\ L \in 0..L
    BY <1>1
<1>3. ASSUME NEW i \in 0..L PROVE o[i] \in 0..o[L]
    <2>1. i = L \/ i < L
        BY <1>1
    <2>2. o[i] \in Nat /\ o[L] \in Nat /\ o[i] <= o[L]
        BY <1>1, <1>2, <2>1
    <2> QED BY <2>2
<1>4. Bytes(t) = o[L] /\ Boundaries(t) = {o[i] : i \in 0..L}
    BY DEF Bytes, Boundaries, o, L
<1> QED BY <1>1, <1>2, <1>3, <1>4

\* Between two characters' ends there is a character, or a wide one.
LEMMA NextBoundary ==
    ASSUME NEW t \in Seq(Character), NEW start \in Boundaries(t), NEW stop \in Boundaries(t),
           start < stop, NEW max \in Nat,
           \A b \in Boundaries(t) : ~(start < b /\ b <= start + max /\ b <= stop)
    PROVE  Wide(t, max)
<1> DEFINE L == Len(t)
           o == OffsetOf(t)
<1>1. /\ L \in Nat /\ DOMAIN t = 1..L /\ \A i \in 0..L : o[i] \in Nat
      /\ \A i \in 1..L : t[i].w \in Nat \ {0} /\ o[i] = o[i - 1] + t[i].w
      /\ \A i, j \in 0..L : i < j => o[i] < o[j]
    BY OffsetFacts
<1>2. Boundaries(t) = {o[i] : i \in 0..L}
    BY DEF Boundaries
<1> HIDE DEF o, L
<1>3. PICK k \in 0..L : start = o[k]
    BY <1>2
<1>4. PICK j \in 0..L : stop = o[j]
    BY <1>2
<1>5. k < j
    <2> SUFFICES ASSUME ~(k < j) PROVE FALSE
        OBVIOUS
    <2>1. j = k \/ j < k
        BY <1>1
    <2>2. stop = start \/ stop < start
        BY <1>1, <1>3, <1>4, <2>1
    <2>3. stop \in Nat /\ start \in Nat
        BY <1>1, <1>3, <1>4
    <2> QED BY <2>2, <2>3
<1>6. k + 1 \in 1..L /\ k + 1 \in 0..L /\ (k + 1) - 1 = k /\ (k + 1 = j \/ k + 1 < j)
    BY <1>1, <1>5
<1>7. o[k + 1] = o[k] + t[k + 1].w /\ t[k + 1].w \in Nat \ {0}
    BY <1>1, <1>6
<1>8. o[k + 1] \in Boundaries(t) /\ o[k + 1] \in Nat /\ o[k] \in Nat /\ o[j] \in Nat
    BY <1>1, <1>2, <1>6
<1>9. o[k + 1] <= stop
    BY <1>1, <1>4, <1>6, <1>8
<1>10. start < o[k + 1]
    BY <1>3, <1>7, <1>8
<1>11. ~(o[k + 1] <= start + max)
    BY <1>8, <1>9, <1>10
<1>12. t[k + 1].w > max
    BY <1>3, <1>7, <1>8, <1>11
<1>13. k + 1 \in DOMAIN t
    BY <1>1, <1>6
<1> QED BY <1>12, <1>13 DEF Wide

-----------------------------------------------------------------------------
(* Fixed segments.                                                         *)

AnySegment == [start : Nat, end : Nat]

LEMMA SegmentFacts ==
    ASSUME NEW start \in Nat, NEW end \in Nat
    PROVE  /\ Segment(start, end) \in AnySegment
           /\ Segment(start, end).start = start /\ Segment(start, end).end = end
BY DEF Segment, AnySegment

\* Every position after `from' and up to `to' is in a segment.
Covers(segs, from, to) ==
    \A x \in Nat : from < x /\ x <= to => \E n \in DOMAIN segs : segs[n].start < x /\ x <= segs[n].end

\* A segment that splits no character, and its length.
Whole(t, seg) == seg \in AnySegment /\ seg.start \in Boundaries(t) /\ seg.end \in Boundaries(t)
Short(t, max, seg) == seg.end - seg.start <= max \/ Wide(t, max)

Cut(t, max, segs) ==
    /\ segs \in Seq(AnySegment)
    /\ \A n \in DOMAIN segs : Whole(t, segs[n]) /\ Short(t, max, segs[n])

LEMMA FixedEndFacts ==
    ASSUME NEW t \in Seq(Character), NEW start \in Boundaries(t), NEW stop \in Boundaries(t),
           start < stop, NEW max \in Nat
    PROVE  /\ FixedEnd(Boundaries(t), start, stop, max) \in Boundaries(t)
           /\ start < FixedEnd(Boundaries(t), start, stop, max)
           /\ FixedEnd(Boundaries(t), start, stop, max) <= stop
           /\ FixedEnd(Boundaries(t), start, stop, max) - start <= max \/ Wide(t, max)
<1> DEFINE B == Boundaries(t)
           fits == {b \in B : start < b /\ b <= start + max /\ b <= stop}
<1>1. Bytes(t) \in Nat /\ B \subseteq 0..Bytes(t)
    BY BoundaryFacts
<1>2. start \in Nat /\ stop \in Nat
    BY <1>1
<1>3. CASE fits = {}
    <2>1. FixedEnd(B, start, stop, max) = stop
        BY <1>3 DEF FixedEnd
    <2>2. \A b \in B : ~(start < b /\ b <= start + max /\ b <= stop)
        BY <1>3
    <2>3. Wide(t, max)
        BY <2>2, NextBoundary
    <2> QED BY <1>2, <2>1, <2>3
<1>4. CASE fits # {}
    <2>1. FixedEnd(B, start, stop, max) = Max(fits)
        BY <1>4 DEF FixedEnd
    <2>2. fits \subseteq 0..Bytes(t)
        BY <1>1
    <2> HIDE DEF fits
    <2>3. Max(fits) \in fits
        BY <1>1, <1>4, <2>2, GreatestNatural
    <2>4. /\ Max(fits) \in B /\ start < Max(fits) /\ Max(fits) <= start + max /\ Max(fits) <= stop
        BY <2>3 DEF fits
    <2>5. Max(fits) \in Nat
        BY <1>1, <2>4
    <2> QED BY <1>2, <2>1, <2>4, <2>5
<1> QED BY <1>3, <1>4

LEMMA NextStartFacts ==
    ASSUME NEW t \in Seq(Character), NEW start \in Boundaries(t), NEW end \in Boundaries(t),
           start < end, NEW overlap \in Nat
    PROVE  /\ NextStart(Boundaries(t), start, end, overlap) \in Boundaries(t)
           /\ start < NextStart(Boundaries(t), start, end, overlap)
           /\ NextStart(Boundaries(t), start, end, overlap) <= end
<1> DEFINE B == Boundaries(t)
           back == {b \in B : start < b /\ b + overlap <= end}
<1>1. Bytes(t) \in Nat /\ B \subseteq 0..Bytes(t)
    BY BoundaryFacts
<1>2. end \in Nat
    BY <1>1
<1>3. CASE back = {}
    <2>1. NextStart(B, start, end, overlap) = end
        BY <1>3 DEF NextStart
    <2> QED BY <1>2, <2>1
<1>4. CASE back # {}
    <2>1. NextStart(B, start, end, overlap) = Max(back)
        BY <1>4 DEF NextStart
    <2>2. back \subseteq 0..Bytes(t)
        BY <1>1
    <2> HIDE DEF back
    <2>3. Max(back) \in back
        BY <1>1, <1>4, <2>2, GreatestNatural
    <2>4. Max(back) \in B /\ start < Max(back) /\ Max(back) + overlap <= end
        BY <2>3 DEF back
    <2>5. Max(back) \in Nat
        BY <1>1, <2>4
    <2>6. Max(back) <= end
        BY <1>2, <2>4, <2>5
    <2> QED BY <2>1, <2>4, <2>6
<1> QED BY <1>3, <1>4

\* What is cut before the start of the next segment.
CutSoFar(t, from, stop, max, cut) ==
    /\ Cut(t, max, cut.segs) /\ Covers(cut.segs, from, cut.start)
    /\ cut.start \in Boundaries(t) /\ from <= cut.start /\ cut.start <= stop

LEMMA TurnedFacts ==
    ASSUME NEW t \in Seq(Character), NEW from \in Boundaries(t), NEW stop \in Boundaries(t),
           NEW max \in Nat, NEW overlap \in Nat,
           NEW cut, CutSoFar(t, from, stop, max, cut), cut.start # stop
    PROVE  /\ CutSoFar(t, from, stop, max, Turned(Boundaries(t), stop, max, overlap, cut))
           /\ cut.start < Turned(Boundaries(t), stop, max, overlap, cut).start
<1> DEFINE B == Boundaries(t)
           end == FixedEnd(B, cut.start, stop, max)
           next == IF end = stop THEN stop ELSE NextStart(B, cut.start, end, overlap)
           s == Segment(cut.start, end)
           new == Turned(B, stop, max, overlap, cut)
<1>1. Bytes(t) \in Nat /\ B \subseteq 0..Bytes(t)
    BY BoundaryFacts
<1>2. /\ Cut(t, max, cut.segs) /\ Covers(cut.segs, from, cut.start)
      /\ cut.start \in B /\ from <= cut.start /\ cut.start <= stop
    BY DEF CutSoFar
<1>3. cut.start \in Nat /\ stop \in Nat /\ from \in Nat
    BY <1>1, <1>2
<1>4. cut.start < stop
    BY <1>2, <1>3
<1>5. end \in B /\ cut.start < end /\ end <= stop /\ (end - cut.start <= max \/ Wide(t, max))
    BY <1>2, <1>4, FixedEndFacts
<1>6. new.start = next /\ new.segs = Append(cut.segs, s)
    BY DEF Turned
<1> HIDE DEF end, new
<1>7. next \in B /\ cut.start < next /\ next <= end
    <2>1. CASE end = stop
        BY <1>3, <1>4, <1>5, <2>1
    <2>2. CASE end # stop
        BY <1>2, <1>5, <2>2, NextStartFacts
    <2> QED BY <2>1, <2>2
<1> HIDE DEF next
<1>8. end \in Nat /\ next \in Nat
    BY <1>1, <1>5, <1>7
<1>9. s \in AnySegment /\ s.start = cut.start /\ s.end = end
    BY <1>3, <1>8, SegmentFacts
<1> HIDE DEF s
<1>10. cut.segs \in Seq(AnySegment)
    BY <1>2 DEF Cut
<1>11. /\ new.segs \in Seq(AnySegment) /\ Len(cut.segs) \in Nat
       /\ DOMAIN cut.segs = 1..Len(cut.segs) /\ DOMAIN new.segs = 1..(Len(cut.segs) + 1)
       /\ \A n \in DOMAIN cut.segs : n \in DOMAIN new.segs /\ new.segs[n] = cut.segs[n]
       /\ Len(cut.segs) + 1 \in DOMAIN new.segs /\ new.segs[Len(cut.segs) + 1] = s
    BY <1>6, <1>9, <1>10
<1>12. Whole(t, s) /\ Short(t, max, s)
    BY <1>2, <1>5, <1>9 DEF Whole, Short
<1>13. ASSUME NEW n \in DOMAIN new.segs PROVE Whole(t, new.segs[n]) /\ Short(t, max, new.segs[n])
    <2>1. n \in DOMAIN cut.segs \/ n = Len(cut.segs) + 1
        BY <1>11
    <2> QED BY <1>2, <1>11, <1>12, <2>1 DEF Cut
<1>14. Cut(t, max, new.segs)
    BY <1>11, <1>13 DEF Cut
<1>15. Covers(new.segs, from, next)
    <2> SUFFICES ASSUME NEW x \in Nat, from < x, x <= next
                 PROVE  \E n \in DOMAIN new.segs : new.segs[n].start < x /\ x <= new.segs[n].end
        BY DEF Covers
    <2>1. CASE x <= cut.start
        <3>1. PICK n \in DOMAIN cut.segs : cut.segs[n].start < x /\ x <= cut.segs[n].end
            BY <1>2, <2>1 DEF Covers
        <3> QED BY <1>11, <3>1
    <2>2. CASE ~(x <= cut.start)
        <3>1. cut.start < x /\ x <= end
            BY <1>3, <1>7, <1>8, <2>2
        <3> QED BY <1>9, <1>11, <3>1
    <2> QED BY <2>1, <2>2
<1>16. from <= next /\ next <= stop
    BY <1>2, <1>3, <1>5, <1>7, <1>8
<1>17. CutSoFar(t, from, stop, max, new)
    BY <1>6, <1>7, <1>14, <1>15, <1>16 DEF CutSoFar
<1> QED BY <1>6, <1>7, <1>17 DEF new

LEMMA AtLeastOneFacts ==
    ASSUME NEW n \in Nat
    PROVE  AtLeastOne(n) \in Nat /\ 1 <= AtLeastOne(n) /\ (n = 0 \/ AtLeastOne(n) = n)
BY DEF AtLeastOne

LEMMA OverlapFacts ==
    ASSUME NEW overlap \in Nat, NEW max \in Nat, 1 <= max
    PROVE  Overlap(overlap, max) \in Nat
BY DEF Overlap

\* chunk_fixed() leaves nothing between the two positions out.
LEMMA FixedSegmentsCut ==
    ASSUME NEW t \in Seq(Character), NEW from \in Boundaries(t), NEW stop \in Boundaries(t),
           from <= stop, NEW maxChars \in Nat, NEW overlapChars \in Nat
    PROVE  /\ Cut(t, AtLeastOne(maxChars), FixedSegments(t, from, stop, maxChars, overlapChars))
           /\ Covers(FixedSegments(t, from, stop, maxChars, overlapChars), from, stop)
<1> DEFINE B == Boundaries(t)
           max == AtLeastOne(maxChars)
           overlap == Overlap(overlapChars, max)
           turn == FixedTurns(B, from, stop, max, overlap)
<1>1. Bytes(t) \in Nat /\ B \subseteq 0..Bytes(t)
    BY BoundaryFacts
<1>2. from \in Nat /\ stop \in Nat
    BY <1>1
<1>3. stop - from \in Nat
    BY <1>2
<1>4. max \in Nat /\ overlap \in Nat
    BY AtLeastOneFacts, OverlapFacts
<1>5. /\ turn[0] = [start |-> from, segs |-> <<>>]
      /\ \A n \in 1..(stop - from) : turn[n] = NextTurn(B, stop, max, overlap, turn[n - 1])
    BY <1>3, FixedTurnsAre
<1>6. FixedSegments(t, from, stop, maxChars, overlapChars) = turn[stop - from].segs
    BY DEF FixedSegments
<1> HIDE DEF max, overlap, turn
<1> DEFINE Done(n) == CutSoFar(t, from, stop, max, turn[n])
                      /\ (turn[n].start = stop \/ from + n <= turn[n].start)
           G == {n \in Nat : n <= stop - from => Done(n)}
<1>7. 0 \in G
    <2>1. turn[0].start = from /\ turn[0].segs = <<>>
        BY <1>5
    <2>2. Cut(t, max, <<>>)
        BY DEF Cut
    <2>3. Covers(<<>>, from, from)
        BY <1>2 DEF Covers
    <2>4. CutSoFar(t, from, stop, max, turn[0])
        BY <1>2, <2>1, <2>2, <2>3 DEF CutSoFar
    <2>5. from + 0 <= turn[0].start
        BY <1>2, <2>1
    <2> QED BY <2>4, <2>5
<1>8. ASSUME NEW n \in Nat, n \in G PROVE n + 1 \in G
    <2> SUFFICES ASSUME n + 1 <= stop - from PROVE Done(n + 1)
        OBVIOUS
    <2>1. n <= stop - from /\ n + 1 \in 1..(stop - from) /\ (n + 1) - 1 = n
        BY <1>3
    <2>2. Done(n)
        BY <1>8, <2>1
    <2>3. turn[n + 1] = NextTurn(B, stop, max, overlap, turn[n])
        BY <1>5, <2>1
    <2>4. CASE turn[n].start = stop
        <3>1. turn[n + 1] = turn[n]
            BY <2>3, <2>4 DEF NextTurn
        <3> QED BY <2>2, <2>4, <3>1
    <2>5. CASE turn[n].start # stop
        <3>1. turn[n + 1] = Turned(B, stop, max, overlap, turn[n])
            BY <2>3, <2>5 DEF NextTurn
        <3>2. CutSoFar(t, from, stop, max, turn[n + 1]) /\ turn[n].start < turn[n + 1].start
            BY <1>4, <2>2, <2>5, <3>1, TurnedFacts
        <3>3. turn[n].start \in B /\ turn[n + 1].start \in B
            BY <2>2, <3>2 DEF CutSoFar
        <3>4. turn[n].start \in Nat /\ turn[n + 1].start \in Nat
            BY <1>1, <3>3
        <3>5. from + n <= turn[n].start
            BY <2>2, <2>5
        <3>6. from + (n + 1) <= turn[n + 1].start
            BY <1>2, <3>2, <3>4, <3>5
        <3> QED BY <3>2, <3>6
    <2> QED BY <2>4, <2>5
<1> HIDE DEF G
<1>9. stop - from \in G
    BY <1>3, <1>7, <1>8, EveryNatural
<1>10. Done(stop - from)
    BY <1>3, <1>9 DEF G
<1>11. turn[stop - from].start \in B /\ turn[stop - from].start <= stop
    BY <1>10 DEF CutSoFar
<1>12. turn[stop - from].start = stop
    <2>1. turn[stop - from].start \in Nat
        BY <1>1, <1>11
    <2>2. turn[stop - from].start = stop \/ from + (stop - from) <= turn[stop - from].start
        BY <1>10
    <2> QED BY <1>2, <1>11, <2>1, <2>2
<1>13. Cut(t, max, turn[stop - from].segs) /\ Covers(turn[stop - from].segs, from, stop)
    BY <1>10, <1>12 DEF CutSoFar
<1> QED BY <1>6, <1>13 DEF max

-----------------------------------------------------------------------------
(* Sections.                                                               *)

\* Pieces that follow each other.
LEMMA CutsFollow ==
    ASSUME NEW t, NEW max, NEW a, NEW b, Cut(t, max, a), Cut(t, max, b),
           NEW x \in Nat, NEW y \in Nat, NEW z \in Nat, Covers(a, x, y), Covers(b, y, z)
    PROVE  Cut(t, max, a \o b) /\ Covers(a \o b, x, z)
<1> DEFINE c == a \o b
<1>1. a \in Seq(AnySegment) /\ b \in Seq(AnySegment)
    BY DEF Cut
<1>2. /\ c \in Seq(AnySegment) /\ Len(a) \in Nat /\ Len(b) \in Nat
      /\ DOMAIN a = 1..Len(a) /\ DOMAIN b = 1..Len(b) /\ DOMAIN c = 1..(Len(a) + Len(b))
      /\ \A n \in DOMAIN c : c[n] = IF n <= Len(a) THEN a[n] ELSE b[n - Len(a)]
    BY <1>1
<1> HIDE DEF c
<1>3. \A n \in DOMAIN a : n \in DOMAIN c /\ c[n] = a[n]
    BY <1>2
<1>4. ASSUME NEW n \in DOMAIN b PROVE Len(a) + n \in DOMAIN c /\ c[Len(a) + n] = b[n]
    <2>1. /\ n \in Nat /\ Len(a) + n \in 1..(Len(a) + Len(b)) /\ ~(Len(a) + n <= Len(a))
          /\ (Len(a) + n) - Len(a) = n
        BY <1>2
    <2> QED BY <1>2, <2>1
<1>5. ASSUME NEW n \in DOMAIN c
      PROVE  \/ n \in DOMAIN a /\ c[n] = a[n]
             \/ n - Len(a) \in DOMAIN b /\ c[n] = b[n - Len(a)]
    <2>1. CASE n <= Len(a)
        <3>1. n \in DOMAIN a
            BY <1>2, <2>1
        <3> QED BY <1>3, <3>1
    <2>2. CASE ~(n <= Len(a))
        <3>1. n - Len(a) \in DOMAIN b
            BY <1>2, <2>2
        <3> QED BY <1>2, <2>2, <3>1
    <2> QED BY <2>1, <2>2
<1>6. Cut(t, max, c)
    BY <1>2, <1>5 DEF Cut
<1>7. Covers(c, x, z)
    <2> SUFFICES ASSUME NEW p \in Nat, x < p, p <= z
                 PROVE  \E n \in DOMAIN c : c[n].start < p /\ p <= c[n].end
        BY DEF Covers
    <2>1. CASE p <= y
        <3>1. PICK n \in DOMAIN a : a[n].start < p /\ p <= a[n].end
            BY <2>1 DEF Covers
        <3> QED BY <1>3, <3>1
    <2>2. CASE ~(p <= y)
        <3>1. y < p
            BY <2>2
        <3>2. PICK n \in DOMAIN b : b[n].start < p /\ p <= b[n].end
            BY <3>1 DEF Covers
        <3> QED BY <1>4, <3>2
    <2> QED BY <2>1, <2>2
<1> QED BY <1>6, <1>7 DEF c

LEMMA SectionStartFacts ==
    ASSUME NEW t \in Seq(Character)
    PROVE  /\ SectionStarts(t) \subseteq Boundaries(t) /\ 0 \in SectionStarts(t)
           /\ SectionStarts(t) \subseteq Nat /\ IsFiniteSet(SectionStarts(t))
<1>1. Bytes(t) \in Nat /\ Boundaries(t) \subseteq 0..Bytes(t) /\ 0 \in Boundaries(t)
    BY BoundaryFacts
<1>2. HeadingStarts(t) \subseteq {OffsetOf(t)[i] : i \in {n \in 0..(Len(t) - 1) : n = 0 \/ t[n].c = "newline"}}
    BY DEF HeadingStarts
<1>3. Len(t) \in Nat
    OBVIOUS
<1>4. \A n \in 0..(Len(t) - 1) : n \in 0..Len(t)
    BY <1>3
<1>5. HeadingStarts(t) \subseteq Boundaries(t)
    BY <1>2, <1>4, Zenon DEF Boundaries
<1>6. SectionStarts(t) \subseteq Boundaries(t) /\ 0 \in SectionStarts(t)
    BY <1>1, <1>5 DEF SectionStarts
<1>7. SectionStarts(t) \subseteq 0..Bytes(t) /\ SectionStarts(t) \subseteq Nat
    BY <1>1, <1>6
<1>8. IsFiniteSet(0..Bytes(t))
    BY <1>1, FS_Interval
<1>9. IsFiniteSet(SectionStarts(t))
    BY <1>7, <1>8, FS_Subset
<1> QED BY <1>6, <1>7, <1>9

\* The n-th of some positions is before the next.
LEMMA NthGrows ==
    ASSUME NEW P, P \subseteq Nat, IsFiniteSet(P),
           NEW n \in 1..Cardinality(P), n + 1 \in 1..Cardinality(P)
    PROVE  Nth(P, n) < Nth(P, n + 1)
<1>1. /\ Nth(P, n) \in P /\ RankIn(P, Nth(P, n)) = n
      /\ Nth(P, n + 1) \in P /\ RankIn(P, Nth(P, n + 1)) = n + 1
    BY NthFacts
<1>2. \A i, j \in P : i < j => RankIn(P, i) < RankIn(P, j)
    BY RankFacts
<1>3. n \in Nat /\ ~(n + 1 < n) /\ n # n + 1
    BY RankFacts
<1>4. ~(Nth(P, n + 1) < Nth(P, n)) /\ Nth(P, n) # Nth(P, n + 1)
    BY <1>1, <1>2, <1>3
<1>5. Nth(P, n) \in Nat /\ Nth(P, n + 1) \in Nat
    BY <1>1
<1> QED BY <1>4, <1>5

\* The first and the last of some positions.
LEMMA NthEnds ==
    ASSUME NEW P, P \subseteq Nat, IsFiniteSet(P), NEW x \in P
    PROVE  /\ Cardinality(P) \in Nat /\ 1 <= Cardinality(P)
           /\ (\A y \in P : x <= y) => Nth(P, 1) = x
           /\ (\A y \in P : y <= x) => Nth(P, Cardinality(P)) = x
<1>1. Cardinality(P) \in Nat /\ RankIn(P, x) \in 1..Cardinality(P) /\ Nth(P, RankIn(P, x)) = x
    BY RankFacts, NthFacts
<1>2. ASSUME \A y \in P : x <= y PROVE RankIn(P, x) = 1
    <2>0. x \in Nat
        OBVIOUS
    <2>1. ASSUME NEW y \in P, y <= x PROVE y = x
        <3>1. y \in Nat /\ x <= y
            BY <1>2
        <3> QED BY <2>0, <2>1, <3>1
    <2>2. x <= x
        BY <2>0
    <2>3. {y \in P : y <= x} = {x}
        BY <2>1, <2>2
    <2> QED BY <2>3, FS_Singleton DEF RankIn
<1>3. ASSUME \A y \in P : y <= x PROVE RankIn(P, x) = Cardinality(P)
    <2>1. {y \in P : y <= x} = P
        BY <1>3
    <2> QED BY <2>1 DEF RankIn
<1> QED BY <1>1, <1>2, <1>3

LEMMA HeadingSegmentsCut ==
    ASSUME NEW t \in Seq(Character), NEW maxChars \in Nat, NEW overlapChars \in Nat
    PROVE  /\ Cut(t, AtLeastOne(maxChars), HeadingSegments(t, maxChars, overlapChars))
           /\ Covers(HeadingSegments(t, maxChars, overlapChars), 0, Bytes(t))
<1> DEFINE S == SectionStarts(t)
           C == Cardinality(S)
           B == Boundaries(t)
           max == AtLeastOne(maxChars)
           turn == HeadingTurns(t, maxChars, overlapChars)
           section(i) == Section(t, i, maxChars, overlapChars)
<1>1. S \subseteq B /\ 0 \in S /\ S \subseteq Nat /\ IsFiniteSet(S)
    BY SectionStartFacts
<1>2. Bytes(t) \in Nat /\ Bytes(t) \in B /\ B \subseteq 0..Bytes(t)
    BY BoundaryFacts
<1>3. \A y \in S : 0 <= y
    BY <1>1
<1>4. C \in Nat /\ 1 <= C /\ Nth(S, 1) = 0
    <2> HIDE DEF S
    <2> QED BY <1>1, <1>3, NthEnds
<1>5. \A i \in 1..C : Nth(S, i) \in S
    <2> HIDE DEF S
    <2> QED BY <1>1, NthFacts
<1>6. ASSUME NEW i \in 1..C
      PROVE  SectionStop(t, i) \in B /\ SectionStop(t, i) \in Nat /\ Nth(S, i) <= SectionStop(t, i)
    <2>1. CASE i < C
        <3>1. SectionStop(t, i) = Nth(S, i + 1)
            BY <2>1 DEF SectionStop
        <3>2. i + 1 \in 1..C
            BY <1>4, <2>1
        <3>3. Nth(S, i) < Nth(S, i + 1)
            <4> HIDE DEF S
            <4> QED BY <1>1, <3>2, NthGrows
        <3>4. Nth(S, i) \in S /\ Nth(S, i + 1) \in S
            BY <1>5, <3>2
        <3>5. Nth(S, i) \in Nat /\ Nth(S, i + 1) \in Nat /\ Nth(S, i + 1) \in B
            BY <1>1, <3>4
        <3> QED BY <3>1, <3>3, <3>5
    <2>2. CASE ~(i < C)
        <3>1. SectionStop(t, i) = Bytes(t)
            BY <2>2 DEF SectionStop
        <3>2. Nth(S, i) \in 0..Bytes(t)
            BY <1>1, <1>2, <1>5
        <3> QED BY <1>2, <3>1, <3>2
    <2> QED BY <2>1, <2>2
<1>7. ASSUME NEW i \in 1..C PROVE Cut(t, max, section(i)) /\ Covers(section(i), Nth(S, i), SectionStop(t, i))
    <2>1. Nth(S, i) \in B
        BY <1>1, <1>5
    <2> QED BY <1>6, <2>1, FixedSegmentsCut DEF Section
<1>8. turn[0] = <<>> /\ \A i \in 1..C : turn[i] = turn[i - 1] \o section(i)
    BY <1>4, HeadingTurnsAre
<1>9. HeadingSegments(t, maxChars, overlapChars) = turn[C]
    BY DEF HeadingSegments
<1>10. \A i \in 1..C : i < C => SectionStop(t, i) = Nth(S, i + 1)
    BY DEF SectionStop
<1>11. SectionStop(t, C) = Bytes(t)
    BY <1>4 DEF SectionStop
<1> HIDE DEF turn, section, S, C, max
<1> DEFINE G == {i \in Nat : i <= C => /\ Cut(t, max, turn[i])
                                       /\ Covers(turn[i], 0, IF i = 0 THEN 0 ELSE SectionStop(t, i))}
<1>12. 0 \in G
    <2>1. Cut(t, max, <<>>) /\ Covers(<<>>, 0, 0)
        BY DEF Cut, Covers
    <2> QED BY <1>8, <2>1
<1>13. ASSUME NEW i \in Nat, i \in G PROVE i + 1 \in G
    <2> SUFFICES ASSUME i + 1 <= C
                 PROVE  Cut(t, max, turn[i + 1]) /\ Covers(turn[i + 1], 0, SectionStop(t, i + 1))
        OBVIOUS
    <2>1. i <= C /\ i + 1 \in 1..C /\ (i + 1) - 1 = i /\ (i = 0 \/ (i \in 1..C /\ i < C))
        BY <1>4
    <2>2. (IF i = 0 THEN 0 ELSE SectionStop(t, i)) = Nth(S, i + 1)
        <3>1. CASE i = 0
            <4>1. i + 1 = 1
                BY <3>1
            <4> QED BY <1>4, <3>1, <4>1
        <3>2. CASE i # 0
            BY <1>10, <2>1, <3>2
        <3> QED BY <3>1, <3>2
    <2>3. Cut(t, max, turn[i]) /\ Covers(turn[i], 0, Nth(S, i + 1))
        BY <1>13, <2>1, <2>2
    <2>4. Cut(t, max, section(i + 1)) /\ Covers(section(i + 1), Nth(S, i + 1), SectionStop(t, i + 1))
        BY <1>7, <2>1
    <2>5. Nth(S, i + 1) \in Nat /\ SectionStop(t, i + 1) \in Nat
        BY <1>1, <1>5, <1>6, <2>1
    <2>6. turn[i + 1] = turn[i] \o section(i + 1)
        BY <1>8, <2>1
    <2> QED BY <2>3, <2>4, <2>5, <2>6, CutsFollow
<1> HIDE DEF G
<1>14. C \in G
    BY <1>4, <1>12, <1>13, EveryNatural
<1>15. Cut(t, max, turn[C]) /\ Covers(turn[C], 0, Bytes(t))
    BY <1>4, <1>11, <1>14 DEF G
<1> QED BY <1>9, <1>15 DEF max

-----------------------------------------------------------------------------
(* Sentences.                                                              *)

LEMMA SentenceEndFacts ==
    ASSUME NEW t \in Seq(Character)
    PROVE  /\ SentenceEnds(t) \subseteq Boundaries(t) /\ Bytes(t) \in SentenceEnds(t)
           /\ \A b \in SentenceEnds(t) : b <= Bytes(t)
           /\ SentenceEnds(t) \subseteq Nat /\ IsFiniteSet(SentenceEnds(t))
<1>1. Bytes(t) \in Nat /\ Boundaries(t) \subseteq 0..Bytes(t) /\ Bytes(t) \in Boundaries(t)
    BY BoundaryFacts
<1>2. Len(t) \in Nat /\ DOMAIN t = 1..Len(t)
    OBVIOUS
<1>3. \A n \in DOMAIN t : n \in 0..Len(t)
    BY <1>2
<1>4. {OffsetOf(t)[i] : i \in {n \in DOMAIN t : t[n].c = "stop"}} \subseteq Boundaries(t)
    BY <1>3, Zenon DEF Boundaries
<1>5. SentenceEnds(t) \subseteq Boundaries(t) /\ Bytes(t) \in SentenceEnds(t)
    BY <1>1, <1>4 DEF SentenceEnds
<1>6. SentenceEnds(t) \subseteq 0..Bytes(t) /\ SentenceEnds(t) \subseteq Nat
    BY <1>1, <1>5
<1>7. \A b \in SentenceEnds(t) : b <= Bytes(t)
    BY <1>1, <1>6
<1>8. IsFiniteSet(0..Bytes(t))
    BY <1>1, FS_Interval
<1>9. IsFiniteSet(SentenceEnds(t))
    BY <1>6, <1>8, FS_Subset
<1> QED BY <1>5, <1>6, <1>7, <1>9

LEMMA SentenceFacts ==
    ASSUME NEW t \in Seq(Character)
    PROVE  /\ Len(Sentences(t)) \in Nat /\ 1 <= Len(Sentences(t))
           /\ DOMAIN Sentences(t) = 1..Len(Sentences(t))
           /\ \A n \in DOMAIN Sentences(t) :
                 Whole(t, Sentences(t)[n]) /\ Sentences(t)[n].start <= Sentences(t)[n].end
           /\ Sentences(t)[1].start = 0 /\ Sentences(t)[Len(Sentences(t))].end = Bytes(t)
           /\ \A n \in DOMAIN Sentences(t) :
                 n + 1 \in DOMAIN Sentences(t) => Sentences(t)[n + 1].start = Sentences(t)[n].end
<1> DEFINE E == SentenceEnds(t)
           C == Cardinality(E)
           B == Boundaries(t)
           s == Sentences(t)
           from(n) == IF n = 1 THEN 0 ELSE Nth(E, n - 1)
<1>1. /\ E \subseteq B /\ Bytes(t) \in E /\ E \subseteq Nat /\ IsFiniteSet(E)
      /\ \A b \in E : b <= Bytes(t)
    BY SentenceEndFacts
<1>2. B \subseteq Nat /\ 0 \in B
    BY BoundaryFacts
<1>3. s = [n \in 1..C |-> Segment(from(n), Nth(E, n))]
    BY DEF Sentences
<1> HIDE DEF E, s
<1>4. C \in Nat /\ 1 <= C /\ Nth(E, C) = Bytes(t)
    BY <1>1, NthEnds
<1>5. DOMAIN s = 1..C /\ Len(s) = C
    BY <1>3, <1>4
<1>6. \A n \in 1..C : Nth(E, n) \in E
    BY <1>1, NthFacts
<1>7. \A n \in 1..C : Nth(E, n) \in B /\ Nth(E, n) \in Nat
    BY <1>1, <1>6
<1>8. ASSUME NEW n \in 1..C PROVE from(n) \in B /\ from(n) \in Nat /\ from(n) <= Nth(E, n)
    <2>1. CASE n = 1
        BY <1>2, <1>7, <2>1
    <2>2. CASE n # 1
        <3>1. n - 1 \in 1..C /\ (n - 1) + 1 = n /\ (n - 1) + 1 \in 1..C
            BY <1>4, <2>2
        <3>2. Nth(E, n - 1) < Nth(E, (n - 1) + 1)
            BY <1>1, <3>1, NthGrows
        <3>3. Nth(E, n - 1) < Nth(E, n)
            BY <3>1, <3>2
        <3> QED BY <1>7, <2>2, <3>1, <3>3
    <2> QED BY <2>1, <2>2
<1>9. ASSUME NEW n \in 1..C PROVE s[n] \in AnySegment /\ s[n].start = from(n) /\ s[n].end = Nth(E, n)
    <2>1. s[n] = Segment(from(n), Nth(E, n))
        BY <1>3
    <2> HIDE DEF from
    <2> QED BY <1>7, <1>8, <2>1, SegmentFacts
<1>10. \A n \in 1..C : Whole(t, s[n]) /\ s[n].start <= s[n].end
    <2> HIDE DEF from
    <2> QED BY <1>7, <1>8, <1>9 DEF Whole
<1>11. 1 \in 1..C /\ C \in 1..C
    BY <1>4
<1>12. s[1].start = 0 /\ s[C].end = Bytes(t)
    BY <1>4, <1>9, <1>11
<1>13. ASSUME NEW n \in 1..C, n + 1 \in 1..C PROVE s[n + 1].start = s[n].end
    <2>1. n + 1 # 1 /\ (n + 1) - 1 = n
        BY <1>4
    <2>2. s[n + 1].start = Nth(E, (n + 1) - 1)
        BY <1>9, <1>13, <2>1
    <2> QED BY <1>9, <2>1, <2>2
<1> QED BY <1>4, <1>5, <1>10, <1>12, <1>13 DEF s

\* A segment that is short or one sentence.
Unsplit(t, max, seg) ==
    seg.end - seg.start <= max \/ \E i \in DOMAIN Sentences(t) : Sentences(t)[i] = seg

\* What the sentences before a position are joined to.
JoinedSoFar(t, max, segs, to) ==
    /\ segs \in Seq(AnySegment)
    /\ \A n \in DOMAIN segs : Whole(t, segs[n]) /\ Unsplit(t, max, segs[n])
    /\ Covers(segs, 0, to)
    /\ segs # <<>> => segs[Len(segs)].end = to /\ segs[Len(segs)].start <= to

LEMMA JoinedFacts ==
    ASSUME NEW t \in Seq(Character), NEW max \in Nat, NEW segs, NEW i \in DOMAIN Sentences(t),
           JoinedSoFar(t, max, segs, Sentences(t)[i].start),
           segs = <<>> => Sentences(t)[i].start = 0
    PROVE  /\ JoinedSoFar(t, max, Joined(segs, Sentences(t)[i], max), Sentences(t)[i].end)
           /\ Joined(segs, Sentences(t)[i], max) # <<>>
<1> DEFINE s == Sentences(t)[i]
           L == Len(segs)
           new == Joined(segs, s, max)
<1>1. Whole(t, s) /\ s.start <= s.end
    BY SentenceFacts
<1>2. Unsplit(t, max, s)
    BY DEF Unsplit
<1> HIDE DEF s
<1>3. s \in AnySegment /\ s.start \in Nat /\ s.end \in Nat /\ s.start \in Boundaries(t) /\ s.end \in Boundaries(t)
    BY <1>1 DEF Whole, AnySegment
<1>4. /\ segs \in Seq(AnySegment) /\ Covers(segs, 0, s.start)
      /\ \A n \in DOMAIN segs : Whole(t, segs[n]) /\ Unsplit(t, max, segs[n])
      /\ segs # <<>> => segs[L].end = s.start /\ segs[L].start <= s.start
      /\ segs = <<>> => s.start = 0
    BY DEF JoinedSoFar, s
<1>5. L \in Nat /\ DOMAIN segs = 1..L
    BY <1>4
<1>6. CASE segs = <<>>
    <2>1. new = <<s>>
        BY <1>6 DEF Joined
    <2>2. new \in Seq(AnySegment) /\ new # <<>> /\ Len(new) = 1 /\ DOMAIN new = {1} /\ new[1] = s
        BY <1>3, <2>1
    <2>3. Covers(new, 0, s.end)
        BY <1>4, <1>6, <2>2 DEF Covers
    <2>4. JoinedSoFar(t, max, new, s.end)
        BY <1>1, <1>2, <2>2, <2>3 DEF JoinedSoFar
    <2> QED BY <2>2, <2>4 DEF s
<1>7. CASE segs # <<>> /\ s.end - segs[L].start > max
    <2>1. new = Append(segs, s)
        BY <1>7 DEF Joined
    <2>2. /\ new \in Seq(AnySegment) /\ Len(new) = L + 1 /\ DOMAIN new = 1..(L + 1)
          /\ \A n \in DOMAIN segs : n \in DOMAIN new /\ new[n] = segs[n]
          /\ L + 1 \in DOMAIN new /\ new[L + 1] = s
        BY <1>3, <1>4, <1>5, <2>1
    <2>3. ASSUME NEW n \in DOMAIN new PROVE Whole(t, new[n]) /\ Unsplit(t, max, new[n])
        <3>1. n \in DOMAIN segs \/ n = L + 1
            BY <1>5, <2>2
        <3> QED BY <1>1, <1>2, <1>4, <2>2, <3>1
    <2>4. Covers(new, 0, s.end)
        <3> SUFFICES ASSUME NEW x \in Nat, 0 < x, x <= s.end
                     PROVE  \E n \in DOMAIN new : new[n].start < x /\ x <= new[n].end
            BY DEF Covers
        <3>1. CASE x <= s.start
            <4>1. PICK n \in DOMAIN segs : segs[n].start < x /\ x <= segs[n].end
                BY <1>4, <3>1 DEF Covers
            <4> QED BY <2>2, <4>1
        <3>2. CASE ~(x <= s.start)
            <4>1. s.start < x
                BY <1>3, <3>2
            <4> QED BY <2>2, <4>1
        <3> QED BY <3>1, <3>2
    <2>5. new # <<>>
        BY <1>5, <2>2
    <2>6. JoinedSoFar(t, max, new, s.end)
        BY <1>1, <2>2, <2>3, <2>4 DEF JoinedSoFar
    <2> QED BY <2>5, <2>6 DEF s
<1>8. CASE segs # <<>> /\ ~(s.end - segs[L].start > max)
    <2> DEFINE j == Segment(segs[L].start, s.end)
    <2>1. L \in DOMAIN segs
        BY <1>4, <1>5, <1>8
    <2>2. Whole(t, segs[L]) /\ segs[L].end = s.start
        BY <1>4, <1>8, <2>1
    <2>3. segs[L].start \in Nat /\ segs[L].start \in Boundaries(t)
        BY <2>2 DEF Whole, AnySegment
    <2>4. j \in AnySegment /\ j.start = segs[L].start /\ j.end = s.end
        BY <1>3, <2>3, SegmentFacts
    <2>5. new = [segs EXCEPT ![L] = j]
        BY <1>8 DEF Joined
    <2> HIDE DEF j, new
    <2>6. /\ new \in Seq(AnySegment) /\ Len(new) = L /\ DOMAIN new = DOMAIN segs /\ new[L] = j
          /\ \A n \in DOMAIN segs : n # L => new[n] = segs[n]
        BY <1>4, <1>5, <2>1, <2>4, <2>5
    <2>7. Whole(t, j)
        BY <1>3, <2>3, <2>4 DEF Whole
    <2>8. j.end - j.start <= max
        BY <1>3, <1>8, <2>3, <2>4
    <2>9. Unsplit(t, max, j)
        BY <2>8 DEF Unsplit
    <2>10. ASSUME NEW n \in DOMAIN new PROVE Whole(t, new[n]) /\ Unsplit(t, max, new[n])
        BY <1>4, <2>6, <2>7, <2>9
    <2>11. Covers(new, 0, s.end)
        <3> SUFFICES ASSUME NEW x \in Nat, 0 < x, x <= s.end
                     PROVE  \E n \in DOMAIN new : new[n].start < x /\ x <= new[n].end
            BY DEF Covers
        <3>1. CASE segs[L].start < x
            BY <2>1, <2>4, <2>6, <3>1
        <3>2. CASE ~(segs[L].start < x)
            <4>1. x <= s.start
                BY <1>3, <1>4, <1>8, <2>3, <3>2
            <4>2. PICK n \in DOMAIN segs : segs[n].start < x /\ x <= segs[n].end
                BY <1>4, <4>1 DEF Covers
            <4>3. n # L
                BY <3>2, <4>2
            <4> QED BY <2>6, <4>2, <4>3
        <3> QED BY <3>1, <3>2
    <2>12. new # <<>>
        BY <1>5, <2>1, <2>6
    <2>13. segs[L].start <= s.end
        BY <1>1, <1>3, <1>4, <1>8, <2>3
    <2>14. JoinedSoFar(t, max, new, s.end)
        BY <2>4, <2>6, <2>10, <2>11, <2>13 DEF JoinedSoFar
    <2> QED BY <2>12, <2>14 DEF s, new
<1> QED BY <1>6, <1>7, <1>8

\* The sentences' segments, before those without a visible character are dropped.
LEMMA SemanticTurnsCut ==
    ASSUME NEW t \in Seq(Character), NEW max \in Nat
    PROVE  JoinedSoFar(t, max, SemanticTurns(t, max)[Len(Sentences(t))], Bytes(t))
<1> DEFINE s == Sentences(t)
           C == Len(s)
           turn == SemanticTurns(t, max)
<1>1. /\ C \in Nat /\ 1 <= C /\ DOMAIN s = 1..C
      /\ s[1].start = 0 /\ s[C].end = Bytes(t)
      /\ \A n \in DOMAIN s : n + 1 \in DOMAIN s => s[n + 1].start = s[n].end
    BY SentenceFacts
<1>2. turn[0] = <<>> /\ \A n \in 1..C : turn[n] = Joined(turn[n - 1], s[n], max)
    BY <1>1, SemanticTurnsAre
<1> HIDE DEF turn
<1> DEFINE Ready(n) == JoinedSoFar(t, max, turn[n - 1], s[n].start) /\ (turn[n - 1] = <<>> => s[n].start = 0)
           G == {n \in Nat : n + 1 <= C => Ready(n + 1)}
<1>3. ASSUME NEW n \in 1..C, Ready(n)
      PROVE  JoinedSoFar(t, max, turn[n], s[n].end) /\ turn[n] # <<>>
    BY <1>1, <1>2, <1>3, JoinedFacts
<1> HIDE DEF s
<1>4. 0 \in G
    <2>1. 0 + 1 = 1 /\ 1 - 1 = 0
        OBVIOUS
    <2>2. JoinedSoFar(t, max, <<>>, 0)
        BY DEF JoinedSoFar, Covers
    <2>3. JoinedSoFar(t, max, turn[0], s[1].start)
        BY <1>1, <1>2, <2>2
    <2>4. Ready(1)
        BY <1>1, <2>1, <2>3
    <2> QED BY <2>1, <2>4
<1>5. ASSUME NEW n \in Nat, n \in G PROVE n + 1 \in G
    <2> SUFFICES ASSUME (n + 1) + 1 <= C PROVE Ready((n + 1) + 1)
        OBVIOUS
    <2>1. n + 1 <= C /\ n + 1 \in 1..C /\ (n + 1) + 1 \in 1..C /\ ((n + 1) + 1) - 1 = n + 1
        BY <1>1
    <2>2. Ready(n + 1)
        BY <1>5, <2>1
    <2> HIDE DEF Ready
    <2>3. JoinedSoFar(t, max, turn[n + 1], s[n + 1].end) /\ turn[n + 1] # <<>>
        BY <1>3, <2>1, <2>2
    <2>4. s[(n + 1) + 1].start = s[n + 1].end
        BY <1>1, <2>1
    <2> USE DEF Ready
    <2> QED BY <2>1, <2>3, <2>4
<1> HIDE DEF G, Ready
<1>6. C - 1 \in Nat /\ (C - 1) + 1 = C /\ C \in 1..C
    BY <1>1
<1>7. C - 1 \in G
    BY <1>4, <1>5, <1>6, EveryNatural
<1>8. Ready(C)
    BY <1>6, <1>7 DEF G
<1>9. JoinedSoFar(t, max, turn[C], s[C].end)
    BY <1>3, <1>6, <1>8
<1> QED BY <1>1, <1>9 DEF s, turn

-----------------------------------------------------------------------------
(* However a text is cut.                                                  *)

\* Every visible character is in a segment; a segment is whole, and short unless it cannot be cut.
WellCut(t, strategy, segs) ==
    /\ segs \in Seq(AnySegment)
    /\ \A i \in DOMAIN t : Blank(t[i].c) \/ \E n \in DOMAIN segs : i \in Within(t, segs[n])
    /\ \A n \in DOMAIN segs :
         /\ segs[n].start \in Boundaries(t) /\ segs[n].end \in Boundaries(t)
         /\ segs[n].end - segs[n].start <= strategy.max \/ Uncuttable(t, strategy, segs[n])

LEMMA CoversWithin ==
    ASSUME NEW t \in Seq(Character), NEW segs, Covers(segs, 0, Bytes(t)), NEW i \in DOMAIN t
    PROVE  \E n \in DOMAIN segs : i \in Within(t, segs[n])
<1>1. /\ Len(t) \in Nat /\ DOMAIN t = 1..Len(t) /\ OffsetOf(t)[0] = 0
      /\ \A k \in 0..Len(t) : OffsetOf(t)[k] \in Nat
      /\ \A k, j \in 0..Len(t) : k < j => OffsetOf(t)[k] < OffsetOf(t)[j]
    BY OffsetFacts
<1>2. i \in 0..Len(t) /\ 0 \in 0..Len(t) /\ 0 < i /\ Len(t) \in 0..Len(t) /\ (i = Len(t) \/ i < Len(t))
    BY <1>1
<1>3. OffsetOf(t)[i] \in Nat /\ 0 < OffsetOf(t)[i] /\ OffsetOf(t)[i] <= OffsetOf(t)[Len(t)]
    <2>1. OffsetOf(t)[Len(t)] \in Nat
        BY <1>1, <1>2
    <2>2. OffsetOf(t)[0] < OffsetOf(t)[i]
        BY <1>1, <1>2
    <2>3. i = Len(t) \/ OffsetOf(t)[i] < OffsetOf(t)[Len(t)]
        BY <1>1, <1>2
    <2>4. OffsetOf(t)[i] \in Nat
        BY <1>1, <1>2
    <2> QED BY <1>1, <2>1, <2>2, <2>3, <2>4
<1>4. PICK n \in DOMAIN segs : segs[n].start < OffsetOf(t)[i] /\ OffsetOf(t)[i] <= segs[n].end
    BY <1>3 DEF Covers, Bytes
<1> QED BY <1>4 DEF Within

\* A limit of zero is one byte, and every character is wider than zero.
LEMMA WideUnlessEmpty ==
    ASSUME NEW t \in Seq(Character), t # <<>>, NEW max \in Nat
    PROVE  max = 0 => Wide(t, max)
<1>1. 1 \in DOMAIN t /\ 1 \in 1..Len(t)
    OBVIOUS
<1>2. t[1].w \in Nat \ {0}
    BY <1>1, OffsetFacts
<1> QED BY <1>1, <1>2 DEF Wide

LEMMA CutIsWellCut ==
    ASSUME NEW t \in Seq(Character), t # <<>>, NEW strategy, strategy.max \in Nat,
           NEW segs, Cut(t, AtLeastOne(strategy.max), segs), Covers(segs, 0, Bytes(t))
    PROVE  WellCut(t, strategy, segs)
<1> DEFINE max == strategy.max
<1>1. \A i \in DOMAIN t : \E n \in DOMAIN segs : i \in Within(t, segs[n])
    BY CoversWithin
<1>2. AtLeastOne(max) = max \/ Wide(t, max)
    BY AtLeastOneFacts, WideUnlessEmpty
<1>3. ASSUME NEW n \in DOMAIN segs
      PROVE  /\ segs[n].start \in Boundaries(t) /\ segs[n].end \in Boundaries(t)
             /\ segs[n].end - segs[n].start <= max \/ Wide(t, max)
    <2>1. Whole(t, segs[n]) /\ Short(t, AtLeastOne(max), segs[n])
        BY DEF Cut
    <2>2. CASE AtLeastOne(max) = max
        BY <2>1, <2>2 DEF Whole, Short
    <2>3. CASE Wide(t, max)
        BY <2>1, <2>3 DEF Whole
    <2> QED BY <1>2, <2>2, <2>3
<1>4. \A n \in DOMAIN segs : Wide(t, max) => Uncuttable(t, strategy, segs[n])
    BY DEF Wide, Uncuttable
<1>5. segs \in Seq(AnySegment)
    BY DEF Cut
<1> QED BY <1>1, <1>3, <1>4, <1>5 DEF WellCut

LEMMA SemanticSegmentsWellCut ==
    ASSUME NEW t \in Seq(Character), t # <<>>, NEW strategy, strategy.max \in Nat, strategy.kind = "semantic"
    PROVE  WellCut(t, strategy, SemanticSegments(t, strategy.max))
<1> DEFINE max == AtLeastOne(strategy.max)
           all == SemanticTurns(t, max)[Len(Sentences(t))]
           keep == {n \in DOMAIN all : ~AllBlank(t, all[n])}
           segs == SelectAt(all, keep)
<1>1. max \in Nat
    BY AtLeastOneFacts
<1>2. JoinedSoFar(t, max, all, Bytes(t))
    BY <1>1, SemanticTurnsCut
<1>3. SemanticSegments(t, strategy.max) = segs
    BY DEF SemanticSegments
<1>4. AtLeastOne(strategy.max) = strategy.max \/ Wide(t, strategy.max)
    BY AtLeastOneFacts, WideUnlessEmpty
<1> HIDE DEF all
<1>5. /\ all \in Seq(AnySegment) /\ Covers(all, 0, Bytes(t))
      /\ \A n \in DOMAIN all : Whole(t, all[n]) /\ Unsplit(t, max, all[n])
    BY <1>2 DEF JoinedSoFar
<1>6. keep \in SUBSET DOMAIN all
    OBVIOUS
<1>7. /\ segs \in Seq(AnySegment)
      /\ \A n \in DOMAIN segs : Nth(keep, n) \in keep /\ segs[n] = all[Nth(keep, n)]
      /\ \A n \in keep : RankIn(keep, n) \in DOMAIN segs /\ segs[RankIn(keep, n)] = all[n]
    <2> HIDE DEF keep
    <2> QED BY <1>5, <1>6, SelectAtFacts
<1>8. \A n \in keep : n \in DOMAIN all
    OBVIOUS
<1>9. ASSUME NEW i \in DOMAIN t, ~Blank(t[i].c) PROVE \E n \in DOMAIN segs : i \in Within(t, segs[n])
    <2>1. PICK n \in DOMAIN all : i \in Within(t, all[n])
        BY <1>5, CoversWithin
    <2>2. ~AllBlank(t, all[n])
        BY <1>9, <2>1 DEF AllBlank
    <2>3. n \in keep
        BY <2>2
    <2> HIDE DEF keep, segs
    <2> QED BY <1>7, <2>1, <2>3
<1>10. ASSUME NEW n \in DOMAIN segs
       PROVE  /\ segs[n].start \in Boundaries(t) /\ segs[n].end \in Boundaries(t)
              /\ segs[n].end - segs[n].start <= strategy.max \/ Uncuttable(t, strategy, segs[n])
    <2>1. Whole(t, segs[n]) /\ Unsplit(t, max, segs[n])
        <3> HIDE DEF keep, segs, max
        <3> QED BY <1>5, <1>7, <1>8
    <2> HIDE DEF segs
    <2>2. segs[n].start \in Boundaries(t) /\ segs[n].end \in Boundaries(t)
        BY <2>1 DEF Whole
    <2>3. CASE Wide(t, strategy.max)
        BY <2>2, <2>3 DEF Wide, Uncuttable
    <2>4. CASE AtLeastOne(strategy.max) = strategy.max
        BY <2>1, <2>2, <2>4 DEF Unsplit, Uncuttable
    <2> QED BY <1>4, <2>3, <2>4
<1> HIDE DEF keep, segs
<1>11. WellCut(t, strategy, segs)
    BY <1>7, <1>9, <1>10 DEF WellCut
<1> QED BY <1>3, <1>11

LEMMA SegmentsWellCut ==
    ASSUME NEW t \in Seq(Character), NEW strategy,
           strategy.kind \in {"fixed", "heading", "semantic"}, strategy.max \in Nat, strategy.overlap \in Nat
    PROVE  WellCut(t, strategy, SegmentsOf(t, strategy))
<1>1. CASE t = <<>>
    <2>1. SegmentsOf(t, strategy) = <<>>
        BY <1>1 DEF SegmentsOf
    <2>2. DOMAIN t = {} /\ DOMAIN <<>> = {} /\ <<>> \in Seq(AnySegment)
        BY <1>1
    <2>3. WellCut(t, strategy, <<>>)
        BY <2>2, Zenon DEF WellCut
    <2> QED BY <2>1, <2>3
<1>2. CASE t # <<>> /\ strategy.kind = "fixed"
    <2>1. SegmentsOf(t, strategy) = FixedSegments(t, 0, Bytes(t), strategy.max, strategy.overlap)
        BY <1>2 DEF SegmentsOf
    <2>2. 0 \in Boundaries(t) /\ Bytes(t) \in Boundaries(t) /\ 0 <= Bytes(t)
        BY BoundaryFacts
    <2> QED BY <1>2, <2>1, <2>2, FixedSegmentsCut, CutIsWellCut
<1>3. CASE t # <<>> /\ strategy.kind = "heading"
    <2>1. SegmentsOf(t, strategy) = HeadingSegments(t, strategy.max, strategy.overlap)
        BY <1>3 DEF SegmentsOf
    <2> QED BY <1>3, <2>1, HeadingSegmentsCut, CutIsWellCut
<1>4. CASE t # <<>> /\ strategy.kind = "semantic"
    <2>1. SegmentsOf(t, strategy) = SemanticSegments(t, strategy.max)
        BY <1>4 DEF SegmentsOf
    <2> QED BY <1>4, <2>1, SemanticSegmentsWellCut
<1> QED BY <1>1, <1>2, <1>3, <1>4

LEMMA DocumentStart ==
    ASSUME ChunkingInit
    PROVE  DocumentCovered
<1>1. doc.text = <<>> /\ doc.count = 0
    BY DEF ChunkingInit
<1>2. DOMAIN doc.text = {} /\ 1..doc.count = {}
    BY <1>1
<1> QED BY <1>2 DEF DocumentCovered

LEMMA DocumentStep ==
    ASSUME DocumentCovered, [ChunkingNext]_chunkingVars
    PROVE  DocumentCovered'
<1>1. CASE UNCHANGED chunkingVars
    BY <1>1 DEF chunkingVars, DocumentCovered
<1>2. CASE IngestDocumentText
    <2>1. PICK t \in DocText, strategy \in Strategies :
             /\ doc' = [text |-> t, strategy |-> strategy, count |-> Len(SegmentsOf(t, strategy))]
             /\ docChunks' = [n \in DOMAIN docChunks \cup 1..Len(SegmentsOf(t, strategy)) |->
                                IF n <= Len(SegmentsOf(t, strategy))
                                THEN [text |-> t, seg |-> SegmentsOf(t, strategy)[n]] ELSE docChunks[n]]
        BY <1>2 DEF IngestDocumentText
    <2>2. PICK segs : segs = SegmentsOf(t, strategy)
        OBVIOUS
    <2>3. /\ t \in Seq(Character)
          /\ strategy.kind \in {"fixed", "heading", "semantic"} /\ strategy.max \in Nat /\ strategy.overlap \in Nat
        BY ChunkingAssumption
    <2>4. WellCut(t, strategy, segs)
        BY <2>2, <2>3, SegmentsWellCut
    <2>5. doc'.text = t /\ doc'.strategy = strategy /\ doc'.count = Len(segs)
        BY <2>1, <2>2
    <2>6. segs \in Seq(AnySegment) /\ Len(segs) \in Nat /\ DOMAIN segs = 1..Len(segs)
        BY <2>4 DEF WellCut
    <2>7. \A n \in 1..Len(segs) : docChunks'[n].seg = segs[n]
        <3> SUFFICES ASSUME NEW n \in 1..Len(segs) PROVE docChunks'[n].seg = segs[n]
            OBVIOUS
        <3>1. n <= Len(segs)
            BY <2>6
        <3>2. docChunks'[n] = [text |-> t, seg |-> segs[n]]
            BY <2>1, <2>2, <3>1
        <3> QED BY <3>2
    <2>8. \A i \in DOMAIN t : Blank(t[i].c) \/ \E n \in DOMAIN segs : i \in Within(t, segs[n])
        BY <2>4 DEF WellCut
    <2>9. \A n \in DOMAIN segs :
             /\ segs[n].start \in Boundaries(t) /\ segs[n].end \in Boundaries(t)
             /\ segs[n].end - segs[n].start <= strategy.max \/ Uncuttable(t, strategy, segs[n])
        BY <2>4 DEF WellCut
    <2> DEFINE held == {docChunks'[n].seg : n \in 1..doc'.count}
    <2>10. held = {segs[n] : n \in DOMAIN segs}
        BY <2>5, <2>6, <2>7
    <2>11. \A i \in DOMAIN t : Blank(t[i].c) \/ \E seg \in held : i \in Within(t, seg)
        BY <2>8, <2>10
    <2>12. \A seg \in held :
             /\ {seg.start, seg.end} \subseteq Boundaries(t)
             /\ seg.end - seg.start <= strategy.max \/ Uncuttable(t, strategy, seg)
        BY <2>9, <2>10
    <2> QED BY <2>5, <2>11, <2>12 DEF DocumentCovered
<1> QED BY <1>1, <1>2 DEF ChunkingNext

(***************************************************************************)
(* ingest_document_text(): for every text, strategy, limit and overlap,    *)
(* and whatever was stored under the document's ids before, the chunks     *)
(* reported hold every visible character, split none, and are longer than  *)
(* the limit only where one character or one sentence is.                  *)
(***************************************************************************)
THEOREM DocumentsAreCovered == ChunkingSpec => []DocumentCovered
<1>1. ChunkingInit => DocumentCovered
    BY DocumentStart
<1>2. DocumentCovered /\ [ChunkingNext]_chunkingVars => DocumentCovered'
    BY DocumentStep
<1> QED BY <1>1, <1>2, PTL DEF ChunkingSpec

-----------------------------------------------------------------------------
(* The jobs side by side.                                                  *)

LEMMA JobsRunEach ==
    Spec => BackupSpec /\ RotationSpec /\ ReindexSpec /\ MigrationSpec /\ ChunkingSpec
<1>1. Init => BackupInit /\ RotationInit /\ ReindexInit /\ MigrationInit /\ ChunkingInit
    BY DEF Init
<1>2. ASSUME [Next]_vars
      PROVE  /\ [BackupNext]_backupVars /\ [RotationNext]_rotationVars
             /\ [ReindexNext]_reindexVars /\ [MigrationNext]_migrationVars
             /\ [ChunkingNext]_chunkingVars
    BY <1>2 DEF Next, vars
<1> QED BY <1>1, <1>2, PTL
        DEF Spec, BackupSpec, RotationSpec, ReindexSpec, MigrationSpec, ChunkingSpec

(***************************************************************************)
(* Side by side the jobs keep what each keeps by itself: they share no     *)
(* state but the format of the table (reindex.rs, security.rs, main.rs,    *)
(* lib.rs).                                                                *)
(***************************************************************************)
THEOREM JobsKeepTheirWord ==
    Spec => [](RestoredHoldsItsPast /\ SecretsStayReadable /\ VerifiedMeansRotated
               /\ ReindexUndoesOnlyItsPage /\ ReindexComplete /\ MigratedAsExported
               /\ DocumentCovered)
BY JobsRunEach, RestoresHoldTheirPast, SecretsReadable, VerifiedIsRotated, ReindexUndoesNoMore,
   ReindexGivesTheModel, MigrationsCarryAll, DocumentsAreCovered, PTL
=============================================================================
