------------------------------ MODULE AnnFiles ------------------------------
(***************************************************************************)
(* The files that keep an approximate index beside the database file       *)
(* (src/src/lib.rs): the entries, an older JSON form of them, and the two  *)
(* files of the HNSW graph.  A handle writes them one after the other at   *)
(* the end of a call, and a load trusts those that are not older than the  *)
(* database file: with a write-ahead log a commit leaves that time alone,  *)
(* and times are no finer than a tick of the clock.                        *)
(***************************************************************************)
EXTENDS VectorIndex

CONSTANTS AnnKinds,    \* subset of {"lsh", "hnsw"}
          AnnBatches,  \* arguments of ingest_chunks()
          AnnIds,      \* chunk ids
          MaxAnnKey, MaxAnnClock, MaxAnnCrashes

ASSUME AnnAssumption ==
    /\ AnnKinds \subseteq {"lsh", "hnsw"}
    /\ \A r \in AnnBatches : r.emb \in Seq(Int)

VARIABLES annTable,   \* the embedded rows: a set of [key, id, emb]
          annWal,     \* write-ahead logging
          annFiles,
          dbTime,     \* modification time of the database file
          annClock,
          annHandle,  \* the handle: its index and the rest of its call
          annCrashes, \* bound
          hidden      \* history: the times do not tell a commit from what was saved before it

annVars == <<annTable, annWal, annFiles, dbTime, annClock, annHandle, annCrashes, hidden>>

Artifact == {"entries", "json", "graph", "data"}
AbsentFile == [time |-> 0, whole |-> FALSE, data |-> << >>]
ClosedAnn(kind) ==
    [kind |-> kind, open |-> FALSE, index |-> EmptyIndex(kind), todo |-> << >>,
     loading |-> FALSE, loaded |-> FALSE, sure |-> TRUE]

\* JSON of a release that did not save the keys.
OldJson == [time |-> 1, whole |-> TRUE, data |-> <<[key |-> 0, id |-> 1, emb |-> <<1, 0>>]>>]

AnnInit ==
    /\ annWal \in BOOLEAN
    /\ annHandle \in {ClosedAnn(k) : k \in AnnKinds}
    /\ \/ /\ annTable = {}
          /\ annFiles = [f \in Artifact |-> AbsentFile]
       \/ /\ annTable = {[key |-> 1, id |-> 1, emb |-> <<1, 0>>]}
          /\ annFiles = [f \in Artifact |-> IF f = "json" THEN OldJson ELSE AbsentFile]
    /\ dbTime = 1 /\ annClock = 1 /\ annCrashes = 0 /\ hidden = FALSE

\* The rows in the order of their keys.
KeysOf(table) == {r.key : r \in table}
RowWith(table, key) == CHOOSE r \in table : r.key = key
InOrder(table) == [n \in 1..Cardinality(KeysOf(table)) |-> RowWith(table, Nth(KeysOf(table), n))]

-----------------------------------------------------------------------------
(* Loading.                                                                *)

\* artifact_is_fresh()
Fresh(f) == annFiles[f].time # 0 /\ annFiles[f].time >= dbTime
Readable(f) == Fresh(f) /\ annFiles[f].whole

\* Faulty variant of GraphUsable: the graph is as good as the entries.
GraphWhole == annFiles["graph"].whole /\ annFiles["data"].whole

GraphUsable == Readable("graph") /\ Readable("data")

\* backfill_vector_entry_keys(): by id; an id that is gone keeps key 0.
Backfilled(records) ==
    [i \in DOMAIN records |->
        LET rows == {r \in annTable : r.id = records[i].id}
        IN IF records[i].key # 0 \/ rows = {} THEN records[i]
           ELSE [records[i] EXCEPT !.key = (CHOOSE r \in rows : TRUE).key]]

\* load_graph_snapshot(): an index without entries takes none.
GraphLoaded(ix) ==
    [ix EXCEPT !.graph = IF Size(ix) = 0 THEN << >> ELSE annFiles["data"].data, !.dirty = FALSE]

FromEntries(ix) ==
    LET entries == Imported(ix, annFiles["entries"].data)
    IN IF ix.kind = "hnsw" /\ GraphUsable THEN GraphLoaded(entries) ELSE entries

\* load_vector_index(): entries, JSON, table; what comes from the table is saved.
Load ==
    LET fresh == NewIndex(annHandle.kind)
        FromTable == ~Readable("entries") /\ ~Readable("json")
    IN /\ ~annHandle.open
       /\ annHandle' =
             [annHandle EXCEPT
                !.open = TRUE, !.loaded = TRUE, !.loading = FromTable, !.sure = FromTable \/ ~hidden,
                !.index = IF Readable("entries") THEN FromEntries(fresh)
                          ELSE IF Readable("json") THEN Imported(fresh, Backfilled(annFiles["json"].data))
                          ELSE PutRecords(fresh, InOrder(annTable)),
                !.todo = IF ~FromTable THEN << >>
                         ELSE IF annHandle.kind = "hnsw" THEN <<"entries", "json", "graph", "data">>
                         ELSE <<"entries", "json">>]
       /\ UNCHANGED <<annTable, annWal, annFiles, dbTime, annClock, annCrashes, hidden>>

-----------------------------------------------------------------------------
(* Changing the table, then the index, then the files.                     *)

AnnIdle == annHandle.open /\ annHandle.todo = << >>

\* A commit: whether the file's time moves is up to the journal and its checkpoints.
CommitAnn(table) ==
    /\ annTable' = table
    /\ dbTime' \in IF annWal THEN {dbTime, annClock} ELSE {annClock}
    /\ hidden' = (hidden \/ dbTime' < annClock \/ \E f \in Artifact : annFiles[f].time = annClock)

PersistSteps == IF annHandle.kind = "hnsw" THEN <<"entries", "json", "graph", "data">>
                ELSE <<"entries", "json">>

AnnRowKey(id) ==
    LET rows == {r \in annTable : r.id = id}
    IN IF rows # {} THEN (CHOOSE r \in rows : TRUE).key
       ELSE IF annTable = {} THEN 1 ELSE 1 + Max(KeysOf(annTable))

\* ingest_chunks() and update_chunk_embedding().
IngestAnn ==
    /\ AnnIdle
    /\ \E r \in AnnBatches :
          LET row == [key |-> AnnRowKey(r.id), id |-> r.id, emb |-> r.emb]
          IN /\ row.key <= MaxAnnKey /\ Fits(annHandle.index, r.emb)
             /\ CommitAnn({o \in annTable : o.id # r.id} \cup {row})
             /\ annHandle' = [annHandle EXCEPT !.index = PutRecords(@, <<row>>), !.loaded = FALSE,
                                              !.loading = FALSE, !.todo = PersistSteps]
    /\ UNCHANGED <<annWal, annFiles, annClock, annCrashes>>

\* delete_chunks_by_metadata() and the like: rebuild_vector_index() starts over.
DeleteAnn ==
    /\ AnnIdle
    /\ \E id \in AnnIds :
          LET table == {r \in annTable : r.id # id}
          IN /\ table # annTable
             /\ CommitAnn(table)
             /\ annHandle' =
                   [annHandle EXCEPT
                      !.index = PutRecords(EmptyIndex(annHandle.kind), InOrder(table)),
                      !.loaded = FALSE, !.loading = FALSE, !.sure = TRUE, !.todo = PersistSteps]
    /\ UNCHANGED <<annWal, annFiles, annClock, annCrashes>>

\* What a step writes; the graph is built for it, and an empty index dumps none.
Contents(step, ix) == IF step \in {"entries", "json"} THEN Exported(ix) ELSE ix.graph

Dumps(step, ix) == step \in {"entries", "json"} \/ Size(ix) > 0

\* With the last file the times and the contents are right again, unless the index
\* came from a file that was not (sure).
SaveFile ==
    /\ annHandle.open /\ annHandle.todo # << >>
    /\ LET step == Head(annHandle.todo)
           ix == IF step \in {"graph", "data"} /\ Size(annHandle.index) > 0
                 THEN WithGraph(annHandle.index) ELSE annHandle.index
       IN /\ annHandle' = [annHandle EXCEPT !.index = ix, !.todo = Tail(@)]
          /\ annFiles' = IF ~Dumps(step, ix) THEN annFiles
                         ELSE [annFiles EXCEPT ![step] =
                                 [time |-> annClock, whole |-> TRUE, data |-> Contents(step, ix)]]
          /\ hidden' = (hidden /\ (Len(annHandle.todo) > 1 \/ ~annHandle.sure))
    /\ UNCHANGED <<annTable, annWal, dbTime, annClock, annCrashes>>

\* A save fails in the middle: a load goes on, a call returns the error.
SaveFails ==
    /\ annHandle.open /\ annHandle.todo # << >>
    /\ Dumps(Head(annHandle.todo), annHandle.index)
    /\ annCrashes < MaxAnnCrashes /\ annCrashes' = annCrashes + 1
    /\ annFiles' = [annFiles EXCEPT ![Head(annHandle.todo)] =
                      [time |-> annClock, whole |-> FALSE, data |-> << >>]]
    /\ annHandle' = [annHandle EXCEPT !.todo = IF annHandle.loading THEN Tail(@) ELSE << >>]
    /\ UNCHANGED <<annTable, annWal, dbTime, annClock, hidden>>

\* The last connection writes the log back to the file.
CloseAnn ==
    /\ AnnIdle
    /\ annHandle' = ClosedAnn(annHandle.kind)
    /\ dbTime' \in IF annWal THEN {dbTime, annClock} ELSE {dbTime}
    /\ hidden' = (hidden /\ \E f \in Artifact : annFiles[f].time >= dbTime')
    /\ UNCHANGED <<annTable, annWal, annFiles, annClock, annCrashes>>

CrashAnn ==
    /\ annHandle.open /\ annHandle.todo # << >>
    /\ annCrashes < MaxAnnCrashes /\ annCrashes' = annCrashes + 1
    /\ annHandle' = ClosedAnn(annHandle.kind)
    /\ UNCHANGED <<annTable, annWal, annFiles, dbTime, annClock, hidden>>

TickAnn ==
    /\ annClock < MaxAnnClock /\ annClock' = annClock + 1
    /\ UNCHANGED <<annTable, annWal, annFiles, dbTime, annHandle, annCrashes, hidden>>

AnnNext ==
    Load \/ IngestAnn \/ DeleteAnn \/ SaveFile \/ SaveFails \/ CloseAnn \/ CrashAnn \/ TickAnn

AnnSpec == AnnInit /\ [][AnnNext]_annVars

-----------------------------------------------------------------------------
(***************************************************************************)
(* As long as the modification times show every commit, what a handle      *)
(* loads is the table, from whichever file it comes and whatever a crash   *)
(* or a failed save left half written, and a loaded graph is over just     *)
(* those entries in their order.                                           *)
(***************************************************************************)
LoadedIsStored ==
    annHandle.loaded /\ ~hidden =>
       LET ix == annHandle.index
       IN /\ ToSet(ix.entries) = {EntryOf(r) : r \in annTable}
          /\ Size(ix) = Cardinality(annTable)
          /\ ix.graph # << >> => ~ix.dirty /\ ix.graph = Own(ix)
=============================================================================
