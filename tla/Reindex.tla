------------------------------- MODULE Reindex -------------------------------
(***************************************************************************)
(* reindex_embeddings (reindex.rs): every chunk of a tenant is embedded    *)
(* again with another model, page by page; the offset of the next page is  *)
(* kept in a file so that a run that failed or was killed can be resumed.  *)
(* Between the steps of a page others write and delete chunks.             *)
(*                                                                         *)
(* History: `intent' is what others last made of each chunk, `raced' the   *)
(* chunks they changed while the job held a copy, `watched' the chunks a   *)
(* finished job owes the new model.                                        *)
(***************************************************************************)
EXTENDS JobTable

CONSTANTS
    ReindexId, ReindexTenant,
    ReindexText, Absent,
    TargetModel, OldModel,
    ReindexOptions,     \* batch_size, tenant_id, only_if_model_mismatch, continue, checkpoint
    InitialChunks,      \* the tables a job may find
    MaxReindexRuns,
    MaxReindexEdits

\* What rows may hold: what others write and what the tables found hold.
FoundRows == UNION {{table[i] : i \in DOMAIN table} : table \in InitialChunks}
ReindexRow ==
    [id : ReindexId, tenant : ReindexTenant,
     text : ReindexText \cup {row.text : row \in FoundRows},
     model : {OldModel, TargetModel} \cup {row.model : row \in FoundRows}]

\* Ids are the table's primary key; a batch of none is refused.
ASSUME ReindexAssumption ==
    /\ ReindexTenant # {}
    /\ ReindexOptions # {}
    /\ ReindexOptions \subseteq
         [batch : Nat \ {0}, tenant : ReindexTenant, mismatch : BOOLEAN, cont : BOOLEAN,
          persist : BOOLEAN]
    /\ \A table \in InitialChunks :
          /\ table \in Seq(ReindexRow)
          /\ \A i, j \in DOMAIN table : table[i].id = table[j].id => i = j

VARIABLES
    chunks,          \* the table
    offsetFile,      \* the checkpoint file; offset 0 stands for none
    job,             \* the run
    jobOptions,
    intent, raced,
    reindexRuns, reindexEdits

reindexVars == <<chunks, offsetFile, job, jobOptions, intent, raced, reindexRuns, reindexEdits>>

Reindexing == {"page", "embed", "store", "save", "clear"}

NoOffset == [offset |-> 0, watched |-> {}, tenant |-> CHOOSE t \in ReindexTenant : TRUE]

Halt(phase, j) == [j EXCEPT !.phase = phase, !.page = <<>>, !.refused = {}]

InTenant(rows, tenant) == {i \in DOMAIN rows : rows[i].tenant = tenant}
ScopeIds(tenant) == {chunks[i].id : i \in InTenant(chunks, tenant)}

\* load_resume_offset(): the file names neither tenant nor model.
StartReindex ==
    /\ job.phase \notin Reindexing
    /\ reindexRuns < MaxReindexRuns
    /\ reindexRuns' = reindexRuns + 1
    /\ jobOptions' \in ReindexOptions
    /\ LET from == IF jobOptions'.persist THEN offsetFile.offset ELSE 0 IN
       job' = [Halt("page", job) EXCEPT
                 !.offset = from,
                 !.failed = FALSE,
                 !.watched = IF from = 0 THEN ScopeIds(jobOptions'.tenant)
                             ELSE IF offsetFile.tenant = jobOptions'.tenant
                                  THEN offsetFile.watched
                                  ELSE {}]
    /\ UNCHANGED <<chunks, offsetFile, intent, raced, reindexEdits>>

ShouldSkip(row) == jobOptions.mismatch /\ row.model = TargetModel

\* list_chunks_page() of the run's tenant.
NextPage ==
    Page(SelectAt(chunks, InTenant(chunks, jobOptions.tenant)), job.offset, jobOptions.batch)

\* The rows of a page whose texts are to be embedded.
Wanted(page) == SelectAt(page, {n \in DOMAIN page : ~ShouldSkip(page[n])})

\* Faulty variant of ReadPage: a short page is taken for the end.
ReadFullPage ==
    /\ job.phase = "page"
    /\ job' = IF Len(NextPage) < jobOptions.batch
              THEN [job EXCEPT !.phase = "clear"]
              ELSE [job EXCEPT !.phase = "embed", !.page = Wanted(NextPage)]
    /\ UNCHANGED <<chunks, offsetFile, jobOptions, intent, raced, reindexRuns, reindexEdits>>

ReadPage ==
    /\ job.phase = "page"
    /\ job' = IF NextPage = <<>>
              THEN [job EXCEPT !.phase = "clear"]
              ELSE [job EXCEPT !.phase = "embed", !.page = Wanted(NextPage)]
    /\ UNCHANGED <<chunks, offsetFile, jobOptions, intent, raced, reindexRuns, reindexEdits>>

\* The provider refuses some of the texts for good.
EmbedPage ==
    /\ job.phase = "embed"
    /\ \E refused \in SUBSET Ids(job.page) :
         job' = [job EXCEPT !.phase = "store",
                            !.page = SelectAt(@, {n \in DOMAIN @ : @[n].id \notin refused}),
                            !.refused = refused,
                            !.failed = @ \/ refused # {}]
    /\ UNCHANGED <<chunks, offsetFile, jobOptions, intent, raced, reindexRuns, reindexEdits>>

\* Faulty variant of WithModel: the text is left out.
WithModelOnly(row) == [row EXCEPT !.model = TargetModel, !.text = Absent]

WithModel(row) == [row EXCEPT !.model = TargetModel]

\* One transaction with the page as it was read; then the error, before the offset moves.
StorePage ==
    /\ job.phase = "store"
    /\ chunks' = UpsertRows(chunks, [i \in DOMAIN job.page |-> WithModel(job.page[i])])
    /\ job' = IF job.failed /\ ~jobOptions.cont
              THEN Halt("stopped", job)
              ELSE [job EXCEPT !.phase = "save", !.page = <<>>, !.refused = {},
                               !.watched = @ \ job.refused]
    /\ UNCHANGED <<offsetFile, jobOptions, intent, raced, reindexRuns, reindexEdits>>

\* Faulty variant of SaveOffset: the next page is the same again.
SaveSameOffset ==
    /\ job.phase = "save"
    /\ job' = [job EXCEPT !.phase = "page"]
    /\ offsetFile' = IF jobOptions.persist
                     THEN [offset |-> job.offset, watched |-> job.watched,
                           tenant |-> jobOptions.tenant]
                     ELSE offsetFile
    /\ UNCHANGED <<chunks, jobOptions, intent, raced, reindexRuns, reindexEdits>>

SaveOffset ==
    /\ job.phase = "save"
    /\ job' = [job EXCEPT !.phase = "page", !.offset = @ + jobOptions.batch]
    /\ offsetFile' = IF jobOptions.persist
                     THEN [offset |-> job'.offset, watched |-> job.watched,
                           tenant |-> jobOptions.tenant]
                     ELSE offsetFile
    /\ UNCHANGED <<chunks, jobOptions, intent, raced, reindexRuns, reindexEdits>>

ClearOffset ==
    /\ job.phase = "clear"
    /\ job' = Halt("done", job)
    /\ offsetFile' = IF jobOptions.persist THEN NoOffset ELSE offsetFile
    /\ UNCHANGED <<chunks, jobOptions, intent, raced, reindexRuns, reindexEdits>>

\* The provider, the transaction or the file fails, or the process is killed.
StopReindex ==
    /\ job.phase \in Reindexing
    /\ job' = Halt("stopped", job)
    /\ UNCHANGED <<chunks, offsetFile, jobOptions, intent, raced, reindexRuns, reindexEdits>>

Unwatch(ids) ==
    /\ job' = [job EXCEPT !.watched = @ \ ids]
    /\ offsetFile' = [offsetFile EXCEPT !.watched = @ \ ids]

\* Another handle ingests a chunk with the old model.
OthersWrite ==
    /\ reindexEdits < MaxReindexEdits
    /\ reindexEdits' = reindexEdits + 1
    /\ \E id \in ReindexId, tenant \in ReindexTenant, text \in ReindexText :
         /\ chunks' = UpsertRow(chunks, [id |-> id, tenant |-> tenant, text |-> text,
                                         model |-> OldModel])
         /\ intent' = [intent EXCEPT ![id] = text]
         /\ raced' = IF id \in Ids(job.page) THEN raced \cup {id} ELSE raced
         /\ IF id \in Ids(chunks) /\ RowOf(chunks, id).tenant # tenant
            THEN Unwatch(ReindexId)     \* the pages of both tenants shift
            ELSE Unwatch({id})
    /\ UNCHANGED <<jobOptions, reindexRuns>>

\* A deleted row shifts every later page.
OthersRemove ==
    /\ reindexEdits < MaxReindexEdits
    /\ reindexEdits' = reindexEdits + 1
    /\ \E id \in Ids(chunks) :
         /\ chunks' = DropRow(chunks, id)
         /\ intent' = [intent EXCEPT ![id] = Absent]
         /\ raced' = IF id \in Ids(job.page) THEN raced \cup {id} ELSE raced
    /\ Unwatch(ReindexId)
    /\ UNCHANGED <<jobOptions, reindexRuns>>

ReindexInit ==
    /\ chunks \in InitialChunks
    /\ intent = [id \in ReindexId |->
                   IF id \in Ids(chunks) THEN RowOf(chunks, id).text ELSE Absent]
    /\ raced = {}
    /\ offsetFile = NoOffset
    /\ jobOptions = CHOOSE options \in ReindexOptions : TRUE
    /\ job = [phase |-> "stopped", offset |-> 0, page |-> <<>>, refused |-> {},
              failed |-> FALSE, watched |-> {}]
    /\ reindexRuns = 0
    /\ reindexEdits = 0

ReindexStep == ReadPage \/ EmbedPage \/ StorePage \/ SaveOffset \/ ClearOffset

ReindexNext == StartReindex \/ ReindexStep \/ StopReindex \/ OthersWrite \/ OthersRemove

ReindexSpec == ReindexInit /\ [][ReindexNext]_reindexVars

-----------------------------------------------------------------------------
(***************************************************************************)
(* A job that ends well, resumed or not, has given the new model to every  *)
(* chunk it found and nobody else touched, as long as no row was deleted   *)
(* or moved to another tenant and the provider refused none of them.       *)
(***************************************************************************)
ReindexComplete ==
    job.phase = "done" =>
      \A id \in job.watched : RowOf(chunks, id).model = TargetModel

(***************************************************************************)
(* The job writes back whole rows.  It may undo the changes others made to *)
(* the page in its hands, and no others: every other chunk is there exactly*)
(* when they left it there, with the text they gave it.                    *)
(***************************************************************************)
ReindexUndoesOnlyItsPage ==
    \A id \in ReindexId \ raced :
       IF id \in Ids(chunks) THEN RowOf(chunks, id).text = intent[id]
       ELSE intent[id] = Absent
=============================================================================
