-------------------------------- MODULE Jobs --------------------------------
(***************************************************************************)
(* The maintenance jobs side by side: ingestion, document ingest, re-      *)
(* embedding, key rotation, backups, migration.  They share no state but   *)
(* the table format, and a job's failure is its own; `active' says which   *)
(* one a behaviour is about, the others stay as they are.                  *)
(***************************************************************************)
EXTENDS IngestWorker, Chunking, Reindex, KeyRotation, Backups, Migration

CONSTANT ActiveJobs

VARIABLE active

vars == <<ingestVars, chunkingVars, reindexVars, rotationVars, backupVars, migrationVars, active>>

Init ==
    /\ active \in ActiveJobs
    /\ IngestInit /\ ChunkingInit /\ ReindexInit /\ RotationInit /\ BackupInit /\ MigrationInit
    /\ active # "ingest" => source = CHOOSE s \in Source : TRUE

Next ==
    /\ UNCHANGED active
    /\ \/ /\ active = "ingest" /\ IngestNext
          /\ UNCHANGED <<chunkingVars, reindexVars, rotationVars, backupVars, migrationVars>>
       \/ /\ active = "document" /\ ChunkingNext
          /\ UNCHANGED <<ingestVars, reindexVars, rotationVars, backupVars, migrationVars>>
       \/ /\ active = "reindex" /\ ReindexNext
          /\ UNCHANGED <<ingestVars, chunkingVars, rotationVars, backupVars, migrationVars>>
       \/ /\ active = "rotation" /\ RotationNext
          /\ UNCHANGED <<ingestVars, chunkingVars, reindexVars, backupVars, migrationVars>>
       \/ /\ active = "backup" /\ BackupNext
          /\ UNCHANGED <<ingestVars, chunkingVars, reindexVars, rotationVars, migrationVars>>
       \/ /\ active = "migration" /\ MigrationNext
          /\ UNCHANGED <<ingestVars, chunkingVars, reindexVars, rotationVars, backupVars>>

Spec == Init /\ [][Next]_vars /\ WF_ingestVars(IngestStep) /\ WF_reindexVars(ReindexStep)

-----------------------------------------------------------------------------
(***************************************************************************)
(* Whatever the adaptive batch size does, however often the provider       *)
(* refuses texts and others rewrite the table, an ingestion or a           *)
(* re-embedding that is not interrupted comes to its end.                  *)
(***************************************************************************)
JobsEnd ==
    /\ worker.phase \in Working ~> worker.phase \notin Working
    /\ job.phase \in Reindexing ~> job.phase \notin Reindexing
=============================================================================
