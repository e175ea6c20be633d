------------------------------- MODULE Backups -------------------------------
(***************************************************************************)
(* Snapshots, their catalog, restore and prune (ops.rs).  A snapshot is    *)
(* stamped, copied with VACUUM INTO, opened once to verify it, and then    *)
(* named in an append-only catalog; any of these steps may be the last     *)
(* before a kill.  Meanwhile the database commits, snapshots are pruned or *)
(* removed by hand, and one is restored over a destination.                *)
(*                                                                         *)
(* A database is the number of commits it holds; the file of a snapshot is *)
(* named by its stamp.  History: `commitTimes' is when each commit was     *)
(* made, `emptied' the snapshots that a restore created by opening a file  *)
(* that was gone.                                                          *)
(***************************************************************************)
EXTENDS Naturals, Sequences, FiniteSets

CONSTANTS
    Retentions,
    MaxClock, MaxCommits, MaxSnapshots,
    MaxInterventions    \* prunes, removals by hand and restores

ASSUME BackupAssumption == Retentions \subseteq Nat /\ MaxCommits \in Nat

VARIABLES
    clock,
    commitTimes,
    files,      \* stamp |-> [has, whole, modified] of the snapshots on disk
    catalog,    \* the lines of the catalog: [stamp, good, ended]
    maker,      \* the snapshot being made
    dest,       \* the destination of restores: its database and a leftover -wal
    restore,
    emptied,
    interventions

backupVars == <<clock, commitTimes, files, catalog, maker, dest, restore, emptied, interventions>>

Gone == MaxCommits + 1      \* no database file

-----------------------------------------------------------------------------
\* list_backup_snapshots(): one bad line fails the listing; an empty catalog is replaced
\* by the files, stamped with their modification times.
ListingFails == \E i \in DOMAIN catalog : ~catalog[i].good

Listed ==
    IF catalog # <<>>
    THEN {[stamp |-> catalog[i].stamp, path |-> catalog[i].stamp] : i \in DOMAIN catalog}
    ELSE {[stamp |-> files[p].modified, path |-> p] : p \in DOMAIN files}

Restorable(target) == {r \in Listed : r.stamp <= target /\ r.path \in DOMAIN files}

\* select_backup_snapshot_for_time(), one of those with the greatest stamp.
Selectable(target) ==
    {r \in Restorable(target) : \A q \in Restorable(target) : q.stamp <= r.stamp}

-----------------------------------------------------------------------------
Tick == /\ clock < MaxClock
        /\ clock' = clock + 1
        /\ UNCHANGED <<commitTimes, files, catalog, maker, dest, restore, emptied, interventions>>

Commit == /\ Len(commitTimes) < MaxCommits
          /\ commitTimes' = Append(commitTimes, clock)
          /\ UNCHANGED <<clock, files, catalog, maker, dest, restore, emptied, interventions>>

StampSnapshot ==
    /\ maker.phase = "idle"
    /\ maker.made < MaxSnapshots
    /\ maker' = [phase |-> "copy", stamp |-> clock, made |-> maker.made + 1]
    /\ UNCHANGED <<clock, commitTimes, files, catalog, dest, restore, emptied, interventions>>

MakerStops == maker' = [maker EXCEPT !.phase = "idle"]

WithFile(path, has, whole) ==
    [p \in DOMAIN files \cup {path} |->
       IF p = path THEN [has |-> has, whole |-> whole, modified |-> clock] ELSE files[p]]

\* VACUUM INTO refuses a file that is there; a kill leaves a part of one.
CopySnapshot ==
    /\ maker.phase = "copy"
    /\ \/ /\ maker.stamp \in DOMAIN files
          /\ MakerStops
          /\ UNCHANGED files
       \/ /\ maker.stamp \notin DOMAIN files
          /\ maker' = [maker EXCEPT !.phase = "verify"]
          /\ files' = WithFile(maker.stamp, Len(commitTimes), TRUE)
       \/ /\ maker.stamp \notin DOMAIN files
          /\ MakerStops
          /\ files' = WithFile(maker.stamp, Len(commitTimes), FALSE)
    /\ UNCHANGED <<clock, commitTimes, catalog, dest, restore, emptied, interventions>>

\* Opening the copy changes it: the journal mode and the schema version are written.
VerifySnapshot ==
    /\ maker.phase = "verify"
    /\ IF maker.stamp \in DOMAIN files
       THEN /\ files' = [files EXCEPT ![maker.stamp].modified = clock]
            /\ UNCHANGED emptied
       ELSE /\ files' = WithFile(maker.stamp, 0, TRUE)
            /\ emptied' = emptied \cup {maker.stamp}
    /\ maker' = [maker EXCEPT !.phase = "record"]
    /\ UNCHANGED <<clock, commitTimes, catalog, dest, restore, interventions>>

\* The record goes to the end of the file, on the line of the last one if that has no end.
AppendRecord ==
    /\ maker.phase = "record"
    /\ LET line == [stamp |-> maker.stamp, good |-> TRUE, ended |-> FALSE]
           n    == Len(catalog)
       IN  catalog' = IF n > 0 /\ ~catalog[n].ended
                      THEN [catalog EXCEPT ![n].good = FALSE]
                      ELSE Append(catalog, line)
    /\ maker' = [maker EXCEPT !.phase = "newline"]
    /\ UNCHANGED <<clock, commitTimes, files, dest, restore, emptied, interventions>>

AppendNewline ==
    /\ maker.phase = "newline"
    /\ catalog' = [catalog EXCEPT ![Len(catalog)].ended = TRUE]
    /\ MakerStops
    /\ UNCHANGED <<clock, commitTimes, files, dest, restore, emptied, interventions>>

MakerKilled ==
    /\ maker.phase # "idle"
    /\ MakerStops
    /\ UNCHANGED <<clock, commitTimes, files, catalog, dest, restore, emptied, interventions>>

-----------------------------------------------------------------------------
Intervene ==
    /\ interventions < MaxInterventions
    /\ interventions' = interventions + 1

Without(paths) == [p \in DOMAIN files \ paths |-> files[p]]

Cutoff(retention) == IF clock > retention THEN clock - retention ELSE 0

NewestListed == {r \in Listed : \A q \in Listed : q.stamp <= r.stamp}

\* Faulty variant of Expired: a snapshot exactly as old as the retention goes too.
ExpiredAtCutoff(retention, first) ==
    {r.path : r \in {q \in Listed : q # first /\ q.stamp <= Cutoff(retention)}}

\* The record at index 0 is kept whether or not its file is there.
Expired(retention, first) ==
    {r.path : r \in {q \in Listed : q # first /\ q.stamp < Cutoff(retention)}}

\* A kill stops the removals half-way.
Prune(retention) ==
    /\ Intervene
    /\ ~ListingFails
    /\ \E first \in NewestListed : \E removed \in SUBSET Expired(retention, first) :
         files' = Without(removed)
    /\ UNCHANGED <<clock, commitTimes, catalog, maker, dest, restore, emptied>>

RemoveByHand ==
    /\ Intervene
    /\ \E path \in DOMAIN files : files' = Without({path})
    /\ UNCHANGED <<clock, commitTimes, catalog, maker, dest, restore, emptied>>

-----------------------------------------------------------------------------
BeginRestore ==
    /\ Intervene
    /\ restore.phase # "remove" /\ restore.phase # "copy"
    /\ ~ListingFails
    /\ \E target \in 0..clock : \E r \in Selectable(target) :
         restore' = [phase |-> "remove", path |-> r.path, stamp |-> r.stamp,
                     listed |-> catalog # <<>>]
    /\ UNCHANGED <<clock, commitTimes, files, catalog, maker, dest, emptied>>

\* Faulty variant of RemoveDestination: the -wal stays.
RemoveMainFileOnly ==
    /\ restore.phase = "remove"
    /\ dest' = [dest EXCEPT !.db = Gone]
    /\ restore' = [restore EXCEPT !.phase = "copy"]
    /\ UNCHANGED <<clock, commitTimes, files, catalog, maker, emptied, interventions>>

\* remove_db_with_sidecars(): one file after the other, a kill between leaves the -wal.
RemoveDestination ==
    /\ restore.phase = "remove"
    /\ \/ /\ dest' = [db |-> Gone, wal |-> FALSE]
          /\ restore' = [restore EXCEPT !.phase = "copy"]
       \/ /\ dest' = [dest EXCEPT !.db = Gone]
          /\ restore' = [restore EXCEPT !.phase = "stopped"]
    /\ UNCHANGED <<clock, commitTimes, files, catalog, maker, emptied, interventions>>

\* Connection::open() makes an empty database of a snapshot that has gone meanwhile; a torn
\* one cannot be copied.
CopyBack ==
    /\ restore.phase = "copy"
    /\ LET missing == restore.path \notin DOMAIN files IN
       \/ /\ missing
          /\ files' = WithFile(restore.path, 0, TRUE)
          /\ emptied' = emptied \cup {restore.path}
          /\ dest' = [dest EXCEPT !.db = 0]
          /\ restore' = [restore EXCEPT !.phase = "done"]
       \/ /\ ~missing
          /\ UNCHANGED <<files, emptied>>
          /\ IF files[restore.path].whole
             THEN /\ dest' = [dest EXCEPT !.db = files[restore.path].has]
                  /\ restore' = [restore EXCEPT !.phase = "done"]
             ELSE /\ restore' = [restore EXCEPT !.phase = "stopped"]
                  /\ UNCHANGED dest
    /\ UNCHANGED <<clock, commitTimes, catalog, maker, interventions>>

\* Somebody uses the destination again.
UseDestination ==
    /\ restore.phase \in {"stopped", "done"}
    /\ dest' = [db |-> 0, wal |-> TRUE]
    /\ restore' = [restore EXCEPT !.phase = "stopped"]
    /\ UNCHANGED <<clock, commitTimes, files, catalog, maker, emptied, interventions>>

BackupInit ==
    /\ clock = 0
    /\ commitTimes = <<>>
    /\ files = [p \in {} |-> [has |-> 0, whole |-> TRUE, modified |-> 0]]
    /\ catalog = <<>>
    /\ maker = [phase |-> "idle", stamp |-> 0, made |-> 0]
    /\ dest = [db |-> 0, wal |-> TRUE]
    /\ restore = [phase |-> "stopped", path |-> 0, stamp |-> 0, listed |-> FALSE]
    /\ emptied = {}
    /\ interventions = 0

BackupNext ==
    \/ Tick \/ Commit
    \/ StampSnapshot \/ CopySnapshot \/ VerifySnapshot \/ AppendRecord \/ AppendNewline
    \/ MakerKilled
    \/ \E retention \in Retentions : Prune(retention)
    \/ RemoveByHand
    \/ BeginRestore \/ RemoveDestination \/ CopyBack \/ UseDestination

BackupSpec == BackupInit /\ [][BackupNext]_backupVars

-----------------------------------------------------------------------------
(***************************************************************************)
(* A point-in-time restore from the catalog that ends well gives a whole   *)
(* database that holds every commit made before the snapshot's stamp, and  *)
(* nothing of the destination it replaced, unless the snapshot's file was  *)
(* removed after it was chosen.                                            *)
(***************************************************************************)
RestoredHoldsItsPast ==
    restore.phase = "done" /\ restore.listed /\ restore.path \notin emptied =>
      /\ \A i \in DOMAIN commitTimes : commitTimes[i] < restore.stamp => i <= dest.db
      /\ ~dest.wal

(***************************************************************************)
(* Pruning, stopped half-way or not, changes no point-in-time choice that  *)
(* falls on a snapshot within the retention, nor the newest one while the  *)
(* newest that is listed is there.                                         *)
(***************************************************************************)
PruneKeepsWindow ==
    [][\A retention \in Retentions : Prune(retention) =>
         /\ \A target \in 0..clock : \A r \in Selectable(target) :
              r.stamp >= Cutoff(retention) => r \in Selectable(target)'
         /\ (\E r \in Selectable(clock) : r \in NewestListed) => Selectable(clock)' # {}]_backupVars
=============================================================================
