----------------------------- MODULE KeyRotation -----------------------------
(***************************************************************************)
(* Tenant keys and their rotation (security.rs, bin/sqlrite-security.rs).  *)
(* A registry file names the tenant's keys and the active one; adding a    *)
(* key loads the file, changes it and saves it.  A writer that loaded the  *)
(* registry seals the sensitive field of what it ingests with the active   *)
(* key it knows.  A rotation reads the tenant's rows page by page and      *)
(* writes each sealed row back under the new key, one UPDATE per row; it   *)
(* keeps no checkpoint and is run again from the start.                    *)
(*                                                                         *)
(* A sealed field is the key id, the key material that enciphered it and   *)
(* what deciphering with that material gives.  History: `secret' is what   *)
(* writers last gave each row, `rewritten' the rows they wrote while the   *)
(* rotation held an older copy, `spoiled' the key ids whose material was   *)
(* replaced in the file or dropped from it, `calm' whether nobody wrote    *)
(* since the run began.                                                    *)
(***************************************************************************)
EXTENDS JobTable

CONSTANTS
    KeyId, Material, NoKey,
    Adder,              \* add-key commands that may overlap
    SealedId, Secret, Garbage,
    RotationPage,       \* PAGE_SIZE, 256 in the code
    InitialSealed,
    MaxKeyChanges, MaxSealedWrites, MaxRotations

\* What rows may hold: what writers give them and what they had before.
PlainTexts ==
    Secret \cup {Garbage} \cup
    UNION {{table[i].plain : i \in DOMAIN table} : table \in InitialSealed}
SealedRow ==
    [id : SealedId, key : KeyId \cup {NoKey}, with : Material \cup {NoKey}, plain : PlainTexts]

\* Nothing is sealed before there is a key; ids are the table's primary key.
ASSUME RotationAssumption ==
    /\ RotationPage \in Nat \ {0}
    /\ \A table \in InitialSealed :
          /\ table \in Seq(SealedRow)
          /\ \A i, j \in DOMAIN table : table[i].id = table[j].id => i = j
          /\ \A i \in DOMAIN table : table[i].key = NoKey

VARIABLES
    sealedRows,     \* the tenant's rows: [id, key, with, plain]
    registry,       \* the file: [active, keys]
    adder,          \* add-key commands between load and save
    writer,         \* the registry a writer loaded
    rotation,       \* the run
    secret, rewritten, spoiled, calm,
    keyChanges, sealedWrites, rotations

rotationVars == <<sealedRows, registry, adder, writer, rotation, secret, rewritten, spoiled, calm,
                  keyChanges, sealedWrites, rotations>>

EmptyRegistry == [active |-> NoKey, keys |-> [k \in KeyId |-> NoKey]]

Known(reg, key) == key # NoKey /\ reg.keys[key] # NoKey

-----------------------------------------------------------------------------
\* add-key: load_from_json_file(), set_key(), save_to_json_file() of a whole file.
AddKeyLoad(p) ==
    /\ ~adder[p].open
    /\ keyChanges < MaxKeyChanges
    /\ keyChanges' = keyChanges + 1
    /\ adder' = [adder EXCEPT ![p] = [open |-> TRUE, reg |-> registry]]
    /\ UNCHANGED <<sealedRows, registry, writer, rotation, secret, rewritten, spoiled, calm,
                   sealedWrites, rotations>>

SetKey(reg, key, material, makeActive) ==
    [active |-> IF makeActive THEN key ELSE reg.active,
     keys |-> [reg.keys EXCEPT ![key] = material]]

\* The saved file replaces whatever the file says by now.
AddKeySave(p) ==
    /\ adder[p].open
    /\ \E key \in KeyId, material \in Material, makeActive \in BOOLEAN :
         LET saved == SetKey(adder[p].reg, key, material, makeActive) IN
         /\ registry' = saved
         /\ spoiled' = spoiled \cup {k \in KeyId : Known(registry, k)
                                                  /\ saved.keys[k] # registry.keys[k]}
    /\ adder' = [adder EXCEPT ![p].open = FALSE, ![p].reg = EmptyRegistry]
    /\ UNCHANGED <<sealedRows, writer, rotation, secret, rewritten, calm,
                   keyChanges, sealedWrites, rotations>>

WriterLoads ==
    /\ writer' = registry
    /\ UNCHANGED <<sealedRows, registry, adder, rotation, secret, rewritten, spoiled, calm,
                   keyChanges, sealedWrites, rotations>>

-----------------------------------------------------------------------------
\* Faulty variant of Seal: enciphered with the active key, whatever key it names.
SealWithActive(id, reg, key, plain) ==
    [id |-> id, key |-> key, plain |-> plain,
     with |-> IF Known(reg, reg.active) THEN reg.keys[reg.active] ELSE reg.keys[key]]

Seal(id, reg, key, plain) ==
    [id |-> id, key |-> key, with |-> reg.keys[key], plain |-> plain]

\* ingest_chunks_with_encryption(): refused without an active key.
SealedIngest ==
    /\ Known(writer, writer.active)
    /\ sealedWrites < MaxSealedWrites
    /\ sealedWrites' = sealedWrites + 1
    /\ \E id \in SealedId, plain \in Secret :
         /\ sealedRows' = UpsertRow(sealedRows, Seal(id, writer, writer.active, plain))
         /\ secret' = [secret EXCEPT ![id] = plain]
         /\ rewritten' = IF id \in Ids(rotation.page) THEN rewritten \cup {id} ELSE rewritten
    /\ calm' = FALSE
    /\ UNCHANGED <<registry, adder, writer, rotation, spoiled, keyChanges, rotations>>

RemoveSealed ==
    /\ sealedWrites < MaxSealedWrites
    /\ sealedWrites' = sealedWrites + 1
    /\ \E id \in Ids(sealedRows) : sealedRows' = DropRow(sealedRows, id)
    /\ calm' = FALSE
    /\ UNCHANGED <<registry, adder, writer, rotation, secret, rewritten, spoiled,
                   keyChanges, rotations>>

-----------------------------------------------------------------------------
\* inspect: the same loop without the updates.
StartRotation ==
    /\ rotation.phase # "running"
    /\ rotations < MaxRotations
    /\ rotations' = rotations + 1
    /\ \E target \in KeyId, inspect \in BOOLEAN :
         /\ Known(registry, target)
         /\ rotation' = [phase |-> "running", reg |-> registry, target |-> target,
                         inspect |-> inspect, offset |-> 0, page |-> <<>>, at |-> 0,
                         verified |-> TRUE]
    /\ calm' = TRUE
    /\ UNCHANGED <<sealedRows, registry, adder, writer, secret, rewritten, spoiled,
                   keyChanges, sealedWrites>>

\* Faulty variant of RotationReadPage: a row is passed over after every page.
RotationSkipsRow ==
    /\ rotation.phase = "running"
    /\ rotation.at = Len(rotation.page)
    /\ LET offset == rotation.offset + Len(rotation.page)
                       + (IF rotation.page = <<>> THEN 0 ELSE 1)
           page   == Page(sealedRows, offset, RotationPage)
       IN  rotation' = [rotation EXCEPT !.offset = offset, !.page = page, !.at = 0,
                                        !.phase = IF page = <<>> THEN "done" ELSE "running"]
    /\ UNCHANGED <<sealedRows, registry, adder, writer, secret, rewritten, spoiled, calm,
                   keyChanges, sealedWrites, rotations>>

\* The page's rows are done with: the next page, or the report.
RotationReadPage ==
    /\ rotation.phase = "running"
    /\ rotation.at = Len(rotation.page)
    /\ LET offset == rotation.offset + Len(rotation.page)
           page   == Page(sealedRows, offset, RotationPage)
       IN  rotation' = [rotation EXCEPT !.offset = offset, !.page = page, !.at = 0,
                                        !.phase = IF page = <<>> THEN "done" ELSE "running"]
    /\ UNCHANGED <<sealedRows, registry, adder, writer, secret, rewritten, spoiled, calm,
                   keyChanges, sealedWrites, rotations>>

\* Deciphering with other material than the row was sealed with gives garbage or an error.
Opened(row, material) == IF row.with = material THEN row.plain ELSE Garbage

RotateRow ==
    /\ rotation.phase = "running"
    /\ rotation.at < Len(rotation.page)
    /\ LET row == rotation.page[rotation.at + 1]
           next == [rotation EXCEPT !.at = @ + 1]
           \* what is written back: the metadata of the page
           resealed == Seal(row.id, rotation.reg, rotation.target,
                       Opened(row, rotation.reg.keys[row.key]))
       IN  \/ /\ row.key \in {NoKey, rotation.target}
              /\ rotation' = next
              /\ UNCHANGED sealedRows
           \/ /\ row.key \notin {NoKey, rotation.target}
              /\ rotation.inspect
              /\ rotation' = [next EXCEPT !.verified = FALSE]
              /\ UNCHANGED sealedRows
           \/ /\ row.key \notin {NoKey, rotation.target}
              /\ ~rotation.inspect
              /\ Known(rotation.reg, row.key)
              /\ rotation' = next
              /\ sealedRows' = UpdateRow(sealedRows, resealed)
           \/ /\ row.key \notin {NoKey, rotation.target}
              /\ ~rotation.inspect
              /\ ~Known(rotation.reg, row.key) \/ resealed.plain = Garbage
              /\ rotation' = [rotation EXCEPT !.phase = "stopped", !.page = <<>>, !.at = 0]
              /\ UNCHANGED sealedRows
    /\ UNCHANGED <<registry, adder, writer, secret, rewritten, spoiled, calm,
                   keyChanges, sealedWrites, rotations>>

RotationKilled ==
    /\ rotation.phase = "running"
    /\ rotation' = [rotation EXCEPT !.phase = "stopped", !.page = <<>>, !.at = 0]
    /\ UNCHANGED <<sealedRows, registry, adder, writer, secret, rewritten, spoiled, calm,
                   keyChanges, sealedWrites, rotations>>

RotationInit ==
    /\ sealedRows \in InitialSealed
    /\ registry = EmptyRegistry
    /\ adder = [p \in Adder |-> [open |-> FALSE, reg |-> EmptyRegistry]]
    /\ writer = EmptyRegistry
    /\ rotation = [phase |-> "stopped", reg |-> EmptyRegistry, target |-> NoKey,
                   inspect |-> FALSE, offset |-> 0, page |-> <<>>, at |-> 0, verified |-> FALSE]
    /\ secret = [id \in SealedId |-> IF id \in Ids(sealedRows) THEN RowOf(sealedRows, id).plain
                                     ELSE Garbage]
    /\ rewritten = {}
    /\ spoiled = {}
    /\ calm = TRUE
    /\ keyChanges = 0
    /\ sealedWrites = 0
    /\ rotations = 0

RotationNext ==
    \/ \E p \in Adder : AddKeyLoad(p) \/ AddKeySave(p)
    \/ WriterLoads \/ SealedIngest \/ RemoveSealed
    \/ StartRotation \/ RotationReadPage \/ RotateRow \/ RotationKilled

RotationSpec == RotationInit /\ [][RotationNext]_rotationVars

-----------------------------------------------------------------------------
(***************************************************************************)
(* Whatever rotations did to a row, stopped half-way or not, the registry  *)
(* file opens it to what its writer gave it, unless its key was replaced   *)
(* in the file or lost from it, or the writer raced with the rotation.     *)
(***************************************************************************)
SecretsStayReadable ==
    spoiled = {} =>
      \A i \in DOMAIN sealedRows :
        LET row == sealedRows[i] IN
        row.id \notin rewritten =>
          IF row.key = NoKey THEN row.plain = secret[row.id]
          ELSE Known(registry, row.key)
               /\ Opened(row, registry.keys[row.key]) = secret[row.id]

(***************************************************************************)
(* verified_all_target_key, of a rotation or of an inspection, is about    *)
(* every sealed row of the tenant, if nobody wrote while it ran.           *)
(***************************************************************************)
VerifiedMeansRotated ==
    rotation.phase = "done" /\ rotation.verified /\ calm =>
      \A i \in DOMAIN sealedRows : sealedRows[i].key \in {NoKey, rotation.target}
=============================================================================
