------------------------------ MODULE Serving ------------------------------
(***************************************************************************)
(* The parts that serve requests side by side: the vector index in memory, *)
(* its files, searches, the SQL dialect, the catalog of retrieval indexes, *)
(* the measures and faults of a server, and calls with their audit file.   *)
(* Each keeps its own state; `serves' says which one a behaviour is about, *)
(* the others stay as they are.                                            *)
(***************************************************************************)
EXTENDS AnnFiles, Search, SqlDialect, RetrievalIndexes, Operations, AuditedAccess

CONSTANT ServingParts

VARIABLE serves

vars == <<indexVars, annVars, searchVars, sql, catalogVars, operationsVars, accessVars, serves>>

\* A part that does not serve starts in one of its initial states, always the same.
Settled(part, S, x) == x \in S /\ (serves # part => x = CHOOSE y \in S : TRUE)
AStatement == CHOOSE s \in Statements : TRUE

Init ==
    /\ serves \in ServingParts
    /\ IndexInit /\ Settled("index", {NewIndex(k) : k \in IndexKinds}, index)
    /\ AnnInit /\ Settled("files", BOOLEAN, annWal)
    /\ Settled("files", {ClosedAnn(k) : k \in AnnKinds}, annHandle)
    /\ serves # "files" => annTable = {}
    /\ SearchInit /\ Settled("search", SearchTables, rows) /\ Settled("search", Setups, setup)
    /\ CatalogInit /\ OperationsInit
    /\ AccessInit /\ Settled("access", Deployments, deployment)
    /\ DialectInit /\ (serves # "dialect" => sql.text = AStatement.text)

Next ==
    /\ UNCHANGED serves
    /\ \/ /\ serves = "index" /\ IndexNext
          /\ UNCHANGED <<annVars, searchVars, sql, catalogVars, operationsVars, accessVars>>
       \/ /\ serves = "files" /\ AnnNext
          /\ UNCHANGED <<indexVars, searchVars, sql, catalogVars, operationsVars, accessVars>>
       \/ /\ serves = "search" /\ SearchNext
          /\ UNCHANGED <<indexVars, annVars, sql, catalogVars, operationsVars, accessVars>>
       \/ /\ serves = "dialect" /\ DialectNext
          /\ UNCHANGED <<indexVars, annVars, searchVars, catalogVars, operationsVars, accessVars>>
       \/ /\ serves = "catalog" /\ CatalogNext
          /\ UNCHANGED <<indexVars, annVars, searchVars, sql, operationsVars, accessVars>>
       \/ /\ serves = "operations" /\ OperationsNext
          /\ UNCHANGED <<indexVars, annVars, searchVars, sql, catalogVars, accessVars>>
       \/ /\ serves = "access" /\ AccessNext
          /\ UNCHANGED <<indexVars, annVars, searchVars, sql, catalogVars, operationsVars>>

Spec == Init /\ [][Next]_vars
=============================================================================
