-------------------------- MODULE RetrievalIndexes --------------------------
(***************************************************************************)
(* CREATE and DROP VECTOR | TEXT INDEX on the command line                 *)
(* (src/src/main.rs): what the catalog table of the database says when     *)
(* several sessions run such statements, each as a sequence of SQLite      *)
(* statements of its own.                                                  *)
(***************************************************************************)
EXTENDS Integers, Sequences, FiniteSets, SequencesExt

CONSTANTS Sessions,      \* processes with a connection to the database
          DdlStatements, \* token sequences
          Identifiers,   \* tokens of letters, digits and underscores
          Columns,       \* <<table, column>> of the database
          MaxDdl         \* statements

VARIABLES catalog,  \* table retrieval_indexes
          session,  \* each session's statement and how far it is
          reports   \* history: the successes reported, [kind, name, what]

catalogVars == <<catalog, session, reports>>

Kinds == {"VECTOR", "TEXT"}
EngineOf(kind) == IF kind = "VECTOR" THEN "HNSW" ELSE "FTS5"
NoStatement == [phase |-> "idle"]

CatalogInit ==
    /\ catalog = {}
    /\ session = [p \in Sessions |-> NoStatement]
    /\ reports = << >>

-----------------------------------------------------------------------------
(* Parsing: the set of what the tokens can mean, empty for an error.       *)

StartsWith(tokens, i, words) ==
    i + Len(words) - 1 <= Len(tokens) /\ SubSeq(tokens, i, i + Len(words) - 1) = words
Rest(tokens, i) == SubSeq(tokens, i, Len(tokens))

IsDdl(tokens, verb) ==
    Len(tokens) >= 3 /\ tokens[1] = verb /\ tokens[2] \in Kinds /\ tokens[3] = "INDEX"

\* parse_with_options(): key = value, with or without commas between them.
IsOption(t) == Len(t) = 3 /\ t[1] \in Identifiers /\ t[2] = "="
OptionLists(tokens) ==
    LET items == SelectSeq(SubSeq(tokens, 2, Len(tokens) - 1), LAMBDA t : t # ",")
        n == Len(items) \div 3
        pairs == [i \in 1..n |-> SubSeq(items, 3 * i - 2, 3 * i)]
    IN IF /\ Len(tokens) >= 2 /\ tokens[1] = "(" /\ Last(tokens) = ")"
          /\ \A i \in 2..Len(tokens) : tokens[i] = "," => tokens[i - 1] \notin {"(", ","}
          /\ Len(items) = 3 * n /\ \A i \in 1..n : IsOption(pairs[i])
       THEN {{<<pairs[i][1], pairs[i][3]>> :
                 i \in {j \in 1..n : \A l \in (j + 1)..n : pairs[l][1] # pairs[j][1]}}}
       ELSE {}

\* parse_create_retrieval_index_ddl()
Creates(tokens) ==
    LET unless == StartsWith(tokens, 4, <<"IF", "NOT", "EXISTS">>)
        t == Rest(tokens, IF unless THEN 7 ELSE 4)
        options == IF Len(t) = 8 THEN {{}} ELSE IF t[9] = "WITH" THEN OptionLists(Rest(t, 10)) ELSE {}
    IN IF /\ Len(t) >= 8 /\ t[2] = "ON" /\ t[4] = "(" /\ t[6] = ")" /\ t[7] = "USING"
          /\ {t[1], t[3], t[5], t[8]} \subseteq Identifiers
       THEN {[op |-> "create", kind |-> tokens[2], lenient |-> unless, name |-> t[1],
              target |-> <<t[3], t[5]>>, engine |-> t[8], options |-> o] : o \in options}
       ELSE {}

\* parse_drop_retrieval_index_ddl()
Drops(tokens) ==
    LET when == StartsWith(tokens, 4, <<"IF", "EXISTS">>)
        t == Rest(tokens, IF when THEN 6 ELSE 4)
    IN IF Len(t) = 1 /\ t[1] \in Identifiers
       THEN {[op |-> "drop", kind |-> tokens[2], lenient |-> when, name |-> t[1]]}
       ELSE {}

\* validate_retrieval_index_target(), validate_retrieval_index_engine()
Valid(ddl) == ddl.target \in Columns /\ ddl.engine = EngineOf(ddl.kind)

-----------------------------------------------------------------------------
Named(name) == {row \in catalog : row.name = name}
Replies(p, what) ==
    /\ session' = [session EXCEPT ![p] = [phase |-> "idle"]]
    /\ reports' = Append(reports, [name |-> session[p].ddl.name, what |-> what])

\* try_execute_retrieval_index_ddl(): statements that are no DDL, or do not parse, end here.
Issue(p) ==
    /\ session[p].phase = "idle"
    /\ Len(reports) + Cardinality({q \in Sessions : session[q].phase # "idle"}) < MaxDdl
    /\ \E tokens \in DdlStatements :
          LET meant == IF IsDdl(tokens, "CREATE") THEN Creates(tokens)
                       ELSE IF IsDdl(tokens, "DROP") THEN Drops(tokens) ELSE {}
          IN \E ddl \in meant :
                session' = [session EXCEPT ![p] =
                   [phase |-> IF ddl.op = "drop" THEN "drop" ELSE "count", ddl |-> ddl]]
    /\ UNCHANGED <<catalog, reports>>

\* SELECT COUNT(*), after the target and the engine have been found to be right.
CountNamed(p) ==
    /\ session[p].phase = "count"
    /\ LET ddl == session[p].ddl
       IN IF Valid(ddl) /\ Named(ddl.name) = {}
          THEN session' = [session EXCEPT ![p].phase = "insert"] /\ UNCHANGED reports
          ELSE Replies(p, IF Valid(ddl) /\ ddl.lenient THEN "skipped" ELSE "error")
    /\ UNCHANGED catalog

\* Faulty variant of Insertable: INSERT OR REPLACE.
AlwaysInsertable(name) == name \in Identifiers

\* The name is the primary key.
Insertable(name) == Named(name) = {}

InsertRow(p) ==
    /\ session[p].phase = "insert"
    /\ LET ddl == session[p].ddl
           row == [name |-> ddl.name, kind |-> ddl.kind, target |-> ddl.target,
                   options |-> ddl.options]
       IN IF Insertable(ddl.name)
          THEN catalog' = (catalog \ Named(ddl.name)) \cup {row} /\ Replies(p, "created")
          ELSE UNCHANGED catalog /\ Replies(p, "error")

\* DELETE by name and kind.
DropRow(p) ==
    /\ session[p].phase = "drop"
    /\ LET ddl == session[p].ddl
           gone == {row \in Named(ddl.name) : row.kind = ddl.kind}
       IN /\ catalog' = catalog \ gone
          /\ Replies(p, IF gone # {} THEN "dropped" ELSE IF ddl.lenient THEN "skipped" ELSE "error")

CatalogNext == \E p \in Sessions : Issue(p) \/ CountNamed(p) \/ InsertRow(p) \/ DropRow(p)

CatalogSpec == CatalogInit /\ [][CatalogNext]_catalogVars

-----------------------------------------------------------------------------
Reported(name, what) ==
    Cardinality({i \in DOMAIN reports : reports[i].name = name /\ reports[i].what = what})

(***************************************************************************)
(* Whatever sessions create and drop at the same time, their replies add   *)
(* up: an index is in the catalog exactly if one more reply said that it   *)
(* was created than said that it was dropped, and never twice, although    *)
(* each looks before it inserts and the name may be taken in between.      *)
(***************************************************************************)
ReportsAddUp ==
    \A name \in Identifiers :
       Cardinality(Named(name)) = Reported(name, "created") - Reported(name, "dropped")
=============================================================================
