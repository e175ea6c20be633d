------------------------------ MODULE JobTable ------------------------------
(***************************************************************************)
(* The chunks table as the maintenance jobs see it: the rows in rowid      *)
(* order.  A new id gets a rowid past the last one, an upsert keeps the    *)
(* rowid, and list_chunks_page (lib.rs) reads by position, not by rowid.   *)
(***************************************************************************)
EXTENDS Selection

Ids(rows) == {rows[i].id : i \in DOMAIN rows}
RowOf(rows, id) == rows[CHOOSE i \in DOMAIN rows : rows[i].id = id]

\* ORDER BY rowid LIMIT limit OFFSET offset, of the rows in scope.
Page(scope, offset, limit) ==
    LET last == IF offset + limit <= Len(scope) THEN offset + limit ELSE Len(scope)
    IN  SubSeq(scope, offset + 1, last)

UpsertRow(rows, row) ==
    IF row.id \in Ids(rows)
    THEN [i \in DOMAIN rows |-> IF rows[i].id = row.id THEN row ELSE rows[i]]
    ELSE Append(rows, row)

\* The rows of a batch, which differ in their ids, one upsert after the other.
UpsertRows(rows, batch) ==
    [i \in DOMAIN rows |-> IF rows[i].id \in Ids(batch) THEN RowOf(batch, rows[i].id) ELSE rows[i]]
      \o SelectAt(batch, {n \in DOMAIN batch : batch[n].id \notin Ids(rows)})

\* An UPDATE by id: nothing if the row is gone.
UpdateRow(rows, row) ==
    [i \in DOMAIN rows |-> IF rows[i].id = row.id THEN row ELSE rows[i]]

DropRow(rows, id) == SelectAt(rows, {i \in DOMAIN rows : rows[i].id # id})
=============================================================================
