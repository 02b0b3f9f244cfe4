----------------------------- MODULE InsertCursor -----------------------------
(***************************************************************************)
(* InsertCursor of driver/src/client.rs: write collects rows, end consumes *)
(* the cursor and sends one INSERT per row.                                *)
(***************************************************************************)
EXTENDS Integers, Sequences

CONSTANT MaxRows \* bound: rows written

ASSUME InsertCursorAssumption == MaxRows \in Nat

VARIABLES
  rows,      \* the rows written, numbered in the order of the writes
  inserting, \* "open", "running", "ok", "error"
  sent,      \* rows whose INSERT has been answered without an error
  table      \* history: the rows the server has inserted

rowsVars == <<rows, inserting, sent, table>>

RowsInit == rows = <<>> /\ inserting = "open" /\ sent = 0 /\ table = <<>>

Write ==
  /\ inserting = "open" /\ Len(rows) < MaxRows
  /\ rows' = Append(rows, Len(rows) + 1)
  /\ UNCHANGED <<inserting, sent, table>>

\* end: without rows there is nothing to send.
EndCursor ==
  /\ inserting = "open"
  /\ inserting' = IF rows = <<>> THEN "ok" ELSE "running"
  /\ UNCHANGED <<rows, sent, table>>

\* One exec.  A failed one may have been carried out; the `?` drops the cursor with the
\* rows that are left.  Mutant: the loop goes on.
InsertRowAnyway ==
  /\ inserting = "running"
  /\ \E done \in BOOLEAN :
       /\ table' = IF done THEN Append(table, rows[sent + 1]) ELSE table
       /\ sent' = sent + 1
       /\ inserting' = IF sent' = Len(rows) THEN "ok" ELSE "running"
  /\ UNCHANGED rows
InsertRow ==
  /\ inserting = "running"
  /\ \E done, answered \in BOOLEAN :
       /\ answered => done
       /\ table' = IF done THEN Append(table, rows[sent + 1]) ELSE table
       /\ sent' = IF answered THEN sent + 1 ELSE sent
       /\ inserting' = IF ~answered THEN "error"
                       ELSE IF sent' = Len(rows) THEN "ok" ELSE "running"
  /\ UNCHANGED rows

RowsNext == Write \/ EndCursor \/ InsertRow

RowsSpec == RowsInit /\ [][RowsNext]_rowsVars

-----------------------------------------------------------------------------
\* What an end that fails leaves in the table is a beginning of what was written,
\* with at most the row whose statement failed after those answered; an end that
\* succeeds has inserted every row, once and in order.
InsertedIsPrefix ==
  /\ Len(table) <= Len(rows) /\ table = SubSeq(rows, 1, Len(table))
  /\ Len(table) \in {sent, sent + 1}
  /\ inserting = "ok" => table = rows

=============================================================================
