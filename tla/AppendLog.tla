------------------------------ MODULE AppendLog ------------------------------
(***************************************************************************)
(* What a session journal promises to those who write and read it          *)
(* (manox-harness/src/core/session/jsonl.rs): one log of rows, each row    *)
(* parented on the cursor its predecessor left, that only grows at its end *)
(* and keeps every row whose append returned Ok.                           *)
(*                                                                         *)
(* The promise ends when the file is removed by a user or carries a        *)
(* corrupt line; `broken' says so.  SessionJournal implements this         *)
(* specification with any number of storage instances over one file.       *)
(***************************************************************************)
EXTENDS Sequences, Naturals

CONSTANTS
  NoRow        \* the parent of a root row, the cursor of an empty journal

VARIABLES
  log,         \* the rows a fresh reader of the journal sees, in chain order
  acked,       \* ids of the rows whose append returned Ok and that are durable
  broken       \* the file was removed or has a corrupt line

logVars == <<log, acked, broken>>

RowIds(rows) == {rows[k].id : k \in DOMAIN rows}

\* leaf_cursor_after of the last row: where the next row hangs.
Cursor(rows) == IF rows = <<>> THEN NoRow ELSE rows[Len(rows)].target

\* Each row hangs where its predecessor left the cursor.
Chained(rows) ==
  \A k \in DOMAIN rows : rows[k].parent = Cursor(SubSeq(rows, 1, k - 1))

\* An id names one row.
UniqueIds(rows) ==
  \A j, k \in DOMAIN rows : rows[j].id = rows[k].id => j = k

Extends(longer, rows) ==
  /\ Len(rows) =< Len(longer)
  /\ SubSeq(longer, 1, Len(rows)) = rows

LogInit ==
  /\ Chained(log)
  /\ UniqueIds(log)
  /\ acked \subseteq RowIds(log)
  /\ broken = FALSE

\* Appends reach the log: one row, or the buffered rows of a session that
\* materializes.  Rows may be acknowledged in the same step or later.
Grow ==
  /\ ~broken /\ ~broken'
  /\ \E rows \in {log'} :
       /\ Extends(rows, log)
       /\ Chained(rows)
       /\ UniqueIds(rows)
       /\ acked' \subseteq RowIds(rows)
  /\ acked \subseteq acked'

\* The file is removed or corrupted: nothing is promised from here on.
Break == broken'

LogSpec == LogInit /\ [][Grow \/ Break]_logVars
=============================================================================
