-------------------------- MODULE MCSessionJournal --------------------------
(* Small instances of SessionJournal for TLC.                               *)
EXTENDS SessionJournal

CONSTANTS i1, i2

\* Both instances may be handed the same id; only the second moves the cursor.
MCIdsOf == [i \in Instances |-> IF i = i1 THEN {1, 5} ELSE {1, 4, 5}]
=============================================================================
