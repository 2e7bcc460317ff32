--------------------------- MODULE MCToolScheduler ---------------------------
(* Small instances of ToolScheduler for TLC: every batch of N calls over    *)
(* the given paths, up to the fields should_depend does not look at.        *)
EXTENDS ToolScheduler, TLC

CONSTANTS p, q, f, g

(* Each path string denotes a file of its own.                              *)
OwnFile == (p :> {f}) @@ (q :> {g})

(* An exclusive call depends on every other whatever its remaining fields   *)
(* are (should_depend).  It is represented by the one that conflicts most:  *)
(* a writer of unknown paths.                                               *)
ExclusiveWritesAll ==
    \A i \in Calls : meta[i].exclusive => ~meta[i].readOnly /\ meta[i].paths = {}

MCInit == Init /\ ExclusiveWritesAll

MCSpec == MCInit /\ [][Next]_vars /\ Fairness
=============================================================================
