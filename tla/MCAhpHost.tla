----------------------------- MODULE MCAhpHost -----------------------------
(* Small instances of AhpHost for TLC.                                      *)
EXTENDS AhpHost
=============================================================================
