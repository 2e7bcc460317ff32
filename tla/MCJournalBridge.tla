-------------------------- MODULE MCJournalBridge --------------------------
(* Small instances of JournalBridge for TLC.                                *)
EXTENDS JournalBridge, TLC

(* Submits are interchangeable; liveness runs do not use it.                *)
SubmitSymmetry == Permutations(Submits)
=============================================================================
