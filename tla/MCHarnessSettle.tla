-------------------------- MODULE MCHarnessSettle --------------------------
(* Small instances of HarnessSettle for TLC; every bound is a constant.     *)
EXTENDS HarnessSettle

(* A new session, and one whose only turn was aborted.                      *)
New == <<>>
AfterAbort == <<Input, Reply("aborted", 0)>>

OnlyNew == {New}
OnlyAborted == {AfterAbort}
=============================================================================
