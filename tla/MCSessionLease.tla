--------------------------- MODULE MCSessionLease ---------------------------
(* Two processes on one state root: the first with two threads.            *)
EXTENDS SessionLease, TLC

CONSTANTS a1, a2, b1, pa, pb

MCProcessOf == (a1 :> pa) @@ (a2 :> pa) @@ (b1 :> pb)
=============================================================================
