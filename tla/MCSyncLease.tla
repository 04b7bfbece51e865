----------------------------- MODULE MCSyncLease -----------------------------
(* Two pods and one entity.  The fencing run, where the lease may be lost at *)
(* any time anyway, has equal clocks; the timing run has one a unit ahead.   *)
EXTENDS SyncLease, TLC

CONSTANTS p1, p2

NoSkew == (p1 :> 0) @@ (p2 :> 0)
MCSkew == (p1 :> 0) @@ (p2 :> 1)
=============================================================================
