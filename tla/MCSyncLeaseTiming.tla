------------------------- MODULE MCSyncLeaseTiming -------------------------
(* The lease of two pods whose clocks differ by a unit.                     *)
EXTENDS MCSyncLease, SyncLeaseTiming
=============================================================================
