--------------------------- MODULE MCSyncRecovery ---------------------------
(* Two regions, so that a job can be cut between them.                      *)
EXTENDS SyncRecovery
=============================================================================
