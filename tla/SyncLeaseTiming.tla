-------------------------- MODULE SyncLeaseTiming --------------------------
(***************************************************************************)
(* The lease with the heartbeats of each behaviour either sent on time or  *)
(* perhaps late: one graph in which both promises are asked for, the one   *)
(* that needs punctual heartbeats and those that do not.                   *)
(***************************************************************************)
EXTENDS SyncLease

VARIABLE punctual  \* the heartbeats of this behaviour are sent on time

TimedInit == Init /\ punctual \in BOOLEAN
TimedNext == /\ IF punctual THEN PunctualNext ELSE Next
             /\ UNCHANGED punctual
TimedSpec == TimedInit /\ [][TimedNext]_<<vars, punctual>> /\ Fairness

\* OneLiveJob is promised to punctual heartbeats only: a pod whose heartbeat
\* is late runs on while another has taken the lease (syncLeased,
\* startLeaseHeartbeat).
PunctualOneLiveJob == punctual => OneLiveJob

=============================================================================
