------------------------------ MODULE SyncLease ------------------------------
(***************************************************************************)
(* Cross-pod ownership of a master-data sync: the lease row, the heartbeat *)
(* of the running job, and the fenced transactions the job writes with     *)
(* (internal/repository/master_data_sync_lease_repository.go, syncLeased   *)
(* and startLeaseHeartbeat of the sync usecase, inFencedTx of the store    *)
(* and Save of the status repository).                                     *)
(*                                                                         *)
(* A Pod is one process incarnation: the holder name in the lease is host  *)
(* name plus boot time, so a restarted process is another member of Pod.   *)
(*                                                                         *)
(* Time is kept relative to the present: lease.left is expires_at minus    *)
(* the true time, Skew[p] is how far p's clock runs ahead of it, so p      *)
(* finds the lease expired when lease.left <= Skew[p].  Tick lets one unit *)
(* of time pass.  Below Floor every clock agrees that the lease has        *)
(* expired, and left stays there.                                          *)
(*                                                                         *)
(* A transaction is a session of the database, which outlives the client:  *)
(* a client that crashed or gave up leaves its session to be rolled back,  *)
(* or committed if COMMIT was already on its way.                          *)
(***************************************************************************)
EXTENDS Integers, FiniteSets

CONSTANTS
  Pod,            \* process incarnations that may sync
  None,           \* no holder: the lease row does not exist yet
  Entity,         \* entities of the master-data store
  StatusLog,      \* the sync status history, the other fenced target
  TTL,            \* lease duration
  Beat,           \* heartbeat interval
  Skew,           \* per pod, its clock minus the true time
  Floor,          \* at or below this every pod finds the lease expired
  MaxToken,       \* bound: acquisitions
  MaxLate,        \* bound: statements in flight whose caller gave up
  MaxSessions     \* bound: open database sessions

ASSUME LeaseAssumption ==
  /\ None \notin Pod
  /\ StatusLog \notin Entity
  /\ TTL \in Nat \ {0} /\ Beat \in Nat \ {0}
  /\ Skew \in [Pod -> Int] /\ Floor \in Int
  /\ \A p \in Pod : Floor <= Skew[p]
  /\ MaxToken \in Nat /\ MaxLate \in Nat /\ MaxSessions \in Nat

Target == Entity \cup {StatusLog}

Session == [pod: Pod, token: Nat, target: Target,
            phase: {"open", "written", "locked"}, attached: BOOLEAN]

Statement == [kind: {"acquire", "renew", "release"}, pod: Pod, at: Int]

VARIABLES
  lease,      \* the row of master_data_sync_leases: holder, token, left
  pc,         \* where each process is in syncLeased
  claim,      \* the token its job's context carries (0: no job)
  cur,        \* currentLeaseToken, stamped on status writes
  jobCtx,     \* the job context: live or canceled
  beat,       \* time to the next heartbeat, Off when the goroutine ended
  sessions,   \* database sessions of fenced transactions
  late,       \* statements whose caller gave up but which may still execute
  committed   \* per target, the token of the last committed write

podVars == <<pc, claim, cur, jobCtx, beat>>
vars == <<lease, podVars, sessions, late, committed>>

Off == -1

Init ==
  /\ lease = [holder |-> None, token |-> 0, left |-> Floor]
  /\ pc = [p \in Pod |-> "idle"]
  /\ claim = [p \in Pod |-> 0]
  /\ cur = [p \in Pod |-> 0]
  /\ jobCtx = [p \in Pod |-> "canceled"]
  /\ beat = [p \in Pod |-> Off]
  /\ sessions = {}
  /\ late = {}
  /\ committed = [t \in Target |-> 0]

(***************************************************************************)
(* The lease row.  An UPDATE of it waits while a transaction holds it FOR  *)
(* SHARE (a data write past its final check) or FOR UPDATE (a status       *)
(* write).  The statements compare and set with the caller's clock, taken  *)
(* when the statement was built.                                           *)
(***************************************************************************)
RowHeldBy(T) == \E s \in sessions : s.phase = "locked" /\ s.target \in T
RowFree == ~RowHeldBy(Target)

\* A pod's clock, as a time relative to now.
Clock(p) == Skew[p]

Clamp(left) == IF left < Floor THEN Floor ELSE left

\* WHERE expires_at <= now.  Below Floor the exact difference is forgotten.
Acquirable(at) ==
  /\ lease.left <= at \/ lease.left = Floor
  /\ lease.token < MaxToken

\* Mutant: a takeover moves the token and the expiry and forgets the holder.
AcquiredByStranger(p, at) ==
  [lease EXCEPT !.token = @ + 1, !.left = Clamp(at + TTL)]

AcquiredBy(p, at) ==
  [holder |-> p, token |-> lease.token + 1, left |-> Clamp(at + TTL)]

\* Mutant: a renewal does not move the expiry.
RenewedNothing(at) == lease

\* Renew and Release match the row by holder alone: neither looks at the
\* token or at the expiry.
RenewedAt(at)  == [lease EXCEPT !.left = Clamp(at + TTL)]
ReleasedAt(at) == [lease EXCEPT !.left = Clamp(at)]

\* The caller's context ended before the reply: the statement is still on
\* its way to the database and may execute later.
GiveUp(p, kind) ==
  \/ late' = late
  \/ /\ Cardinality(late) < MaxLate
     /\ late' = late \cup {[kind |-> kind, pod |-> p, at |-> Clock(p)]}

(***************************************************************************)
(* Acquire: insert the row or take over an expired one, with the next      *)
(* token, in one statement; on success the job context carries the token,  *)
(* currentLeaseToken is stored and the heartbeat starts.  When the lease   *)
(* is held the job is refused (ErrSyncLeaseHeld) and nothing changes.      *)
(***************************************************************************)
Acquire(p) ==
  /\ pc[p] = "idle"
  /\ RowFree
  /\ Acquirable(Clock(p))
  /\ lease' = AcquiredBy(p, Clock(p))
  /\ pc' = [pc EXCEPT ![p] = "running"]
  /\ claim' = [claim EXCEPT ![p] = lease.token + 1]
  /\ cur' = [cur EXCEPT ![p] = lease.token + 1]
  /\ jobCtx' = [jobCtx EXCEPT ![p] = "live"]
  /\ beat' = [beat EXCEPT ![p] = Beat]
  /\ UNCHANGED <<sessions, late, committed>>

\* Acquire returns an error: the job does not run, whatever the statement
\* does at the database.
AcquireError(p) ==
  /\ pc[p] = "idle"
  /\ GiveUp(p, "acquire")
  /\ UNCHANGED <<lease, podVars, sessions, committed>>

(***************************************************************************)
(* The heartbeat goroutine.  The select between the job context and the    *)
(* ticker picks either when both are ready, so a renewal can still be sent *)
(* after the job was cancelled.  Any renewal error cancels the job.        *)
(***************************************************************************)
RenewDue(p) == beat[p] = 0

\* Mutant: the heartbeat ends and leaves the job running.
LoseLeaseQuietly(p) ==
  /\ beat' = [beat EXCEPT ![p] = Off]
  /\ UNCHANGED jobCtx

LoseLease(p) ==
  /\ jobCtx' = [jobCtx EXCEPT ![p] = "canceled"]
  /\ beat' = [beat EXCEPT ![p] = Off]

RenewOk(p) ==
  /\ RenewDue(p)
  /\ RowFree
  /\ lease.holder = p
  /\ lease' = RenewedAt(Clock(p))
  /\ beat' = [beat EXCEPT ![p] = Beat]
  /\ UNCHANGED <<pc, claim, cur, jobCtx, sessions, late, committed>>

\* Renew matched no row: ErrSyncLeaseLost.
RenewLost(p) ==
  /\ RenewDue(p)
  /\ RowFree
  /\ lease.holder # p
  /\ LoseLease(p)
  /\ UNCHANGED <<lease, pc, claim, cur, sessions, late, committed>>

\* The database did not answer within the renewal's five seconds.
RenewError(p) ==
  /\ RenewDue(p)
  /\ LoseLease(p)
  /\ GiveUp(p, "renew")
  /\ UNCHANGED <<lease, pc, claim, cur, sessions, committed>>

HeartbeatStop(p) ==
  /\ beat[p] # Off
  /\ jobCtx[p] = "canceled"
  /\ beat' = [beat EXCEPT ![p] = Off]
  /\ UNCHANGED <<lease, pc, claim, cur, jobCtx, sessions, late, committed>>

\* Graceful shutdown, or the job timeout, ends the job context.
CancelJob(p) ==
  /\ pc[p] = "running"
  /\ jobCtx[p] = "live"
  /\ jobCtx' = [jobCtx EXCEPT ![p] = "canceled"]
  /\ UNCHANGED <<lease, pc, claim, cur, beat, sessions, late, committed>>

(***************************************************************************)
(* Fenced transactions of the running job.                                 *)
(***************************************************************************)
AttachedTo(p) == {s \in sessions : s.pod = p /\ s.attached}

MayOpen(p, t) ==
  /\ pc[p] = "running"
  /\ Cardinality(sessions) < MaxSessions
  /\ \A s \in AttachedTo(p) : s.target # t

Open(p, t, token, phase) ==
  sessions' = sessions \cup {[pod |-> p, token |-> token, target |-> t,
                              phase |-> phase, attached |-> TRUE]}

\* inFencedTx, first check: the row is read without a lock; a token that is
\* no longer current ends the transaction here (ErrFencedOut, no change).
OpenData(p, e) ==
  /\ MayOpen(p, e)
  /\ jobCtx[p] = "live"
  /\ lease.token = claim[p]
  /\ Open(p, e, claim[p], "open")
  /\ UNCHANGED <<lease, podVars, late, committed>>

\* Mutant: Save does not compare its token with the lease's.
OpenStatusUnfenced(p) ==
  /\ MayOpen(p, StatusLog)
  /\ RowFree
  /\ Open(p, StatusLog, cur[p], "locked")
  /\ UNCHANGED <<lease, podVars, late, committed>>

\* Save begins a transaction and locks the lease row FOR UPDATE in it; a
\* token older than the lease's is rejected (ErrFencedOut, no change).  The
\* save uses the job context, or a fresh one when that has ended.
OpenStatus(p) ==
  /\ MayOpen(p, StatusLog)
  /\ RowFree
  /\ ~(cur[p] > 0 /\ cur[p] < lease.token)
  /\ Open(p, StatusLog, cur[p], "locked")
  /\ UNCHANGED <<lease, podVars, late, committed>>

MoveSession(s, phase) ==
  sessions' = (sessions \ {s}) \cup {[s EXCEPT !.phase = phase]}

\* The callback has written the entity's rows and holds their locks: a
\* second writer of the entity waits for this transaction to end.
WriteRows(s) ==
  /\ s.phase = "open" /\ s.attached
  /\ \A o \in sessions : o.target = s.target => o.phase = "open"
  /\ MoveSession(s, "written")
  /\ UNCHANGED <<lease, podVars, late, committed>>

\* Mutant: the final check locks the row and does not read the token.
ValidateUnread(s) ==
  /\ s.phase = "written" /\ s.attached
  /\ ~RowHeldBy({StatusLog})
  /\ MoveSession(s, "locked")
  /\ UNCHANGED <<lease, podVars, late, committed>>

\* inFencedTx, final check: the row is locked FOR SHARE (which waits for a
\* status write's FOR UPDATE) and must still hold this token.
Validate(s) ==
  /\ s.phase = "written" /\ s.attached
  /\ ~RowHeldBy({StatusLog})
  /\ lease.token = s.token
  /\ MoveSession(s, "locked")
  /\ UNCHANGED <<lease, podVars, late, committed>>

Commit(s) ==
  /\ s.phase = "locked"
  /\ sessions' = sessions \ {s}
  /\ committed' = [committed EXCEPT ![s.target] = s.token]
  /\ UNCHANGED <<lease, podVars, late>>

\* ErrFencedOut at the final check, a failed statement, or the server's
\* rollback of a session whose client has gone.
Rollback(s) ==
  /\ sessions' = sessions \ {s}
  /\ UNCHANGED <<lease, podVars, late, committed>>

\* The client stops waiting: the context it used has ended.  A data write
\* uses the job context; a status write has a time budget of its own.
Detach(s) ==
  /\ s.attached
  /\ jobCtx[s.pod] = "canceled" \/ s.target = StatusLog
  /\ sessions' = (sessions \ {s}) \cup {[s EXCEPT !.attached = FALSE]}
  /\ UNCHANGED <<lease, podVars, late, committed>>

(***************************************************************************)
(* The end of the job: every worker has returned, the context is           *)
(* cancelled, the heartbeat is waited for, then the token is reset and the *)
(* lease released.  A failed release is only logged.                       *)
(***************************************************************************)
FinishJob(p) ==
  /\ pc[p] = "running"
  /\ AttachedTo(p) = {}
  /\ pc' = [pc EXCEPT ![p] = "stopping"]
  /\ jobCtx' = [jobCtx EXCEPT ![p] = "canceled"]
  /\ UNCHANGED <<lease, claim, cur, beat, sessions, late, committed>>

Released(p) ==
  /\ pc[p] = "stopping"
  /\ beat[p] = Off
  /\ pc' = [pc EXCEPT ![p] = "idle"]
  /\ claim' = [claim EXCEPT ![p] = 0]
  /\ cur' = [cur EXCEPT ![p] = 0]

Release(p) ==
  /\ Released(p)
  /\ RowFree
  /\ lease' = IF lease.holder = p THEN ReleasedAt(Clock(p)) ELSE lease
  /\ UNCHANGED <<jobCtx, beat, sessions, late, committed>>

ReleaseError(p) ==
  /\ Released(p)
  /\ GiveUp(p, "release")
  /\ UNCHANGED <<lease, jobCtx, beat, sessions, committed>>

(***************************************************************************)
(* The environment.                                                        *)
(***************************************************************************)
\* Mutant: the renewals go on without the job.
CrashKeepsBeating(p) ==
  /\ pc[p] # "dead"
  /\ pc' = [pc EXCEPT ![p] = "dead"]
  /\ UNCHANGED <<lease, claim, cur, jobCtx, beat, sessions, late, committed>>

Crash(p) ==
  /\ pc[p] # "dead"
  /\ pc' = [pc EXCEPT ![p] = "dead"]
  /\ claim' = [claim EXCEPT ![p] = 0]
  /\ cur' = [cur EXCEPT ![p] = 0]
  /\ jobCtx' = [jobCtx EXCEPT ![p] = "canceled"]
  /\ beat' = [beat EXCEPT ![p] = Off]
  /\ sessions' = {IF s.pod = p THEN [s EXCEPT !.attached = FALSE] ELSE s :
                    s \in sessions}
  /\ UNCHANGED <<lease, late, committed>>

\* A statement whose caller gave up executes after all, with the clock value
\* it was built with, or finds that its WHERE no longer matches.
LateStatement(m) ==
  /\ RowFree
  /\ late' = late \ {m}
  /\ \/ /\ m.kind = "acquire"
        /\ Acquirable(m.at)
        /\ lease' = AcquiredBy(m.pod, m.at)
     \/ /\ m.kind = "renew" /\ lease.holder = m.pod
        /\ lease' = RenewedAt(m.at)
     \/ /\ m.kind = "release" /\ lease.holder = m.pod
        /\ lease' = ReleasedAt(m.at)
     \/ lease' = lease
  /\ UNCHANGED <<podVars, sessions, committed>>

\* Mutant: the countdown of a stopped heartbeat goes on.
TickEverywhere ==
  /\ lease' = [lease EXCEPT !.left = Clamp(@ - 1)]
  /\ beat' = [p \in Pod |-> IF beat[p] # 0 THEN beat[p] - 1 ELSE 0]
  /\ UNCHANGED <<pc, claim, cur, jobCtx, sessions, late, committed>>

Tick ==
  /\ lease' = [lease EXCEPT !.left = Clamp(@ - 1)]
  /\ beat' = [p \in Pod |-> IF beat[p] > 0 THEN beat[p] - 1 ELSE beat[p]]
  /\ late' = {[m EXCEPT !.at = IF @ > Floor - TTL THEN @ - 1 ELSE @] : m \in late}
  /\ UNCHANGED <<pc, claim, cur, jobCtx, sessions, committed>>

Coordination(p) ==
  \/ Acquire(p) \/ AcquireError(p)
  \/ RenewOk(p) \/ RenewLost(p) \/ RenewError(p)
  \/ HeartbeatStop(p) \/ CancelJob(p)
  \/ FinishJob(p) \/ Release(p) \/ ReleaseError(p)
  \/ OpenStatus(p) \/ \E e \in Entity : OpenData(p, e)

Transaction(s) ==
  WriteRows(s) \/ Validate(s) \/ Commit(s) \/ Rollback(s) \/ Detach(s)

Next ==
  \/ \E p \in Pod : Coordination(p) \/ Crash(p)
  \/ \E s \in sessions : Transaction(s)
  \/ \E m \in late : LateStatement(m)
  \/ Tick

Spec == Init /\ [][Next]_vars

(***************************************************************************)
(* Fairness: time passes; a goroutine that can run does; the database ends *)
(* the sessions of clients that are gone; a job whose context has ended    *)
(* returns, since every call it makes takes that context or a bounded one. *)
(* Nothing makes a job succeed, start or crash.                            *)
(***************************************************************************)
Fairness ==
  /\ WF_vars(Tick)
  /\ \A p \in Pod :
       /\ WF_vars(RenewOk(p) \/ RenewLost(p) \/ RenewError(p))
       /\ WF_vars(HeartbeatStop(p))
       /\ WF_vars(jobCtx[p] = "canceled" /\ FinishJob(p))
       /\ WF_vars(Release(p) \/ ReleaseError(p))
  /\ WF_vars(\E s \in sessions : ~s.attached /\ (Commit(s) \/ Rollback(s)))
  /\ WF_vars(\E s \in sessions : Detach(s))

FairSpec == Spec /\ Fairness

-----------------------------------------------------------------------------
TypeOK ==
  /\ lease \in [holder: Pod \cup {None}, token: Nat, left: Int]
  /\ pc \in [Pod -> {"idle", "running", "stopping", "dead"}]
  /\ claim \in [Pod -> Nat]
  /\ cur \in [Pod -> Nat]
  /\ jobCtx \in [Pod -> {"live", "canceled"}]
  /\ beat \in [Pod -> Nat \cup {Off}]
  /\ sessions \subseteq Session
  /\ late \subseteq Statement
  /\ committed \in [Target -> Nat]

\* A transaction that has passed its final token check holds the lease row
\* locked, so no acquisition can slip between that check and its commit: the
\* token it checked is still the current one.
LockedIsCurrent ==
  \A s \in sessions : s.phase = "locked" => s.token = lease.token

\* A job whose token is still current is the job of the pod the row names,
\* and no other pod runs under that token: Renew and Release, which compare
\* the holder alone, never act for a pod that was not given the token.
CurrentClaimHolds ==
  \A p \in Pod : claim[p] # 0 =>
    /\ claim[p] <= lease.token
    /\ claim[p] = lease.token => lease.holder = p
    /\ \A q \in Pod \ {p} : claim[q] # claim[p]

\* Every write, of data or of status, that reaches the database is made by
\* the owner whose token is current at the commit, so nothing a newer owner
\* wrote is overwritten by an older one, whatever was delayed or crashed.
Fenced == INSTANCE FencedStore WITH epoch <- lease.token
FencedSpec == Fenced!Spec

\* When heartbeats are sent on time and no clock runs ahead of another by
\* TTL - Beat or more, two pods never run a live job at the same time.
Live(p) == pc[p] = "running" /\ jobCtx[p] = "live"
OneLiveJob == \A p, q \in Pod : Live(p) /\ Live(q) => p = q

\* A renewal that is due is sent before any more time passes.
PunctualNext ==
  /\ Next
  /\ Tick => \A p \in Pod : ~RenewDue(p)
PunctualSpec == Init /\ [][PunctualNext]_vars

\* A job whose lease another pod has taken over stops: its heartbeat finds
\* the holder changed, cancels the job, and every call of the job returns.
LoserStops ==
  \A p \in Pod :
    (pc[p] = "running" /\ claim[p] < lease.token) ~> (pc[p] # "running")

\* The lease of a crashed owner, and the row locks its sessions left behind,
\* do not outlive it for ever: some instant finds it free for everybody.
DeadOwnerReplaceable ==
  \A p \in Pod :
    (pc[p] = "dead" /\ lease.holder = p) ~>
      \/ lease.holder # p
      \/ RowFree /\ \A q \in Pod : lease.left <= Clock(q)

=============================================================================
