--------------------------- MODULE SyncLeaseProofs ---------------------------
(***************************************************************************)
(* Proofs about SyncLease for any number of pods, entities, tokens and     *)
(* sessions, and any clocks.                                               *)
(*                                                                         *)
(* LockedIsCurrent is not inductive alone: a status write locks the row    *)
(* with the token in currentLeaseToken after checking only that it is not  *)
(* older than the row's.  That it is not newer either follows from         *)
(* CurrentClaimHolds and JobHasToken: currentLeaseToken is the token of    *)
(* the running job, which the row once issued.                             *)
(***************************************************************************)
EXTENDS SyncLeaseTiming, FiniteSetTheorems, TLAPS

JobHasToken ==
  /\ \A p \in Pod : cur[p] = claim[p]
  /\ \A p \in Pod : pc[p] \in {"running", "stopping"} => claim[p] # 0
  /\ \A s \in sessions : s.token # 0

IInv ==
  /\ TypeOK
  /\ LockedIsCurrent
  /\ CurrentClaimHolds
  /\ JobHasToken

\* No session is locked when an UPDATE of the lease row goes through.
LEMMA RowFreeMeansNoLock ==
  ASSUME TypeOK, RowFree
  PROVE  \A s \in sessions : s.phase # "locked"
BY DEF TypeOK, RowFree, RowHeldBy, Session

\* The initial state: no row, no job, no session.
LEMMA InitIInv == Init => IInv
BY LeaseAssumption
   DEF Init, IInv, TypeOK, LockedIsCurrent, CurrentClaimHolds, JobHasToken, Off, Target

\* Open adds one well-formed session.
LEMMA OpenTyped ==
  ASSUME sessions \subseteq Session,
         NEW p \in Pod, NEW t \in Target, NEW token \in Nat,
         NEW phase \in {"open", "written", "locked"},
         Open(p, t, token, phase)
  PROVE  sessions' \subseteq Session
<1> DEFINE new == [pod |-> p, token |-> token, target |-> t,
                   phase |-> phase, attached |-> TRUE]
<1>1. new \in Session
  BY DEF Session
<1>2. sessions' = sessions \cup {new}
  BY DEF Open
<1>3. QED
  BY <1>1, <1>2

\* Moving a session to another phase, or detaching it, keeps it well formed.
LEMMA MoveTyped ==
  ASSUME NEW s \in Session, NEW phase \in {"open", "written", "locked"}
  PROVE  /\ [s EXCEPT !.phase = phase] \in Session
         /\ [s EXCEPT !.attached = FALSE] \in Session
BY DEF Session

-----------------------------------------------------------------------------
\* Every action keeps the variables in their types.
LEMMA NextTypeOK == TypeOK /\ [Next]_vars => TypeOK'
<1> SUFFICES ASSUME TypeOK, [Next]_vars
             PROVE  TypeOK'
  OBVIOUS
<1> USE LeaseAssumption DEF TypeOK, podVars, Clock, Target
<1>1. ASSUME NEW p \in Pod, Coordination(p)
      PROVE  TypeOK'
  <2>1. CASE Acquire(p)
    BY <2>1 DEF Acquire, AcquiredBy, Clamp
  <2>2. CASE AcquireError(p)
    BY <2>2 DEF AcquireError, GiveUp, Statement
  <2>3. CASE RenewOk(p)
    BY <2>3 DEF RenewOk, RenewedAt, Clamp
  <2>4. CASE RenewLost(p)
    BY <2>4 DEF RenewLost, LoseLease
  <2>5. CASE RenewError(p)
    BY <2>5 DEF RenewError, LoseLease, GiveUp, Statement
  <2>6. CASE HeartbeatStop(p)
    BY <2>6 DEF HeartbeatStop
  <2>7. CASE CancelJob(p)
    BY <2>7 DEF CancelJob
  <2>8. CASE FinishJob(p)
    BY <2>8 DEF FinishJob
  <2>9. CASE Release(p)
    BY <2>9 DEF Release, Released, ReleasedAt, Clamp
  <2>10. CASE ReleaseError(p)
    BY <2>10 DEF ReleaseError, Released, GiveUp, Statement
  <2>11. CASE OpenStatus(p)
    <3>1. sessions' \subseteq Session
      BY <2>11, OpenTyped DEF OpenStatus
    <3>2. QED
      BY <2>11, <3>1 DEF OpenStatus
  <2>12. ASSUME NEW e \in Entity, OpenData(p, e)
         PROVE  TypeOK'
    <3>1. sessions' \subseteq Session
      BY <2>12, OpenTyped DEF OpenData
    <3>2. QED
      BY <2>12, <3>1 DEF OpenData
  <2>13. QED
    BY <1>1, <2>1, <2>2, <2>3, <2>4, <2>5, <2>6, <2>7, <2>8, <2>9, <2>10, <2>11,
       <2>12 DEF Coordination
<1>2. ASSUME NEW p \in Pod, Crash(p)
      PROVE  TypeOK'
  <2>1. \A s \in sessions : [s EXCEPT !.attached = FALSE] \in Session
    BY MoveTyped
  <2>2. sessions' \subseteq Session
    BY <1>2, <2>1 DEF Crash
  <2>3. QED
    BY <1>2, <2>2 DEF Crash
<1>3. ASSUME NEW s \in sessions, Transaction(s)
      PROVE  TypeOK'
  <2>1. s \in Session
    OBVIOUS
  <2>2. CASE WriteRows(s)
    BY <2>1, <2>2, MoveTyped DEF WriteRows, MoveSession
  <2>3. CASE Validate(s)
    BY <2>1, <2>3, MoveTyped DEF Validate, MoveSession
  <2>4. CASE Commit(s)
    BY <2>1, <2>4 DEF Commit, Session
  <2>5. CASE Rollback(s)
    BY <2>5 DEF Rollback
  <2>6. CASE Detach(s)
    BY <2>1, <2>6, MoveTyped DEF Detach
  <2>7. QED
    BY <1>3, <2>2, <2>3, <2>4, <2>5, <2>6 DEF Transaction
<1>4. ASSUME NEW m \in late, LateStatement(m)
      PROVE  TypeOK'
  BY <1>4 DEF LateStatement, AcquiredBy, RenewedAt, ReleasedAt, Clamp, Statement
<1>5. CASE Tick
  BY <1>5 DEF Tick, Clamp, Statement, Off
<1>6. CASE UNCHANGED vars
  BY <1>6 DEF vars
<1>7. QED
  BY <1>1, <1>2, <1>3, <1>4, <1>5, <1>6 DEF Next

\* TypeOK is an invariant of the coordination protocol.
THEOREM TypeCorrect == Spec => []TypeOK
<1>1. Init => TypeOK
  BY InitIInv DEF IInv
<1>2. QED
  BY <1>1, NextTypeOK, PTL DEF Spec

-----------------------------------------------------------------------------
\* What a step does to the sessions, for the parts of the invariant that
\* speak of tokens and locks: it keeps them, or adds one.
Kept(t, s) == t.token = s.token /\ t.phase = s.phase

\* The inductive invariant is preserved by every action.
LEMMA NextIInv == IInv /\ [Next]_vars => IInv'
<1> SUFFICES ASSUME IInv, [Next]_vars
             PROVE  IInv'
  OBVIOUS
<1>t. TypeOK /\ TypeOK'
  BY NextTypeOK DEF IInv
<1> SUFFICES LockedIsCurrent' /\ CurrentClaimHolds' /\ JobHasToken'
  BY <1>t DEF IInv
<1> USE DEF IInv
<1>f. RowFree => \A s \in sessions : s.phase # "locked"
  BY <1>t, RowFreeMeansNoLock
<1>1. ASSUME NEW p \in Pod, Coordination(p)
      PROVE  LockedIsCurrent' /\ CurrentClaimHolds' /\ JobHasToken'
  <2>1. CASE Acquire(p)
    <3>1. /\ lease'.token = lease.token + 1
          /\ lease'.holder = p
      BY <2>1 DEF Acquire, AcquiredBy
    <3>2. LockedIsCurrent'
      BY <2>1, <1>f DEF Acquire, LockedIsCurrent
    <3>3. CurrentClaimHolds'
      BY <2>1, <1>t, <3>1 DEF Acquire, CurrentClaimHolds, TypeOK
    <3>4. JobHasToken'
      BY <2>1, <1>t DEF Acquire, JobHasToken, TypeOK
    <3>5. QED
      BY <3>2, <3>3, <3>4
  <2>2. CASE AcquireError(p) \/ HeartbeatStop(p) \/ CancelJob(p) \/ RenewLost(p)
             \/ RenewError(p)
    BY <2>2 DEF AcquireError, HeartbeatStop, CancelJob, RenewLost, RenewError, LoseLease,
                podVars, LockedIsCurrent, CurrentClaimHolds, JobHasToken
  <2>3. CASE RenewOk(p)
    <3>1. lease'.token = lease.token /\ lease'.holder = lease.holder
      BY <2>3, <1>t DEF RenewOk, RenewedAt, TypeOK
    <3>2. QED
      BY <2>3, <3>1 DEF RenewOk, LockedIsCurrent, CurrentClaimHolds, JobHasToken
  <2>4. CASE FinishJob(p)
    <3>1. JobHasToken'
      BY <2>4, <1>t DEF FinishJob, JobHasToken, TypeOK
    <3>2. QED
      BY <2>4, <3>1 DEF FinishJob, LockedIsCurrent, CurrentClaimHolds
  <2>5. CASE Release(p) \/ ReleaseError(p)
    <3>1. lease'.token = lease.token /\ lease'.holder = lease.holder
      BY <2>5, <1>t DEF Release, ReleaseError, ReleasedAt, TypeOK
    <3>2. Released(p) /\ sessions' = sessions
      BY <2>5 DEF Release, ReleaseError
    <3>3. QED
      BY <3>1, <3>2, <1>t DEF Released, LockedIsCurrent, CurrentClaimHolds, JobHasToken, TypeOK
  <2>6. CASE OpenStatus(p)
    <3>1. cur[p] = claim[p] /\ claim[p] # 0 /\ claim[p] <= lease.token
      BY <2>6 DEF OpenStatus, MayOpen, JobHasToken, CurrentClaimHolds
    <3>2. cur[p] = lease.token
      BY <2>6, <3>1, <1>t DEF OpenStatus, TypeOK
    <3>3. \A s \in sessions' : s \in sessions \/ (s.token = lease.token /\ s.token # 0)
      BY <2>6, <3>1, <3>2 DEF OpenStatus, Open
    <3>4. QED
      BY <2>6, <3>3 DEF OpenStatus, podVars, LockedIsCurrent, CurrentClaimHolds, JobHasToken
  <2>7. ASSUME NEW e \in Entity, OpenData(p, e)
        PROVE  LockedIsCurrent' /\ CurrentClaimHolds' /\ JobHasToken'
    <3>1. \A s \in sessions' : s \in sessions \/ (s.token = lease.token /\ s.token # 0)
      BY <2>7 DEF OpenData, MayOpen, Open, JobHasToken
    <3>2. QED
      BY <2>7, <3>1 DEF OpenData, podVars, LockedIsCurrent, CurrentClaimHolds, JobHasToken
  <2>8. QED
    BY <1>1, <2>1, <2>2, <2>3, <2>4, <2>5, <2>6, <2>7 DEF Coordination
<1>2. ASSUME NEW p \in Pod, Crash(p)
      PROVE  LockedIsCurrent' /\ CurrentClaimHolds' /\ JobHasToken'
  <2>1. \A t \in sessions' : \E s \in sessions : Kept(t, s)
    BY <1>2, <1>t DEF Crash, Kept, TypeOK, Session
  <2>2. LockedIsCurrent' /\ JobHasToken'
    BY <1>2, <1>t, <2>1 DEF Crash, Kept, LockedIsCurrent, JobHasToken, TypeOK
  <2>3. CurrentClaimHolds'
    BY <1>2, <1>t DEF Crash, CurrentClaimHolds, TypeOK
  <2>4. QED
    BY <2>2, <2>3
<1>3. ASSUME NEW s \in sessions, Transaction(s)
      PROVE  LockedIsCurrent' /\ CurrentClaimHolds' /\ JobHasToken'
  <2>1. \A t \in sessions' :
           \/ \E o \in sessions : Kept(t, o)
           \/ t.token = s.token /\ (t.phase = "locked" => t.token = lease.token)
    BY <1>3, <1>t DEF Transaction, WriteRows, Validate, Commit, Rollback, Detach,
                      MoveSession, Kept, TypeOK, Session
  <2>2. lease' = lease /\ podVars' = podVars
    BY <1>3 DEF Transaction, WriteRows, Validate, Commit, Rollback, Detach
  <2>3. QED
    BY <2>1, <2>2 DEF Kept, podVars, LockedIsCurrent, CurrentClaimHolds, JobHasToken
<1>4. ASSUME NEW m \in late, LateStatement(m)
      PROVE  LockedIsCurrent' /\ CurrentClaimHolds' /\ JobHasToken'
  <2>1. \/ lease'.token = lease.token + 1
        \/ lease'.token = lease.token /\ lease'.holder = lease.holder
    BY <1>4, <1>t DEF LateStatement, AcquiredBy, RenewedAt, ReleasedAt, TypeOK
  <2>2. \A p \in Pod : claim[p] # 0 => claim[p] < lease.token + 1
    BY <1>t DEF CurrentClaimHolds, TypeOK
  <2>3. CurrentClaimHolds'
    BY <1>4, <1>t, <2>1, <2>2 DEF LateStatement, podVars, CurrentClaimHolds, TypeOK
  <2>4. QED
    BY <1>4, <1>f, <2>3 DEF LateStatement, podVars, LockedIsCurrent, JobHasToken
<1>5. CASE Tick
  <2>1. lease'.token = lease.token /\ lease'.holder = lease.holder
    BY <1>5, <1>t DEF Tick, TypeOK
  <2>2. QED
    BY <1>5, <2>1 DEF Tick, LockedIsCurrent, CurrentClaimHolds, JobHasToken
<1>6. CASE UNCHANGED vars
  BY <1>6 DEF vars, podVars, LockedIsCurrent, CurrentClaimHolds, JobHasToken
<1>7. QED
  BY <1>1, <1>2, <1>3, <1>4, <1>5, <1>6 DEF Next

\* The inductive invariant holds throughout every behaviour.
LEMMA InductiveInvariant == Spec => []IInv
BY InitIInv, NextIInv, PTL DEF Spec

\* No acquisition separates a transaction's final token check from its
\* commit: a session holding the lease row carries the current token.
THEOREM LockedSessionsAreCurrent == Spec => []LockedIsCurrent
<1>1. IInv => LockedIsCurrent
  BY DEF IInv
<1>2. QED
  BY <1>1, InductiveInvariant, PTL

\* A current token belongs to exactly one job, that of the pod the lease row
\* names.
THEOREM CurrentTokenHasOneOwner == Spec => []CurrentClaimHolds
<1>1. IInv => CurrentClaimHolds
  BY DEF IInv
<1>2. QED
  BY <1>1, InductiveInvariant, PTL

-----------------------------------------------------------------------------
\* A step changes the token only by an acquisition, which commits nothing.
LEMMA StepIsFenced == IInv /\ [Next]_vars => [Fenced!Next]_(Fenced!fencedVars)
<1> SUFFICES ASSUME IInv, [Next]_vars
             PROVE  [Fenced!Next]_(Fenced!fencedVars)
  OBVIOUS
<1> USE DEF Fenced!Next, Fenced!fencedVars
<1>t. TypeOK
  BY DEF IInv
<1>1. ASSUME lease'.token = lease.token + 1, committed' = committed
      PROVE  Fenced!Advance
  BY <1>1 DEF Fenced!Advance
<1>2. ASSUME lease'.token = lease.token, committed' = committed
      PROVE  UNCHANGED Fenced!fencedVars
  BY <1>2
<1>3. ASSUME NEW p \in Pod, Coordination(p)
      PROVE  [Fenced!Next]_(Fenced!fencedVars)
  <2>1. committed' = committed
    BY <1>3 DEF Coordination, Acquire, AcquireError, RenewOk, RenewLost, RenewError,
                HeartbeatStop, CancelJob, FinishJob, Release, ReleaseError, OpenStatus,
                OpenData
  <2>2. lease'.token = lease.token + 1 \/ lease'.token = lease.token
    BY <1>3, <1>t DEF Coordination, Acquire, AcquiredBy, AcquireError, RenewOk, RenewedAt,
                RenewLost, RenewError, HeartbeatStop, CancelJob, FinishJob, Release,
                ReleasedAt, ReleaseError, OpenStatus, OpenData, TypeOK
  <2>3. QED
    BY <1>1, <1>2, <2>1, <2>2
<1>4. ASSUME NEW s \in sessions, Commit(s)
      PROVE  Fenced!Next
  <2>1. s.token = lease.token /\ s.token # 0 /\ s.target \in Target
    BY <1>4, <1>t DEF Commit, IInv, LockedIsCurrent, JobHasToken, TypeOK, Session
  <2>2. Fenced!Write(s.target)
    BY <1>4, <1>t, <2>1 DEF Commit, Fenced!Write, TypeOK
  <2>3. QED
    BY <2>1, <2>2
<1>5. ASSUME NEW s \in sessions,
             WriteRows(s) \/ Validate(s) \/ Rollback(s) \/ Detach(s)
      PROVE  UNCHANGED Fenced!fencedVars
  BY <1>5 DEF WriteRows, Validate, Rollback, Detach
<1>6. ASSUME NEW m \in late, LateStatement(m)
      PROVE  [Fenced!Next]_(Fenced!fencedVars)
  <2>1. committed' = committed
    BY <1>6 DEF LateStatement
  <2>2. lease'.token = lease.token + 1 \/ lease'.token = lease.token
    BY <1>6, <1>t DEF LateStatement, AcquiredBy, RenewedAt, ReleasedAt, TypeOK
  <2>3. QED
    BY <1>1, <1>2, <2>1, <2>2
<1>7. CASE Tick
  <2>1. lease'.token = lease.token /\ committed' = committed
    BY <1>7, <1>t DEF Tick, TypeOK
  <2>2. QED
    BY <1>2, <2>1
<1>8. ASSUME NEW p \in Pod, Crash(p)
      PROVE  UNCHANGED Fenced!fencedVars
  BY <1>8 DEF Crash
<1>9. CASE UNCHANGED vars
  BY <1>9 DEF vars
<1>10. QED
  BY <1>3, <1>4, <1>5, <1>6, <1>7, <1>8, <1>9 DEF Next, Transaction

\* Leases, heartbeats and transactions implement FencedStore: what reaches
\* the database is written under the current token, by data and status
\* writes alike, for any schedule, clocks, crashes and late statements.
THEOREM SyncLeaseIsFenced == Spec => FencedSpec
<1>1. Init => Fenced!Init
  BY DEF Init, Fenced!Init
<1>2. QED
  BY <1>1, StepIsFenced, InductiveInvariant, PTL DEF Spec, FencedSpec, Fenced!Spec

-----------------------------------------------------------------------------
(***************************************************************************)
(* One live job.  A punctual heartbeat renews the lease before what is     *)
(* left of it, seen by the fastest clock, is used up.                      *)
(***************************************************************************)

\* No clock runs ahead of another by TTL - Beat or more.
ClocksAgree == \A p, q \in Pod : Skew[q] - Skew[p] < TTL - Beat

\* A live job is the holder's, and its lease outlasts the next heartbeat on
\* every clock.
LiveHolds ==
  \A p \in Pod : Live(p) =>
    /\ lease.holder = p
    /\ beat[p] \in 0..Beat
    /\ lease.left >= Skew[p] + TTL - Beat + beat[p]

LiveInv == TypeOK /\ late = {} /\ LiveHolds

\* Nobody can take the lease of a live job.
LEMMA LiveNotAcquirable ==
  ASSUME LiveInv, ClocksAgree, NEW p \in Pod, NEW q \in Pod, Live(p)
  PROVE  ~Acquirable(Clock(q))
<1>1. lease.left \in Int /\ beat[p] \in Nat /\ beat[p] >= 0
  BY DEF LiveInv, LiveHolds, TypeOK
<1>2. Skew[p] \in Int /\ Skew[q] \in Int /\ Floor <= Skew[q] /\ Floor \in Int
      /\ TTL \in Nat /\ Beat \in Nat
  BY LeaseAssumption
<1>3. Skew[q] - Skew[p] < TTL - Beat
  BY DEF ClocksAgree
<1>4. lease.left >= Skew[p] + TTL - Beat + beat[p]
  BY DEF LiveInv, LiveHolds
<1>5. lease.left > Skew[q]
  BY <1>1, <1>2, <1>3, <1>4
<1>6. QED
  BY <1>1, <1>2, <1>5 DEF Acquirable, Clock

\* A statement given up is dropped when none may be late.
LEMMA NoLate ==
  ASSUME MaxLate = 0, late = {}, NEW p \in Pod, NEW kind, GiveUp(p, kind)
  PROVE  late' = {}
<1>1. Cardinality({}) = 0
  BY FS_EmptySet
<1>2. QED
  BY <1>1 DEF GiveUp

\* A step that leaves the lease row and the heartbeats alone and makes no job
\* live.
LEMMA LiveKept ==
  ASSUME LiveHolds, UNCHANGED <<lease, beat>>, \A p \in Pod : Live(p)' => Live(p)
  PROVE  LiveHolds'
BY DEF LiveHolds

LEMMA NextLiveInv ==
  ASSUME MaxLate = 0, ClocksAgree, LiveInv, [PunctualNext]_vars
  PROVE  LiveInv'
<1>0. TypeOK /\ late = {} /\ LiveHolds
  BY DEF LiveInv
<1>1. TypeOK'
  <2>1. [Next]_vars
    BY DEF PunctualNext
  <2>2. QED
    BY <1>0, <2>1, NextTypeOK
<1>2. late' = {} /\ LiveHolds'
  <2> USE DEF podVars
  <2>1. ASSUME NEW p \in Pod, Acquire(p)
        PROVE  late' = {} /\ LiveHolds'
    <3>1. \A q \in Pod : ~Live(q)
      BY <2>1, LiveNotAcquirable DEF Acquire, LiveInv
    <3>2. \A q \in Pod : Live(q)' => q = p
      BY <1>0, <2>1, <3>1 DEF Acquire, Live, TypeOK
    <3>3. /\ lease'.holder = p /\ beat'[p] = Beat
          /\ lease'.left = Clamp(Skew[p] + TTL)
      BY <1>0, <2>1 DEF Acquire, AcquiredBy, Clock, TypeOK
    <3>4. lease'.left >= Skew[p] + TTL - Beat + beat'[p] /\ beat'[p] \in 0..Beat
      BY <3>3, LeaseAssumption DEF Clamp
    <3>5. QED
      BY <1>0, <2>1, <3>2, <3>3, <3>4 DEF Acquire, LiveHolds
  <2>2. ASSUME NEW p \in Pod, RenewOk(p)
        PROVE  late' = {} /\ LiveHolds'
    <3>1. \A q \in Pod : Live(q)' => Live(q) /\ q = p
      BY <1>0, <2>2 DEF RenewOk, Live, LiveHolds
    <3>2. /\ lease'.holder = p /\ beat'[p] = Beat
          /\ lease'.left = Clamp(Skew[p] + TTL)
      BY <1>0, <2>2 DEF RenewOk, RenewedAt, Clock, TypeOK
    <3>3. lease'.left >= Skew[p] + TTL - Beat + beat'[p] /\ beat'[p] \in 0..Beat
      BY <3>2, LeaseAssumption DEF Clamp
    <3>4. QED
      BY <1>0, <2>2, <3>1, <3>2, <3>3 DEF RenewOk, LiveHolds
  <2>3. ASSUME NEW p \in Pod, RenewLost(p) \/ RenewError(p) \/ HeartbeatStop(p)
        PROVE  late' = {} /\ LiveHolds'
    <3>1. late' = {}
      BY <1>0, <2>3, NoLate DEF RenewLost, RenewError, HeartbeatStop
    <3>2. \A q \in Pod : Live(q)' => Live(q) /\ q # p
      BY <1>0, <2>3 DEF RenewLost, RenewError, HeartbeatStop, LoseLease, Live, TypeOK
    <3>3. lease' = lease /\ \A q \in Pod \ {p} : beat'[q] = beat[q]
      BY <1>0, <2>3 DEF RenewLost, RenewError, HeartbeatStop, LoseLease, TypeOK
    <3>4. QED
      BY <1>0, <3>1, <3>2, <3>3 DEF LiveHolds
  <2>4. ASSUME NEW p \in Pod, Release(p) \/ ReleaseError(p)
        PROVE  late' = {} /\ LiveHolds'
    <3>1. late' = {}
      BY <1>0, <2>4, NoLate DEF Release, ReleaseError
    <3>2. \A q \in Pod : Live(q)' => Live(q) /\ q # p
      BY <1>0, <2>4 DEF Release, ReleaseError, Released, Live, TypeOK
    <3>3. beat' = beat /\ (lease' = lease \/ lease.holder = p)
      BY <1>0, <2>4 DEF Release, ReleaseError
    <3>4. QED
      BY <1>0, <3>1, <3>2, <3>3 DEF LiveHolds
  <2>5. ASSUME NEW p \in Pod, \/ AcquireError(p) \/ CancelJob(p) \/ FinishJob(p)
                              \/ OpenStatus(p) \/ \E e \in Entity : OpenData(p, e)
        PROVE  late' = {} /\ LiveHolds'
    <3>1. late' = {}
      BY <1>0, <2>5, NoLate DEF AcquireError, CancelJob, FinishJob, OpenStatus, OpenData
    <3>2. \A q \in Pod : Live(q)' => Live(q)
      BY <1>0, <2>5 DEF AcquireError, CancelJob, FinishJob, OpenStatus, OpenData, Live, TypeOK
    <3>3. UNCHANGED <<lease, beat>>
      BY <2>5 DEF AcquireError, CancelJob, FinishJob, OpenStatus, OpenData
    <3>4. QED
      BY <1>0, <3>1, <3>2, <3>3, LiveKept
  <2>6. ASSUME NEW p \in Pod, Crash(p)
        PROVE  late' = {} /\ LiveHolds'
    <3>1. \A q \in Pod : Live(q)' => Live(q) /\ q # p
      BY <1>0, <2>6 DEF Crash, Live, TypeOK
    <3>2. lease' = lease /\ late' = late /\ \A q \in Pod \ {p} : beat'[q] = beat[q]
      BY <1>0, <2>6 DEF Crash, TypeOK
    <3>3. QED
      BY <1>0, <3>1, <3>2 DEF LiveHolds
  <2>7. ASSUME NEW s \in sessions, Transaction(s)
        PROVE  late' = {} /\ LiveHolds'
    BY <1>0, <2>7, LiveKept
       DEF Transaction, WriteRows, Validate, Commit, Rollback, Detach, Live
  <2>8. ASSUME Tick, \A p \in Pod : ~RenewDue(p)
        PROVE  late' = {} /\ LiveHolds'
    <3>1. late' = {}
      BY <1>0, <2>8 DEF Tick
    <3>2. \A q \in Pod : Live(q)' => Live(q)
      BY <2>8 DEF Tick, Live
    <3>3. lease'.holder = lease.holder /\ lease'.left = Clamp(lease.left - 1)
      BY <1>0, <2>8 DEF Tick, TypeOK
    <3>4. ASSUME NEW q \in Pod, Live(q)
          PROVE  /\ beat'[q] \in 0..Beat
                 /\ lease'.left >= Skew[q] + TTL - Beat + beat'[q]
      <4>1. beat[q] \in 1..Beat /\ lease.left >= Skew[q] + TTL - Beat + beat[q]
        BY <1>0, <2>8, <3>4, LeaseAssumption DEF LiveHolds, RenewDue
      <4>2. beat'[q] = beat[q] - 1
        BY <2>8, <4>1, LeaseAssumption DEF Tick
      <4>3. lease.left \in Int
        BY <1>0 DEF TypeOK
      <4>4. QED
        BY <3>3, <4>1, <4>2, <4>3, LeaseAssumption DEF Clamp
    <3>5. QED
      BY <1>0, <3>1, <3>2, <3>3, <3>4 DEF LiveHolds
  <2>9. CASE UNCHANGED vars
    BY <1>0, <2>9, LiveKept DEF vars, Live
  <2>10. QED
    BY <1>0, <2>1, <2>2, <2>3, <2>4, <2>5, <2>6, <2>7, <2>8, <2>9
       DEF PunctualNext, Next, Coordination
<1>3. QED
  BY <1>1, <1>2 DEF LiveInv

\* While heartbeats are sent on time, the clocks of no two pods differ by as
\* much as TTL - Beat and no statement outlives its caller, two pods never run
\* live jobs at the same time (syncLeased, startLeaseHeartbeat).
THEOREM PunctualJobsAreAlone ==
  ASSUME MaxLate = 0, ClocksAgree
  PROVE  PunctualSpec => []OneLiveJob
<1>1. Init => LiveInv
  BY InitIInv DEF Init, LiveInv, IInv, LiveHolds, Live
<1>2. LiveInv /\ [PunctualNext]_vars => LiveInv'
  BY NextLiveInv
<1>3. LiveInv => OneLiveJob
  BY DEF LiveInv, LiveHolds, OneLiveJob
<1>4. QED
  BY <1>1, <1>2, <1>3, PTL DEF PunctualSpec

\* The same of the behaviours of which some are punctual: those that are not
\* promise nothing here, and no behaviour changes from one to the other.
THEOREM PunctualBehavioursHaveOneJob ==
  ASSUME MaxLate = 0, ClocksAgree
  PROVE  TimedSpec => []PunctualOneLiveJob
<1> DEFINE PunctualInv == punctual => LiveInv
<1>1. TimedInit => PunctualInv
  BY InitIInv DEF TimedInit, Init, LiveInv, IInv, LiveHolds, Live
<1>2. PunctualInv /\ [TimedNext]_<<vars, punctual>> => PunctualInv'
  BY NextLiveInv DEF TimedNext
<1>3. PunctualInv => PunctualOneLiveJob
  BY DEF LiveInv, LiveHolds, OneLiveJob, PunctualOneLiveJob
<1>4. QED
  BY <1>1, <1>2, <1>3, PTL DEF TimedSpec

=============================================================================
