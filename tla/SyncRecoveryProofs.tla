------------------------- MODULE SyncRecoveryProofs -------------------------
(***************************************************************************)
(* Type correctness of the recovery, for any number of pods, regions,      *)
(* crashes and requests.                                                   *)
(***************************************************************************)
EXTENDS SyncRecovery, TLAPS

LEMMA InitTypeOK == Init => TypeOK
<1> SUFFICES ASSUME Init
             PROVE  TypeOK
  OBVIOUS
<1> USE DEF Init
<1>1. startup \in [Pod -> Startup]
  BY DEF Startup
<1>2. stops \in 0..MaxStops /\ requests \in 0..MaxRequests
  BY RecoveryAssumption
<1>3. /\ job \in [Pod -> {"none", "startup", "request"}] /\ admitted \in [Pod -> BOOLEAN]
      /\ todo \in [Pod -> SUBSET Region] /\ errors \in [Pod -> SUBSET Region]
  OBVIOUS
<1> QED
  BY <1>1, <1>2, <1>3 DEF TypeOK

\* How a job comes to its end keeps the types, whatever it reports.
LEMMA EndKeepsTypes ==
  ASSUME TypeOK, NEW p \in Pod, EndJob(p), NEW outcome \in Startup, Report(p, outcome)
  PROVE  /\ job' \in [Pod -> {"none", "startup", "request"}]
         /\ admitted' \in [Pod -> BOOLEAN]
         /\ todo' \in [Pod -> SUBSET Region]
         /\ startup' \in [Pod -> Startup]
BY DEF TypeOK, EndJob, Report

\* So does what a job does to the lease.
LEMMA LeaseKeepsTypes ==
  ASSUME TypeOK, NEW p \in Pod, TakeLease(p) \/ Release(p) \/ UNCHANGED lease
  PROVE  owner' \in Pod \cup {Nobody} /\ held' \in BOOLEAN
BY DEF TypeOK, TakeLease, Release, lease

LEMMA NextTypeOK == TypeOK /\ [Next]_vars => TypeOK'
<1> SUFFICES ASSUME TypeOK, [Next]_vars
             PROVE  TypeOK'
  OBVIOUS
<1> USE RecoveryAssumption DEF TypeOK, State, jobVars, lease
<1>1. ASSUME NEW p \in Pod, JobStep(p)
      PROVE  TypeOK'
  <2>1. CASE AcquireLease(p)
    BY <2>1, LeaseKeepsTypes DEF AcquireLease
  <2>2. CASE LeaseHeld(p)
    <3>1. "refused" \in Startup
      BY DEF Startup
    <3> QED
      BY <2>2, <3>1, EndKeepsTypes DEF LeaseHeld
  <2>3. CASE FinishJob(p)
    <3>1. (IF errors[p] = {} THEN "done" ELSE "failed") \in Startup
      BY DEF Startup
    <3>2. Release(p) /\ EndJob(p) /\ Report(p, IF errors[p] = {} THEN "done" ELSE "failed")
      BY <2>3 DEF FinishJob
    <3>3. owner' \in Pod \cup {Nobody} /\ held' \in BOOLEAN
      BY <3>2, LeaseKeepsTypes
    <3>4. /\ job' \in [Pod -> {"none", "startup", "request"}]
          /\ admitted' \in [Pod -> BOOLEAN]
          /\ todo' \in [Pod -> SUBSET Region]
          /\ startup' \in [Pod -> Startup]
      BY <3>1, <3>2, EndKeepsTypes
    <3>5. UNCHANGED <<autoSync, status, errors, stops, requests>>
      BY <2>3 DEF FinishJob
    <3> QED
      BY <3>3, <3>4, <3>5
  <2>4. ASSUME NEW r \in Region, EndRegion(p, r)
        PROVE  TypeOK'
    <3>1. status' \in [Region -> State]
      BY <2>4 DEF EndRegion, SaveLast, LoseLast
    <3>2. errors' \in [Pod -> SUBSET Region]
      BY <2>4 DEF EndRegion, SaveLast, LoseLast, Blame
    <3> QED
      BY <2>4, <3>1, <3>2 DEF EndRegion
  <2> QED
    BY <1>1, <2>1, <2>2, <2>3, <2>4 DEF JobStep
<1>2. ASSUME NEW p \in Pod, AcquireFails(p) \/ LoseLease(p)
      PROVE  TypeOK'
  <2>1. {"unanswered", "canceled"} \subseteq Startup
    BY DEF Startup
  <2>2. owner' \in Pod \cup {Nobody} /\ held' \in BOOLEAN
    BY <1>2, LeaseKeepsTypes DEF AcquireFails, LoseLease
  <2>3. \E outcome \in Startup : EndJob(p) /\ Report(p, outcome)
    BY <1>2, <2>1 DEF AcquireFails, LoseLease
  <2>4. UNCHANGED <<autoSync, status, errors, stops, requests>>
    BY <1>2 DEF AcquireFails, LoseLease
  <2> QED
    BY <2>2, <2>3, <2>4, EndKeepsTypes
<1>3. ASSUME NEW p \in Pod, NothingToRecover(p) \/ ListFails(p) \/ StartupBusy(p)
      PROVE  TypeOK'
  BY <1>3 DEF NothingToRecover, ListFails, StartupBusy, Startup
<1>4. ASSUME NEW p \in Pod, StartupSync(p)
      PROVE  TypeOK'
  <2>1. StartupTargets \subseteq Region
    BY DEF StartupTargets, InterruptedRegions
  <2> QED
    BY <1>4, <2>1 DEF StartupSync, Claim, Startup
<1>5. ASSUME NEW p \in Pod, NEW r \in Region, NEW mark \in {"pending", "running"}, Mark(p, r, mark)
      PROVE  TypeOK'
  BY <1>5 DEF Mark
<1>6. ASSUME NEW p \in Pod, NEW r \in Region, Ask(p, r)
      PROVE  TypeOK'
  BY <1>6 DEF Ask, Claim
<1>7. ASSUME NEW p \in Pod, Stop(p)
      PROVE  TypeOK'
  <2>1. owner' \in Pod \cup {Nobody} /\ held' \in BOOLEAN
    BY <1>7, LeaseKeepsTypes DEF Stop
  <2> QED
    BY <1>7, <2>1 DEF Stop, EndJob, Startup
<1>8. ASSUME NEW p \in Pod, Restart(p)
      PROVE  TypeOK'
  BY <1>8 DEF Restart, Startup
<1>9. CASE Expire \/ \E p \in Pod : Renew(p)
  BY <1>9 DEF Expire, Renew
<1>10. CASE UNCHANGED vars
  BY <1>10 DEF vars
<1> QED
  BY <1>1, <1>2, <1>3, <1>4, <1>5, <1>6, <1>7, <1>8, <1>9, <1>10 DEF Next, StartupStep

\* Every variable of the recovery keeps its type.
THEOREM RecoveryTypeCorrect == Spec => []TypeOK
BY InitTypeOK, NextTypeOK, PTL DEF Spec

=============================================================================
