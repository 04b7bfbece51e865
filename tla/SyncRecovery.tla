---------------------------- MODULE SyncRecovery ----------------------------
(***************************************************************************)
(* Who finishes a sync that was cut short: control pods that start, look   *)
(* for interrupted regions and sync them once (the startup worker of       *)
(* cmd/api/main.go, InterruptedRegions, RecoverInterruptedSync), next to   *)
(* the syncs that webhooks and admins ask for, one job per process and     *)
(* one lease for all (sync, StartSync, syncLeased).                        *)
(*                                                                         *)
(* The steps of one region are RegionSync's and those of the lease are     *)
(* SyncLease's.  Here a region is marked and then ends, with its last row  *)
(* saved or not, and the lease is its newest owner and whether it is held: *)
(* it can run out under a live owner, who goes on until its heartbeat      *)
(* notices, though no row of it is saved once another pod has claimed.     *)
(***************************************************************************)
EXTENDS Naturals

CONSTANTS
  Pod,           \* control pods
  Region,        \* configured regions
  Nobody,        \* the owner of a lease no pod has claimed yet
  LeaseEnabled,  \* MASTER_DATA_SYNC_LEASE_ENABLED
  MaxStops,      \* bound: crashes and shutdowns
  MaxRequests    \* bound: syncs asked for by webhooks and admins

ASSUME RecoveryAssumption ==
  /\ Nobody \notin Pod
  /\ LeaseEnabled \in BOOLEAN
  /\ MaxStops \in Nat /\ MaxRequests \in Nat

VARIABLES
  autoSync,    \* MASTER_DATA_AUTO_SYNC: sync every region at startup
  status,      \* the latest status of each region
  owner,       \* the pod that claimed the sync lease last
  held,        \* the lease has not been released and has not run out
  startup,     \* where the startup worker of each pod is
  job,         \* the one job of each process: who asked for it
  admitted,    \* the job has passed the lease
  todo,        \* the regions the job has not finished
  errors,      \* the regions the startup worker's sync recorded an error of
  stops, requests

lease == <<owner, held>>
jobVars == <<job, admitted, todo, errors>>
vars == <<autoSync, status, lease, startup, jobVars, stops, requests>>

\* A region without a row is as little interrupted as one that failed.
State == {"pending", "running", "failed", "success"}
Startup == {"begin", "sync", "done", "failed", "refused", "canceled", "unanswered", "down"}

\* The statuses are what the processes before these have left.
Init ==
  /\ autoSync \in BOOLEAN
  /\ status \in [Region -> State]
  /\ owner = Nobody /\ held = FALSE
  /\ startup = [p \in Pod |-> "begin"]
  /\ job = [p \in Pod |-> "none"]
  /\ admitted = [p \in Pod |-> FALSE]
  /\ todo = [p \in Pod |-> {}]
  /\ errors = [p \in Pod |-> {}]
  /\ stops = 0 /\ requests = 0

Up(p) == startup[p] # "down"

(***************************************************************************)
(* Jobs.                                                                   *)
(***************************************************************************)
\* The process flag is taken.
Claim(p, by, regions) ==
  /\ job' = [job EXCEPT ![p] = by]
  /\ todo' = [todo EXCEPT ![p] = regions]
  /\ UNCHANGED <<admitted, errors>>

EndJob(p) ==
  /\ job' = [job EXCEPT ![p] = "none"]
  /\ admitted' = [admitted EXCEPT ![p] = FALSE]
  /\ todo' = [todo EXCEPT ![p] = {}]

\* The startup worker logs how its only sync has ended, and is over.
Report(p, outcome) ==
  startup' = [startup EXCEPT ![p] = IF job[p] = "startup" THEN outcome ELSE @]

TakeLease(p) == ~held /\ owner' = p /\ held' = TRUE

\* Released by its owner; or the release failed and the lease runs out.
Release(p) ==
  /\ held' \in IF owner = p THEN {FALSE, held} ELSE {held}
  /\ UNCHANGED owner

\* The fenced status store rejects the rows of all but the newest owner.
Current(p) == LeaseEnabled => owner = p

Waiting(p) == job[p] # "none" /\ ~admitted[p]

AcquireLease(p) ==
  /\ Waiting(p)
  /\ IF LeaseEnabled THEN TakeLease(p) ELSE UNCHANGED lease
  /\ admitted' = [admitted EXCEPT ![p] = TRUE]
  /\ UNCHANGED <<autoSync, status, startup, job, todo, errors, stops, requests>>

\* ErrSyncLeaseHeld: the job is dropped.
LeaseHeld(p) ==
  /\ Waiting(p)
  /\ LeaseEnabled /\ held
  /\ EndJob(p)
  /\ Report(p, "refused")
  /\ UNCHANGED <<autoSync, status, lease, errors, stops, requests>>

\* The coordinator does not answer, though it may have granted the lease.
AcquireFails(p) ==
  /\ Waiting(p)
  /\ LeaseEnabled
  /\ EndJob(p)
  /\ Report(p, "unanswered")
  /\ TakeLease(p) \/ UNCHANGED lease
  /\ UNCHANGED <<autoSync, status, errors, stops, requests>>

\* The region is pending (nothing is stored yet), then running.
Mark(p, r, mark) ==
  /\ admitted[p] /\ r \in todo[p] /\ Current(p)
  /\ mark = "pending" => status[r] # "running"
  /\ status' = [status EXCEPT ![r] = mark]
  /\ UNCHANGED <<autoSync, lease, startup, jobVars, stops, requests>>

\* Whoever asked for a sync is told of no error but in the log.
Blame(p, r) ==
  errors' = IF job[p] = "startup" THEN [errors EXCEPT ![p] = @ \cup {r}] ELSE errors

\* The row the region ends with is saved; after a success an earlier row may
\* have been lost.
SaveLast(p, r) ==
  /\ Current(p)
  /\ \/ status' = [status EXCEPT ![r] = "success"] /\ (UNCHANGED errors \/ Blame(p, r))
     \/ status' = [status EXCEPT ![r] = "failed"] /\ Blame(p, r)

\* The check of the store failed and there is no row to save, or the row is
\* lost, or rejected.
LoseLast(p, r) == UNCHANGED status /\ Blame(p, r)

\* The region is synced, skipped or failed.
EndRegion(p, r) ==
  /\ admitted[p] /\ r \in todo[p]
  /\ SaveLast(p, r) \/ LoseLast(p, r)
  /\ todo' = [todo EXCEPT ![p] = @ \ {r}]
  /\ UNCHANGED <<autoSync, lease, startup, job, admitted, stops, requests>>

FinishJob(p) ==
  /\ admitted[p] /\ todo[p] = {}
  /\ EndJob(p)
  /\ Report(p, IF errors[p] = {} THEN "done" ELSE "failed")
  /\ Release(p)
  /\ UNCHANGED <<autoSync, status, errors, stops, requests>>

\* The heartbeat extends the lease of the newest owner, late or not.
Renew(p) ==
  /\ LeaseEnabled /\ admitted[p] /\ owner = p
  /\ ~held /\ held' = TRUE
  /\ UNCHANGED <<autoSync, status, owner, startup, jobVars, stops, requests>>

\* The heartbeat is refused or not answered: the job is cancelled, and its
\* regions stay as they are.
LoseLease(p) ==
  /\ LeaseEnabled /\ admitted[p]
  /\ EndJob(p)
  /\ Report(p, "canceled")
  /\ Release(p)
  /\ UNCHANGED <<autoSync, status, errors, stops, requests>>

(***************************************************************************)
(* The startup worker.                                                     *)
(***************************************************************************)
\* Mutant: a region that is still pending is not interrupted.
InterruptedRegionsRunning == {r \in Region : status[r] = "running"}

InterruptedRegions == {r \in Region : status[r] \in {"running", "pending"}}

\* With auto sync the startup sync covers every region; without it only the
\* interrupted ones are recovered, and nothing is done when there are none.
StartupTargets == IF autoSync THEN Region ELSE InterruptedRegions

NothingToRecover(p) ==
  /\ startup[p] = "begin" /\ StartupTargets = {}
  /\ startup' = [startup EXCEPT ![p] = "done"]
  /\ UNCHANGED <<autoSync, status, lease, jobVars, stops, requests>>

\* The interrupted regions cannot be listed: only auto sync goes on.
ListFails(p) ==
  /\ startup[p] = "begin" /\ ~autoSync
  /\ startup' = [startup EXCEPT ![p] = "unanswered"]
  /\ UNCHANGED <<autoSync, status, lease, jobVars, stops, requests>>

StartupSync(p) ==
  /\ startup[p] = "begin" /\ StartupTargets # {}
  /\ job[p] = "none"
  /\ Claim(p, "startup", StartupTargets)
  /\ startup' = [startup EXCEPT ![p] = "sync"]
  /\ UNCHANGED <<autoSync, status, lease, stops, requests>>

\* ErrSyncInProgress: a request was quicker.
StartupBusy(p) ==
  /\ startup[p] = "begin" /\ StartupTargets # {}
  /\ job[p] # "none"
  /\ startup' = [startup EXCEPT ![p] = "refused"]
  /\ UNCHANGED <<autoSync, status, lease, jobVars, stops, requests>>

(***************************************************************************)
(* The environment.                                                        *)
(***************************************************************************)
\* A webhook or an admin asks for one region.
Ask(p, r) ==
  /\ Up(p) /\ job[p] = "none" /\ requests < MaxRequests
  /\ requests' = requests + 1
  /\ Claim(p, "request", {r})
  /\ UNCHANGED <<autoSync, status, lease, startup, stops>>

\* The process ends; a graceful end releases the lease, a crash does not.
Stop(p) ==
  /\ Up(p) /\ stops < MaxStops
  /\ stops' = stops + 1
  /\ startup' = [startup EXCEPT ![p] = "down"]
  /\ EndJob(p)
  /\ errors' = [errors EXCEPT ![p] = {}]
  /\ Release(p)
  /\ UNCHANGED <<autoSync, status, requests>>

Restart(p) ==
  /\ ~Up(p)
  /\ startup' = [startup EXCEPT ![p] = "begin"]
  /\ UNCHANGED <<autoSync, status, lease, jobVars, stops, requests>>

\* A lease runs out, whether its owner is gone or only late to renew it.
Expire ==
  /\ held
  /\ held' = FALSE
  /\ UNCHANGED <<autoSync, status, owner, startup, jobVars, stops, requests>>

JobStep(p) ==
  \/ AcquireLease(p) \/ LeaseHeld(p) \/ FinishJob(p)
  \/ \E r \in Region : EndRegion(p, r)

StartupStep(p) == NothingToRecover(p) \/ StartupSync(p) \/ StartupBusy(p)

Next ==
  \/ \E p \in Pod :
       \/ JobStep(p) \/ AcquireFails(p) \/ Renew(p) \/ LoseLease(p)
       \/ StartupStep(p) \/ ListFails(p)
       \/ \E r \in Region, mark \in {"pending", "running"} : Mark(p, r, mark)
       \/ \E r \in Region : Ask(p, r)
       \/ Stop(p) \/ Restart(p)
  \/ Expire

Spec == Init /\ [][Next]_vars

\* A job that can go on does and comes to its end; a pod that is down is
\* started again; a lease nobody renews runs out.
FairSpec ==
  /\ Spec
  /\ \A p \in Pod : /\ WF_vars(JobStep(p))
                    /\ WF_vars(StartupStep(p))
                    /\ WF_vars(Restart(p))
  /\ WF_vars(Expire /\ ~admitted[owner])

-----------------------------------------------------------------------------
TypeOK ==
  /\ autoSync \in BOOLEAN
  /\ status \in [Region -> State]
  /\ owner \in Pod \cup {Nobody} /\ held \in BOOLEAN
  /\ startup \in [Pod -> Startup]
  /\ job \in [Pod -> {"none", "startup", "request"}]
  /\ admitted \in [Pod -> BOOLEAN]
  /\ todo \in [Pod -> SUBSET Region] /\ errors \in [Pod -> SUBSET Region]
  /\ stops \in 0..MaxStops /\ requests \in 0..MaxRequests

Interrupted(r) == status[r] \in {"running", "pending"}

\* docs/distributed-sync-coordination.md, when the owner crashes: the "next pod
\* acquires with token+1, runs `RecoverInterruptedSync`" and "completes the
\* set": a region that is interrupted when a pod goes down does not stay so,
\* unless an error meets the sync that would complete it, or it is cut short in
\* its turn.
InterruptedAreRecovered ==
  \A p \in Pod, r \in Region :
    (~Up(p) /\ Interrupted(r)) ~>
      (~Interrupted(r) \/ \E q \in Pod : startup[q] \in {"failed", "canceled", "unanswered"})

\* The startup worker of a pod ends an interruption it finds.  It does not when
\* its single attempt is refused, cancelled or gets no answer from the database,
\* when the pod goes down, or when it has to report an error of that very
\* region: whose data it could not check, or whose last row was not saved.
StartupRecovers ==
  \A p \in Pod, r \in Region :
    (startup[p] = "begin" /\ Interrupted(r)) ~>
      \/ ~Interrupted(r)
      \/ startup[p] \in {"refused", "canceled", "unanswered", "down"}
      \/ startup[p] = "failed" /\ r \in errors[p]

=============================================================================
