-------------------------- MODULE RegionSyncProofs --------------------------
(***************************************************************************)
(* Two results about a region's sync, for every history of the source      *)
(* repository, every set of entities and every pattern of failures in      *)
(* which no "running" row is lost.                                         *)
(*                                                                         *)
(* The first: the records of a region do not change while the region is    *)
(* being served.  The argument is about where the job is: between its      *)
(* "running" row and its own last row nothing else is written to the       *)
(* status history, so the latest row is not a success while the job stores *)
(* and prunes.                                                             *)
(*                                                                         *)
(* The second, what a success row means: that the job which reported it    *)
(* saved it, and that the store holds the records and the version payload  *)
(* of one commit.  The last is proved for the histories that never return  *)
(* to an earlier content (ForwardHistory); on others it does not hold, as  *)
(* the run region_revert shows.  A failed sync leaves a mix of the commits *)
(* it and its predecessors loaded.  The argument bounds that mix on both   *)
(* sides: every record is that of a commit no newer than the one the job   *)
(* resolved, and no older than the commit of the stored version payload,   *)
(* nor than that of the latest success row.  When a shortcut finds its own *)
(* commit at the lower bound, there is only one content between the bounds.*)
(***************************************************************************)
EXTENDS RegionSync, TLAPS
-----------------------------------------------------------------------------
(* The records of a served region.                                          *)

OutOfService == pc \in {"load", "store", "prune"} => ~IsSuccess(latest)

\* The steps that follow the load know the commit they store.
LoadedKnown == pc \in {"store", "prune", "version"} => task.loaded \in Commit

SInv == TypeOK /\ LoadedKnown

\* A status row that is written is a row.
LEMMA SaveTyped ==
  ASSUME latest \in Row, success \in Row,
         NEW state \in State, NEW commit \in Commit \cup {NoCommit},
         Save(state, commit) \/ SaveFails(state, commit)
            \/ (Append([state |-> state, commit |-> commit])
                /\ UNCHANGED <<store, version>>)
  PROVE  latest' \in Row /\ success' \in Row /\ UNCHANGED <<store, version>>
<1> DEFINE row == [state |-> state, commit |-> commit]
<1>1. row \in Row
  BY DEF Row
<1>2. Append(row) => latest' \in Row /\ success' \in Row
  BY <1>1 DEF Append
<1>3. QED
  BY <1>2 DEF Save, SaveFails

\* The states the code saves, and the commits.
LEMMA SavedTyped ==
  ASSUME task \in Task
  PROVE  /\ "pending" \in State /\ "running" \in State
         /\ "failed" \in State /\ "success" \in State
         /\ task.resolved \in Commit \cup {NoCommit}
         /\ task.previous.commit \in Commit \cup {NoCommit}
<1>1. task.previous \in Row
  BY DEF Task
<1>2. QED
  BY <1>1 DEF State, Task, Row

\* The updates of a task.
LEMMA TaskTyped ==
  ASSUME task \in Task
  PROVE  /\ [task EXCEPT !.failed = TRUE] \in Task
         /\ \A b \in BOOLEAN : [task EXCEPT !.cacheReady = b] \in Task
         /\ \A c \in Commit : [task EXCEPT !.resolved = c] \in Task
         /\ \A kind \in {"interrupted", "real"} :
              [task EXCEPT !.failed = TRUE, !.error = kind] \in Task
BY DEF Task

\* What the load and the store of one entity do to the task.
LEMMA LoadTyped ==
  ASSUME task \in Task, NEW commit \in Commit, NEW todo \in SUBSET Entity
  PROVE  /\ [task EXCEPT !.loaded = commit, !.todo = todo] \in Task
         /\ [task EXCEPT !.loaded = commit, !.todo = todo].loaded = commit
BY DEF Task

LEMMA StoreTyped ==
  ASSUME task \in Task, NEW e \in Entity,
         NEW kind \in {"none", "interrupted", "real"}
  PROVE  /\ [task EXCEPT !.todo = @ \ {e}] \in Task
         /\ [task EXCEPT !.todo = @ \ {e}].loaded = task.loaded
         /\ [task EXCEPT !.todo = @ \ {e}, !.error = kind] \in Task
         /\ [task EXCEPT !.todo = @ \ {e}, !.error = kind].loaded = task.loaded
BY DEF Task

\* The records of a known commit fit into the store.
LEMMA RecordsTyped ==
  ASSUME store \in [Entity -> Value \cup {Absent}],
         NEW commit \in Commit, NEW e \in Entity
  PROVE  [store EXCEPT ![e] = Data[commit][e]] \in [Entity -> Value \cup {Absent}]
<1>1. Data[commit][e] \in Value \cup {Absent}
  BY RegionAssumption
<1>2. QED
  BY <1>1

LEMMA NoTaskTyped == NoTask \in Task /\ NoRow \in Row
<1>1. NoRow \in Row
  BY DEF NoRow, Row
<1>2. QED
  BY <1>1 DEF NoTask, Task

\* A new task knows a row and a state.
LEMMA StartTyped ==
  ASSUME latest \in Row, success \in Row, NEW s \in Known \cup Unknown,
         NEW force \in BOOLEAN
  PROVE  [NoTask EXCEPT !.force = force, !.previous = s.previous,
                        !.latestStatus = s.last] \in Task
<1>1. latest.state \in State \cup {"none"}
  BY DEF Row
<1>2. s.previous \in Row /\ s.last \in State \cup {"none"}
  BY <1>1, NoTaskTyped DEF Known, Unknown
<1>3. QED
  BY <1>2, NoTaskTyped DEF Task

\* The initial state: empty store, no status, no job.
LEMMA InitSInv == Init => SInv
BY RegionAssumption, NoTaskTyped DEF Init, SInv, TypeOK, LoadedKnown

\* The steps of a job that go well keep the types.
LEMMA StepSInv == SInv /\ Step => SInv'
<1> SUFFICES ASSUME SInv, Step PROVE SInv'
  OBVIOUS
<1> USE RegionAssumption, SavedTyped, TaskTyped
    DEF SInv, TypeOK, LoadedKnown, dbVars, Goto
<1>1. CASE EnsureCacheReady
  <2>1. HasRegionData \in BOOLEAN
    BY DEF HasRegionData
  <2>2. QED
    BY <1>1, <2>1 DEF EnsureCacheReady
<1>2. CASE PersistPending
  BY <1>2, SaveTyped DEF PersistPending
<1>3. CASE ResolveVersion
  BY <1>3 DEF ResolveVersion
<1>4. CASE KeepStored
  BY <1>4, SaveTyped DEF KeepStored, SaveSkip
<1>5. CASE ShortcutDeclined
  BY <1>5 DEF ShortcutDeclined
<1>6. CASE PersistRunning
  BY <1>6, SaveTyped DEF PersistRunning
<1>7. CASE LoadRegion
  <2> DEFINE commit == IF task.resolved = NoCommit THEN remote ELSE task.resolved
  <2>1. commit \in Commit /\ Present(commit) \in SUBSET Entity
    BY DEF Present
  <2>2. task' = [task EXCEPT !.loaded = commit, !.todo = Present(commit)]
    BY <1>7 DEF LoadRegion
  <2>3. task' \in Task /\ task'.loaded \in Commit
    BY ONLY <2>1, <2>2, LoadTyped, SInv DEF SInv, TypeOK
  <2>4. QED
    BY <1>7, <2>3 DEF LoadRegion
<1>8. CASE FallBack
  BY <1>8, SaveTyped DEF FallBack
<1>9. ASSUME NEW e \in Entity, StoreEntity(e) PROVE SInv'
  <2>1. pc = "store" /\ task.loaded \in Commit
    BY <1>9 DEF StoreEntity
  <2>2. task' \in Task /\ task'.loaded = task.loaded
    BY <1>9, StoreTyped DEF StoreEntity
  <2>3. store' \in [Entity -> Value \cup {Absent}]
    BY <1>9, <2>1, RecordsTyped DEF StoreEntity
  <2>4. QED
    BY <1>9, <2>1, <2>2, <2>3 DEF StoreEntity
<1>10. CASE StoreDone
  <2>1. task.error \in {"none", "interrupted", "real"}
    BY DEF Task
  <2>2. QED
    BY <1>10, <2>1 DEF StoreDone, FailWith
<1>11. CASE Prune
  BY <1>11 DEF Prune, Pruned, Present
<1>12. CASE StoreVersion
  BY <1>12 DEF StoreVersion
<1>13. CASE FinishRegion
  BY <1>13, SaveTyped DEF FinishRegion
<1>14. CASE PersistFailed
  BY <1>14, SaveTyped DEF PersistFailed
<1>15. CASE FinishSyncJob
  BY <1>15, NoTaskTyped DEF FinishSyncJob
<1>16. QED
  BY <1>1, <1>2, <1>3, <1>4, <1>5, <1>6, <1>7, <1>8, <1>9, <1>10, <1>11, <1>12,
     <1>13, <1>14, <1>15 DEF Step

\* So do the steps that go wrong.
LEMMA FaultSInv == SInv /\ Fault => SInv'
<1> SUFFICES ASSUME SInv, Fault PROVE SInv'
  OBVIOUS
<1> USE RegionAssumption, SavedTyped, TaskTyped
    DEF SInv, TypeOK, LoadedKnown, dbVars, Goto
<1>0. ErrorKind \in {"interrupted", "real"}
  BY DEF ErrorKind
<1>1. ASSUME NEW force \in BOOLEAN, StartSyncBlind(force) PROVE SInv'
  <2>1. PICK s \in Unknown :
          task' = [NoTask EXCEPT !.force = force, !.previous = s.previous,
                                 !.latestStatus = s.last]
    BY ONLY <1>1 DEF StartSyncBlind, StartWith
  <2>2. latest \in Row /\ success \in Row /\ s \in Known \cup Unknown
    OBVIOUS
  <2>3. task' \in Task
    BY ONLY <2>1, <2>2, StartTyped
  <2>4. QED
    BY <1>1, <2>3 DEF StartSyncBlind, StartWith
<1>2. CASE EnsureCacheReadyError
  BY <1>2 DEF EnsureCacheReadyError, RecordFailure
<1>3. CASE PersistPendingError
  BY <1>3, SaveTyped DEF PersistPendingError, RecordFailure
<1>4. CASE ResolveVersionError
  BY <1>4 DEF ResolveVersionError
<1>5. CASE KeepStoredSaveError
  BY <1>5, SaveTyped DEF KeepStoredSaveError, RecordFailure
<1>6. CASE ShortcutError
  BY <1>6 DEF ShortcutError
<1>7. CASE PersistRunningError
  BY <1>7, SaveTyped DEF PersistRunningError
<1>8. CASE LoadRegionError
  BY <1>8 DEF LoadRegionError, FailWith
<1>9. CASE LoadRegionRateLimited
  BY <1>9 DEF LoadRegionRateLimited
<1>10. CASE FallBackError
  <2>1. latest' \in Row /\ success' \in Row /\ UNCHANGED <<store, version>>
    BY <1>10, SaveTyped DEF FallBackError
  <2>2. QED
    BY <1>10, <2>1 DEF FallBackError, FailWith
<1>11. ASSUME NEW e \in Entity, StoreEntityError(e) PROVE SInv'
  <2> DEFINE kind == IF task.error = "none" THEN ErrorKind ELSE task.error
  <2>1. pc = "store" /\ task.loaded \in Commit
    BY <1>11 DEF StoreEntityError
  <2>2. kind \in {"none", "interrupted", "real"}
    BY <1>0 DEF Task
  <2>3. task' = [task EXCEPT !.todo = @ \ {e}, !.error = kind]
    BY <1>11 DEF StoreEntityError
  <2>4. task' \in Task /\ task'.loaded = task.loaded
    BY <2>2, <2>3, StoreTyped
  <2>5. store' \in [Entity -> Value \cup {Absent}]
    BY <1>11, <2>1, RecordsTyped DEF StoreEntityError
  <2>6. QED
    BY <1>11, <2>1, <2>4, <2>5 DEF StoreEntityError
<1>12. CASE PruneError
  BY <1>0, <1>12 DEF PruneError, Pruned, Present, FailWith
<1>13. CASE StoreVersionError
  BY <1>0, <1>13 DEF StoreVersionError, FailWith
<1>14. CASE FinishRegionError
  BY <1>14, SaveTyped DEF FinishRegionError, RecordFailure
<1>15. CASE PersistFailedError
  BY <1>15, SaveTyped DEF PersistFailedError
<1>16. CASE EndContext("canceled") \/ EndContext("expired")
  BY <1>16 DEF EndContext
<1>17. CASE Vanish
  BY <1>17, NoTaskTyped DEF Vanish
<1>18. QED
  BY <1>1, <1>2, <1>3, <1>4, <1>5, <1>6, <1>7, <1>8, <1>9, <1>10, <1>11, <1>12,
     <1>13, <1>14, <1>15, <1>16, <1>17 DEF Fault

LEMMA NextSInv == SInv /\ [Next]_vars => SInv'
<1> SUFFICES ASSUME SInv, [Next]_vars PROVE SInv'
  OBVIOUS
<1>1. ASSUME NEW force \in BOOLEAN, StartSync(force) PROVE SInv'
  <2>0. PICK s \in Known :
          task' = [NoTask EXCEPT !.force = force, !.previous = s.previous,
                                 !.latestStatus = s.last]
    BY ONLY <1>1 DEF StartSync, StartWith
  <2>1. task' \in Task
    <3>1. latest \in Row /\ success \in Row /\ s \in Known \cup Unknown
      BY DEF SInv, TypeOK
    <3>2. QED
      BY ONLY <2>0, <3>1, StartTyped
  <2>2. /\ pc' = "check" /\ ctx' = "live" /\ result' = "none"
        /\ UNCHANGED <<remote, store, version, latest, success>>
    BY <1>1 DEF StartSync, StartWith, dbVars, Goto
  <2>3. QED
    BY <2>1, <2>2 DEF SInv, TypeOK, LoadedKnown
<1>2. ASSUME NEW c \in Commit, Push(c) PROVE SInv'
  BY <1>2 DEF Push, SInv, TypeOK, LoadedKnown, dbVars
<1>3. CASE UNCHANGED vars
  BY <1>3 DEF vars, SInv, TypeOK, LoadedKnown, dbVars
<1>4. QED
  BY <1>1, <1>2, <1>3, StepSInv, FaultSInv DEF Next, Start

\* Every variable of the sync of a region keeps its type.
THEOREM RegionTypeCorrect == Spec => []TypeOK
<1>1. SInv => TypeOK
  BY DEF SInv
<1>2. QED
  BY <1>1, InitSInv, NextSInv, PTL DEF Spec

(***************************************************************************)
(* ServedStoreIsStable.  Under "running" \notin SaveMayLose the step of     *)
(* the "running" row writes it, even when the save is told it failed, so   *)
(* the load starts out of service; the steps up to the prune write no row. *)
(***************************************************************************)
LEMMA OutOfServiceStep ==
  ASSUME "running" \notin SaveMayLose, OutOfService, [Next]_vars
  PROVE  OutOfService'
<1> USE DEF OutOfService, Goto, dbVars
<1>1. CASE Start \/ \E force \in BOOLEAN : StartSyncBlind(force)
  BY <1>1 DEF Start, StartSync, StartSyncBlind, StartWith
<1>2. CASE EnsureCacheReady \/ EnsureCacheReadyError
  BY <1>2 DEF EnsureCacheReady, EnsureCacheReadyError
<1>3. CASE PersistPending \/ PersistPendingError
  BY <1>3 DEF PersistPending, PersistPendingError
<1>4. CASE ResolveVersion \/ ResolveVersionError
  BY <1>4 DEF ResolveVersion, ResolveVersionError
<1>5. CASE KeepStored \/ KeepStoredSaveError \/ ShortcutDeclined \/ ShortcutError
  BY <1>5 DEF KeepStored, KeepStoredSaveError, ShortcutDeclined, ShortcutError
<1>6. CASE PersistRunning
  BY <1>6 DEF PersistRunning, Save, Suppressed, Append, IsSuccess
<1>7. CASE PersistRunningError
  BY <1>7 DEF PersistRunningError, SaveFails, Append, IsSuccess
<1>8. CASE LoadRegion \/ LoadRegionError \/ LoadRegionRateLimited
  BY <1>8 DEF LoadRegion, LoadRegionError, LoadRegionRateLimited, FailWith
<1>9. CASE FallBack \/ FallBackError
  BY <1>9 DEF FallBack, FallBackError, FailWith
<1>10. CASE \E e \in Entity : StoreEntity(e) \/ StoreEntityError(e)
  BY <1>10 DEF StoreEntity, StoreEntityError
<1>11. CASE StoreDone
  BY <1>11 DEF StoreDone, FailWith
<1>12. CASE Prune \/ PruneError
  BY <1>12 DEF Prune, PruneError, FailWith
<1>13. CASE StoreVersion \/ StoreVersionError
  BY <1>13 DEF StoreVersion, StoreVersionError, FailWith
<1>14. CASE FinishRegion \/ FinishRegionError
  BY <1>14 DEF FinishRegion, FinishRegionError
<1>15. CASE PersistFailed \/ PersistFailedError
  BY <1>15 DEF PersistFailed, PersistFailedError
<1>16. CASE FinishSyncJob \/ Vanish
  BY <1>16 DEF FinishSyncJob, Vanish
<1>17. CASE \/ EndContext("canceled") \/ EndContext("expired")
            \/ \E c \in Commit : Push(c)
  BY <1>17 DEF EndContext, Push
<1>18. CASE UNCHANGED vars
  BY <1>18 DEF vars
<1>19. QED
  BY <1>1, <1>2, <1>3, <1>4, <1>5, <1>6, <1>7, <1>8, <1>9, <1>10, <1>11, <1>12,
     <1>13, <1>14, <1>15, <1>16, <1>17, <1>18 DEF Next, Step, Fault

\* The records change in three steps only, and all of them are at "store" or
\* at "prune".
LEMMA RecordsChangeWhere ==
  ASSUME [Next]_vars
  PROVE  store' = store \/ (pc \in {"store", "prune"} /\ latest' = latest)
<1> USE DEF dbVars, Save, SaveFails
<1>1. CASE Start \/ \E c \in Commit : Push(c)
  BY <1>1 DEF Start, StartSync, StartWith, Push
<1>2. CASE Step
  BY <1>2 DEF Step, EnsureCacheReady, PersistPending, ResolveVersion, KeepStored,
     SaveSkip, ShortcutDeclined, PersistRunning, LoadRegion, FallBack, StoreEntity,
     StoreDone, Prune, StoreVersion, FinishRegion, PersistFailed, FinishSyncJob
<1>3. CASE Fault
  BY <1>3 DEF Fault, StartSyncBlind, StartWith, EnsureCacheReadyError,
     PersistPendingError, ResolveVersionError, KeepStoredSaveError, ShortcutError,
     PersistRunningError, LoadRegionError, LoadRegionRateLimited, FallBackError,
     StoreEntityError, PruneError, StoreVersionError, FinishRegionError,
     PersistFailedError, EndContext, Vanish
<1>4. CASE UNCHANGED vars
  BY <1>4 DEF vars
<1>5. QED
  BY <1>1, <1>2, <1>3, <1>4 DEF Next

\* Every step of a sync is a step of a published region, or changes nothing
\* a reader sees.
LEMMA StepIsPublished ==
  ASSUME SInv, SInv', OutOfService, [Next]_vars
  PROVE  [Region!Next]_(Region!regionVars)
<1>1. IsSuccess(latest) \in BOOLEAN /\ IsSuccess(latest') \in BOOLEAN
  BY DEF IsSuccess
<1>2. store' \in [Entity -> Value \cup {Absent}]
  BY DEF SInv, TypeOK
<1>3. CASE store' = store
  BY <1>1, <1>3 DEF Region!Next, Region!Withdraw, Region!Publish, Region!regionVars
<1>4. CASE store' # store
  <2>1. pc \in {"store", "prune"} /\ latest' = latest
    BY <1>4, RecordsChangeWhere
  <2>2. ~IsSuccess(latest)
    BY <2>1 DEF OutOfService
  <2>3. QED
    BY <1>2, <2>1, <2>2 DEF Region!Next, Region!Change
<1>5. QED
  BY <1>3, <1>4

\* While the latest status of a region is success its records stay as they
\* are: the sync implements the published region.
THEOREM ServedRegionIsStable ==
  ASSUME "running" \notin SaveMayLose
  PROVE  Spec => ServedStoreIsStable
<1>1. Init => SInv /\ OutOfService /\ Region!Init
  BY InitSInv DEF Init, OutOfService, Region!Init, IsSuccess, NoRow
<1>2. SInv /\ OutOfService /\ [Next]_vars => SInv' /\ OutOfService'
  BY NextSInv, OutOfServiceStep
<1>3. SInv /\ SInv' /\ OutOfService /\ [Next]_vars
        => [Region!Next]_(Region!regionVars)
  BY StepIsPublished
<1>4. QED
  BY <1>1, <1>2, <1>3, PTL DEF Spec, ServedStoreIsStable, Region!Spec

-----------------------------------------------------------------------------
(* What a success row means.                                                *)

\* The newest commit whose records may be stored.
Newest ==
  IF task.resolved # NoCommit THEN task.resolved
  ELSE IF task.loaded # NoCommit THEN task.loaded ELSE remote

\* Every record is that of a commit from oldest to the newest.
Mix(Age, oldest) ==
  /\ oldest \in Commit
  /\ Age[oldest] <= Age[Newest]
  /\ \A e \in Entity : \E d \in Commit :
       Age[oldest] <= Age[d] /\ Age[d] <= Age[Newest] /\ store[e] = Data[d][e]

\* Until it stores, a job knows the success row as it is, and the store as
\* the job of that row left it.
BeforeStore == {"check", "pending", "compare", "unchanged", "manifest",
                "running", "load", "fallback"}

Resolved(Age) ==
  /\ task.resolved # NoCommit => Age[task.resolved] <= Age[remote]
  /\ task.loaded # NoCommit => Age[task.loaded] <= Age[remote]
  /\ pc = "idle" => task = NoTask
  /\ pc \in {"check", "pending", "compare"} => task.resolved = NoCommit
  /\ pc \in {"unchanged", "manifest"} => task.resolved # NoCommit
  /\ pc = "unchanged" => UnchangedCommit(task.resolved)
  /\ pc = "fallback" => task.latestStatus = "success"
  /\ pc \in BeforeStore => task.loaded = NoCommit
  /\ pc \in {"store", "prune", "version", "finish"} =>
       task.loaded # NoCommit /\ task.resolved \in {NoCommit, task.loaded}

PayloadBound(Age) ==
  version # NoVersion => \E g \in Commit : version = Manifest[g] /\ Mix(Age, g)

SuccessBound(Age) ==
  IsSuccess(success) /\ success.commit # NoCommit =>
    /\ Mix(Age, success.commit)
    /\ Manifest[success.commit] # NoVersion =>
         \E d \in Commit : /\ version = Manifest[d]
                           /\ Age[success.commit] <= Age[d] /\ Age[d] <= Age[Newest]

DescribedBy(row) == \E c \in Commit : row.commit \in {NoCommit, c} /\ Describes(c)

PreviousKnown ==
  /\ IsSuccess(latest) => success = latest
  /\ pc \in BeforeStore /\ IsSuccess(task.previous) => task.previous = success
  /\ pc \in BeforeStore /\ task.latestStatus = "success" => DescribedBy(task.previous)

\* What the job has stored of its commit.
Stored ==
  /\ pc = "store" /\ task.error = "none" =>
       \A e \in Present(task.loaded) \ task.todo : store[e] = Data[task.loaded][e]
  /\ pc = "prune" => \A e \in Present(task.loaded) : store[e] = Data[task.loaded][e]
  /\ pc \in {"version", "finish"} => store = Data[task.loaded]
  /\ pc = "finish" /\ Manifest[task.loaded] # NoVersion =>
       version = Manifest[task.loaded]
  /\ pc \in {"load", "store", "prune", "version", "finish"} => ~IsSuccess(latest)

HInv(Age) ==
  /\ Resolved(Age) /\ PayloadBound(Age) /\ SuccessBound(Age)
  /\ PreviousKnown /\ Stored /\ SuccessDescribesStore

-----------------------------------------------------------------------------
(***************************************************************************)
(* What a job reports, and which errors it writes down.  An error counted  *)
(* as the cancelling's own is met after the cancelling, which holds the    *)
(* failed row back.                                                        *)
(***************************************************************************)
JobInv ==
  /\ task.error = "interrupted" => ctx = "canceled"
  /\ pc = "failing" => task.error # "none" /\ task.failed
  /\ pc = "finished" /\ ~task.failed /\ ctx # "canceled" => IsSuccess(latest)
  /\ pc # "idle" => result = "none"
  /\ ReportedSuccessIsRecorded

LEMMA InitJobInv == Init => JobInv
BY DEF Init, JobInv, NoTask, ReportedSuccessIsRecorded

\* The fields of an updated task.
LEMMA TaskFields ==
  ASSUME task \in Task
  PROVE  /\ [task EXCEPT !.failed = TRUE].failed
         /\ [task EXCEPT !.failed = TRUE].error = task.error
         /\ \A x : [task EXCEPT !.cacheReady = x].error = task.error
         /\ \A x : [task EXCEPT !.cacheReady = x].failed = task.failed
         /\ \A x : [task EXCEPT !.resolved = x].error = task.error
         /\ \A x : [task EXCEPT !.resolved = x].failed = task.failed
         /\ \A x, y : [task EXCEPT !.loaded = x, !.todo = y].error = task.error
         /\ \A x : [task EXCEPT !.todo = x].error = task.error
         /\ \A x, y : [task EXCEPT !.todo = x, !.error = y].error = y
         /\ \A x : /\ [task EXCEPT !.failed = TRUE, !.error = x].failed
                   /\ [task EXCEPT !.failed = TRUE, !.error = x].error = x
BY DEF Task

LEMMA NextJobInv == SInv /\ JobInv /\ [Next]_vars => JobInv'
<1> SUFFICES ASSUME SInv, JobInv, [Next]_vars PROVE JobInv'
  OBVIOUS
<1> USE DEF JobInv, ReportedSuccessIsRecorded, Goto, dbVars
<1>0. task \in Task
  BY DEF SInv, TypeOK
<1>1. ASSUME NEW force \in BOOLEAN, StartSync(force) \/ StartSyncBlind(force)
      PROVE  JobInv'
  BY <1>1 DEF StartSync, StartSyncBlind, StartWith, NoTask
<1>2. CASE EnsureCacheReady \/ EnsureCacheReadyError
  <2>1. CASE EnsureCacheReady
    <3>1. task'.error = task.error
      BY <1>0, <2>1, TaskFields DEF EnsureCacheReady
    <3>2. pc = "check" /\ pc' \in {"compare", "pending"} /\ UNCHANGED <<latest, ctx, result>>
      BY <2>1 DEF EnsureCacheReady
    <3>3. QED
      BY <3>1, <3>2
  <2>2. CASE EnsureCacheReadyError
    BY <1>0, <2>2, TaskFields DEF EnsureCacheReadyError, RecordFailure
  <2>3. QED
    BY <1>2, <2>1, <2>2
<1>3. CASE PersistPending \/ PersistPendingError
  BY <1>0, <1>3, TaskFields DEF PersistPending, PersistPendingError, RecordFailure
<1>4. CASE ResolveVersion \/ ResolveVersionError
  <2>1. task' = task \/ task' = [task EXCEPT !.resolved = remote]
    BY <1>4 DEF ResolveVersion, ResolveVersionError
  <2>2. task'.error = task.error
    BY ONLY <1>0, <2>1 DEF Task
  <2>3. pc = "compare" /\ pc' \in {"running", "unchanged", "manifest"}
    <3>1. CASE ResolveVersion
      BY ONLY <3>1 DEF ResolveVersion, Goto
    <3>2. CASE ResolveVersionError
      BY ONLY <3>2 DEF ResolveVersionError, Goto
    <3>3. QED
      BY <1>4, <3>1, <3>2
  <2>4. UNCHANGED <<latest, ctx, result>>
    BY <1>4 DEF ResolveVersion, ResolveVersionError
  <2>5. QED
    BY <2>2, <2>3, <2>4
<1>5. CASE KeepStored
  BY <1>5 DEF KeepStored, MayKeepStored, SaveSkip, Save, Suppressed, Append, IsSuccess
<1>6. CASE KeepStoredSaveError
  BY <1>0, <1>6, TaskFields DEF KeepStoredSaveError, MayKeepStored, RecordFailure
<1>7. CASE ShortcutDeclined \/ ShortcutError
  BY <1>7 DEF ShortcutDeclined, ShortcutError
<1>8. CASE PersistRunning \/ PersistRunningError
  BY <1>8 DEF PersistRunning, PersistRunningError
<1>9. CASE LoadRegion \/ LoadRegionRateLimited
  <2> DEFINE commit == IF task.resolved = NoCommit THEN remote ELSE task.resolved
  <2>0. \/ task' = task
        \/ task' = [task EXCEPT !.loaded = commit, !.todo = Present(commit)]
    BY <1>9 DEF LoadRegion, LoadRegionRateLimited
  <2> HIDE DEF commit
  <2>1. task'.error = task.error
    BY ONLY <1>0, <2>0 DEF Task
  <2>2. pc = "load" /\ pc' \in {"store", "fallback"} /\ UNCHANGED <<latest, ctx, result>>
    BY <1>9 DEF LoadRegion, LoadRegionRateLimited
  <2>3. QED
    BY <2>1, <2>2
<1>10. CASE LoadRegionError
  BY <1>0, <1>10, TaskFields DEF LoadRegionError, FailWith
<1>11. CASE FallBack
  BY <1>11 DEF FallBack, Save, Suppressed, Append, IsSuccess
<1>12. CASE FallBackError
  BY <1>0, <1>12, TaskFields DEF FallBackError, FailWith
<1>13. ASSUME NEW e \in Entity, StoreEntity(e) \/ StoreEntityError(e)
       PROVE  JobInv'
  <2> DEFINE left == task.todo \ {e}
             kind == IF task.error = "none" THEN ErrorKind ELSE task.error
  <2>0. \/ task' = [task EXCEPT !.todo = left]
        \/ task' = [task EXCEPT !.todo = left, !.error = kind]
    BY <1>13 DEF StoreEntity, StoreEntityError
  <2>5. kind \in {task.error, ErrorKind}
    OBVIOUS
  <2> HIDE DEF left, kind
  <2>1. task'.error \in {task.error, ErrorKind}
    BY ONLY <1>0, <2>0, <2>5 DEF Task
  <2>2. pc = "store" /\ UNCHANGED <<pc, latest, ctx, result>>
    BY <1>13 DEF StoreEntity, StoreEntityError
  <2>3. QED
    BY <2>1, <2>2 DEF ErrorKind
<1>14. CASE StoreDone
  <2>1. UNCHANGED <<latest, ctx, result>>
    BY <1>14 DEF StoreDone
  <2>2. /\ pc = "store"
        /\ \/ pc' = "prune" /\ task' = task
           \/ /\ pc' = "failing" /\ task.error # "none"
              /\ task' = [task EXCEPT !.failed = TRUE, !.error = task.error]
    BY ONLY <1>14 DEF StoreDone, FailWith, Goto
  <2>3. /\ task'.error = task.error
        /\ pc' = "failing" => task'.failed /\ task.error # "none"
    BY ONLY <1>0, <2>2, TaskFields
  <2>4. QED
    BY <2>1, <2>2, <2>3
<1>15. CASE Prune \/ StoreVersion
  BY <1>15 DEF Prune, StoreVersion
<1>16. CASE PruneError \/ StoreVersionError
  <2>1. UNCHANGED <<latest, ctx, result>>
    BY <1>16 DEF PruneError, StoreVersionError
  <2>2. /\ pc \in {"prune", "version"} /\ pc' = "failing"
        /\ task' = [task EXCEPT !.failed = TRUE, !.error = ErrorKind]
    BY ONLY <1>16 DEF PruneError, StoreVersionError, FailWith, Goto
  <2>3. task'.failed /\ task'.error = ErrorKind
    BY ONLY <1>0, <2>2, TaskFields
  <2>4. QED
    BY <2>1, <2>2, <2>3 DEF ErrorKind
<1>17. CASE FinishRegion
  BY <1>17 DEF FinishRegion, Save, Suppressed, Append, IsSuccess
<1>18. CASE FinishRegionError
  BY <1>0, <1>18, TaskFields DEF FinishRegionError, RecordFailure
<1>19. CASE PersistFailed \/ PersistFailedError
  BY <1>19 DEF PersistFailed, PersistFailedError
<1>20. CASE FinishSyncJob \/ Vanish
  BY <1>20 DEF FinishSyncJob, Vanish, NoTask
<1>21. CASE EndContext("canceled") \/ EndContext("expired")
  BY <1>21 DEF EndContext
<1>22. CASE UNCHANGED vars \/ \E c \in Commit : Push(c)
  BY <1>22 DEF Push, vars
<1>23. QED
  BY <1>1, <1>2, <1>3, <1>4, <1>5, <1>6, <1>7, <1>8, <1>9, <1>10, <1>11, <1>12,
     <1>13, <1>14, <1>15, <1>16, <1>17, <1>18, <1>19, <1>20, <1>21, <1>22
     DEF Next, Start, Step, Fault

\* A failed row is written at "failing" only, by a job that is not cancelled.
LEMMA FailedRowIsReal ==
  ASSUME SInv, JobInv, [Next]_vars, latest' # latest, latest'.state = "failed"
  PROVE  task.error = "real"
<1> USE DEF Goto, dbVars
<1>1. CASE Start \/ \E c \in Commit : Push(c)
  BY <1>1 DEF Start, StartSync, StartWith, Push
<1>2. CASE PersistFailed \/ PersistFailedError
  <2>1. ctx # "canceled"
    BY <1>2 DEF PersistFailed, PersistFailedError, Save, SaveFails, Suppressed
  <2>2. task.error # "none" /\ task.error # "interrupted"
    BY <1>2, <2>1 DEF JobInv, PersistFailed, PersistFailedError
  <2>3. task.error \in {"none", "interrupted", "real"}
    BY DEF SInv, TypeOK, Task
  <2>4. QED
    BY <2>2, <2>3
<1>3. CASE Step /\ ~PersistFailed
  BY <1>3 DEF Step, EnsureCacheReady, PersistPending, ResolveVersion, KeepStored,
     SaveSkip, ShortcutDeclined, PersistRunning, LoadRegion, FallBack, StoreEntity,
     StoreDone, Prune, StoreVersion, FinishRegion, FinishSyncJob, Save, Append
<1>4. CASE Fault /\ ~PersistFailedError
  <2>1. \A s \in State, c \in Commit \cup {NoCommit} :
          SaveFails(s, c) => latest' = latest \/ latest'.state = s
    BY DEF SaveFails, Append
  <2>2. "pending" \in State /\ "running" \in State /\ "success" \in State
    BY DEF State
  <2>3. task.resolved \in Commit \cup {NoCommit} /\ task.previous.commit \in Commit \cup {NoCommit}
    BY SavedTyped DEF SInv, TypeOK
  <2>4. QED
    BY <1>4, <2>1, <2>2, <2>3
    DEF Fault, StartSyncBlind, StartWith, EnsureCacheReadyError,
        PersistPendingError, ResolveVersionError, KeepStoredSaveError,
        ShortcutError, PersistRunningError, LoadRegionError,
        LoadRegionRateLimited, FallBackError, StoreEntityError, PruneError,
        StoreVersionError, FinishRegionError, EndContext, Vanish
<1>5. QED
  BY <1>1, <1>2, <1>3, <1>4 DEF Next, vars

\* A job that reports success has left its region with a success row.
THEOREM SuccessIsRecorded == Spec => []ReportedSuccessIsRecorded
<1>1. JobInv => ReportedSuccessIsRecorded
  BY DEF JobInv
<1>2. QED
  BY <1>1, InitSInv, NextSInv, InitJobInv, NextJobInv, PTL DEF Spec

\* A job that was cancelled leaves its region recoverable: a failed row is
\* only ever written for an error that was not the cancelling's own.
THEOREM CanceledStaysRecoverable == Spec => InterruptedStaysRecoverable
<1>1. SInv /\ JobInv /\ [Next]_vars =>
        [latest' # latest /\ latest'.state = "failed" => task.error = "real"]_vars
  BY FailedRowIsReal
<1>2. QED
  BY <1>1, InitSInv, NextSInv, InitJobInv, NextJobInv, PTL
     DEF Spec, InterruptedStaysRecoverable

-----------------------------------------------------------------------------
(***************************************************************************)
(* SuccessDescribesStore, on forward histories.                            *)
(***************************************************************************)
LEMMA NewestTyped == SInv => Newest \in Commit
BY DEF SInv, TypeOK, Task, Newest

Newer(Age) == Newest \in Commit /\ Newest' \in Commit /\ Age[Newest] <= Age[Newest']

\* The bounds hold on while nothing is stored.
LEMMA MixKept ==
  ASSUME NEW Age, ForwardHistory(Age), Newer(Age), store' = store,
         NEW c, Mix(Age, c)
  PROVE  Mix(Age, c)'
<1>1. \A d \in Commit : Age[d] \in Nat
  BY DEF ForwardHistory
<1>2. c \in Commit /\ Newest \in Commit /\ Newest' \in Commit /\ Age[Newest] <= Age[Newest']
  BY DEF Mix, Newer
<1>3. Age[c] <= Age[Newest']
  BY <1>1, <1>2 DEF Mix
<1>4. ASSUME NEW e \in Entity
      PROVE  \E d \in Commit :
               Age[c] <= Age[d] /\ Age[d] <= Age[Newest'] /\ store'[e] = Data[d][e]
  <2>1. PICK d \in Commit : Age[c] <= Age[d] /\ Age[d] <= Age[Newest] /\ store[e] = Data[d][e]
    BY DEF Mix
  <2>2. Age[d] <= Age[Newest']
    BY <1>1, <1>2, <2>1
  <2>3. QED
    BY <2>1, <2>2
<1>5. QED
  BY <1>2, <1>3, <1>4 DEF Mix

LEMMA PayloadKept ==
  ASSUME NEW Age, ForwardHistory(Age), Newer(Age), UNCHANGED <<store, version>>,
         PayloadBound(Age)
  PROVE  PayloadBound(Age)'
<1>1. \A g : Mix(Age, g) => Mix(Age, g)'
  BY MixKept
<1>2. QED
  BY <1>1 DEF PayloadBound

LEMMA SuccessKept ==
  ASSUME NEW Age, ForwardHistory(Age), Newer(Age), UNCHANGED <<store, version, success>>,
         SuccessBound(Age)
  PROVE  SuccessBound(Age)'
<1> SUFFICES ASSUME IsSuccess(success), success.commit # NoCommit
             PROVE  SuccessBound(Age)'
  BY DEF SuccessBound, IsSuccess
<1>1. Mix(Age, success.commit)'
  BY MixKept DEF SuccessBound
<1>2. ASSUME Manifest[success.commit] # NoVersion
      PROVE  \E d \in Commit : /\ version = Manifest[d]
                               /\ Age[success.commit] <= Age[d] /\ Age[d] <= Age[Newest']
  <2>1. PICK d \in Commit : /\ version = Manifest[d]
                            /\ Age[success.commit] <= Age[d] /\ Age[d] <= Age[Newest]
    BY <1>2 DEF SuccessBound
  <2>2. Age[d] <= Age[Newest']
    BY <2>1 DEF Newer, ForwardHistory
  <2>3. QED
    BY <2>1, <2>2
<1>3. QED
  BY <1>1, <1>2 DEF SuccessBound

\* A step of the job that stores nothing and saves no row keeps what is said
\* of stored data.
LEMMA QuietStep ==
  ASSUME NEW Age, ForwardHistory(Age), HInv(Age), Newer(Age), UNCHANGED dbVars
  PROVE  PayloadBound(Age)' /\ SuccessBound(Age)' /\ SuccessDescribesStore'
<1>1. UNCHANGED <<store, version, success, latest>>
  BY DEF dbVars
<1>2. PayloadBound(Age)' /\ SuccessBound(Age)'
  BY <1>1, PayloadKept, SuccessKept DEF HInv
<1>3. SuccessDescribesStore'
  BY <1>1 DEF HInv, SuccessDescribesStore, Describes
<1>4. QED
  BY <1>2, <1>3

\* A row may be saved when, being a success, it describes the store and is the
\* latest success already, or names the newest commit or none.
Fits(row) ==
  IsSuccess(row) =>
    DescribedBy(row) /\ (row = success \/ row.commit \in {NoCommit, Newest})

LEMMA SavingStep ==
  ASSUME NEW Age, ForwardHistory(Age), HInv(Age), UNCHANGED <<store, version>>,
         Newest \in Commit, Newest' = Newest, NEW row, Fits(row), Append(row)
  PROVE  /\ PayloadBound(Age)' /\ SuccessBound(Age)' /\ SuccessDescribesStore'
         /\ IsSuccess(latest') => success' = latest'
<1>1. Newer(Age)
  BY DEF Newer, ForwardHistory
<1>2. PayloadBound(Age)'
  BY <1>1, PayloadKept DEF HInv
<1>3. SuccessDescribesStore' /\ (IsSuccess(latest') => success' = latest')
  BY DEF Append, Fits, DescribedBy, SuccessDescribesStore, Describes
<1>4. ASSUME success' = success
      PROVE  SuccessBound(Age)'
  <2>1. UNCHANGED <<store, version, success>> /\ SuccessBound(Age)
    BY <1>4 DEF HInv
  <2>2. QED
    BY <1>1, <2>1, SuccessKept
<1>5. ASSUME success' # success
      PROVE  SuccessBound(Age)'
  <2>1. success' = row /\ IsSuccess(row) /\ row.commit \in {NoCommit, Newest}
    BY <1>5 DEF Append, Fits
  <2>2. ASSUME row.commit = Newest, Newest # NoCommit
        PROVE  SuccessBound(Age)'
    <3>1. Describes(Newest)
      BY <2>1, <2>2 DEF Fits, DescribedBy
    <3>2. Age[Newest] <= Age[Newest]
      BY DEF ForwardHistory
    <3>3. QED
      BY <2>1, <2>2, <3>1, <3>2 DEF SuccessBound, Mix, Describes
  <2>3. CASE row.commit = NoCommit
    BY <2>1, <2>3 DEF SuccessBound
  <2>4. QED
    BY <2>1, <2>2, <2>3
<1>6. QED
  BY <1>2, <1>3, <1>4, <1>5

\* Storing records of the newest commit keeps the bounds.
LEMMA MixStored ==
  ASSUME NEW Age, ForwardHistory(Age), Newest \in Commit, Newest' = Newest,
         \A e \in Entity : store'[e] \in {store[e], Data[Newest][e]},
         NEW c, Mix(Age, c)
  PROVE  Mix(Age, c)'
<1>1. Age[Newest] <= Age[Newest]
  BY DEF ForwardHistory
<1>2. QED
  BY <1>1 DEF Mix

\* A step that stores records or the payload of the newest commit, out of
\* service.
LEMMA WritingStep ==
  ASSUME NEW Age, ForwardHistory(Age), HInv(Age), UNCHANGED <<latest, success>>,
         Newest \in Commit, Newest' = Newest, ~IsSuccess(latest),
         \A e \in Entity : store'[e] \in {store[e], Data[Newest][e]},
         \/ version' = version
         \/ version' = Manifest[Newest] /\ store' = Data[Newest]
  PROVE  PayloadBound(Age)' /\ SuccessBound(Age)' /\ SuccessDescribesStore'
<1>1. Age[Newest] <= Age[Newest]
  BY DEF ForwardHistory
<1>2. \A c : Mix(Age, c) => Mix(Age, c)'
  BY MixStored
<1>3. store' = Data[Newest] => Mix(Age, Newest)'
  BY <1>1 DEF Mix
<1>4. PayloadBound(Age)'
  BY <1>2, <1>3 DEF HInv, PayloadBound
<1>5. SuccessBound(Age)'
  BY <1>1, <1>2 DEF HInv, SuccessBound, Mix, IsSuccess
<1>6. SuccessDescribesStore'
  BY DEF SuccessDescribesStore, IsSuccess
<1>7. QED
  BY <1>4, <1>5, <1>6

\* The shortcut is taken only when the store holds the resolved commit.
LEMMA ShortcutDescribes ==
  ASSUME NEW Age, ForwardHistory(Age), SInv, HInv(Age), MayKeepStored
  PROVE  task.resolved = Newest /\ Describes(task.resolved)
<1> DEFINE c == task.resolved
<1>1. c \in Commit /\ c = Newest
  <2>1. c # NoCommit
    BY DEF MayKeepStored, HInv, Resolved
  <2>2. QED
    BY <2>1 DEF Newest, SInv, TypeOK, Task
<1>2. \A d \in Commit : Age[d] \in Nat
  BY DEF ForwardHistory
<1>3. DOMAIN store = Entity /\ DOMAIN Data[c] = Entity
      /\ store = [e \in Entity |-> store[e]] /\ Data[c] = [e \in Entity |-> Data[c][e]]
  BY <1>1, RegionAssumption DEF SInv, TypeOK
<1>4. CASE pc = "unchanged"
  <2>1. IsSuccess(task.previous) /\ task.previous.commit = c
    BY <1>4 DEF HInv, Resolved, UnchangedCommit
  <2>2. task.previous = success
    BY <1>4, <2>1 DEF HInv, PreviousKnown, BeforeStore
  <2>3. \A d \in Commit : Age[c] <= Age[d] /\ Age[d] <= Age[c] => d = c
    BY <1>1, <1>2 DEF ForwardHistory
  <2>4. c # NoCommit
    BY <1>1, RegionAssumption
  <2>5. \A e \in Entity : store[e] = Data[c][e]
    BY <1>1, <2>1, <2>2, <2>3, <2>4 DEF HInv, SuccessBound, Mix
  <2>6. Manifest[c] # NoVersion => version = Manifest[c]
    BY <1>1, <2>1, <2>2, <2>3, <2>4 DEF HInv, SuccessBound
  <2>7. QED
    BY <1>1, <1>3, <2>5, <2>6 DEF Describes
<1>5. CASE pc = "manifest"
  <2>1. version # NoVersion /\ version = Manifest[c]
    BY <1>5 DEF MayKeepStored
  <2>2. PICK g \in Commit : version = Manifest[g] /\ Mix(Age, g)
    BY <2>1 DEF HInv, PayloadBound
  <2>3. \A d \in Commit : Age[g] <= Age[d] /\ Age[d] <= Age[c] => Data[d] = Data[c]
    <3>1. \A x, m, d \in Commit :
            (Manifest[x] = Manifest[d] /\ Manifest[x] # NoVersion
               /\ Age[x] <= Age[m] /\ Age[m] <= Age[d]) => Data[m] = Data[d]
      BY DEF ForwardHistory
    <3>2. Manifest[g] = Manifest[c] /\ Manifest[g] # NoVersion
      BY <2>1, <2>2
    <3>3. QED
      BY ONLY <1>1, <3>1, <3>2, <2>2
  <2>4. \A e \in Entity : store[e] = Data[c][e]
    BY <1>1, <2>2, <2>3 DEF Mix
  <2>5. QED
    BY <1>1, <1>3, <2>1, <2>4 DEF Describes
<1>6. QED
  BY <1>4, <1>5 DEF MayKeepStored

\* What the bounds depend on in a task.
Aims(t) == <<t.resolved, t.loaded, t.previous, t.latestStatus>>

LEMMA SameNewest ==
  ASSUME NEW Age, ForwardHistory(Age), SInv, Aims(task') = Aims(task), remote' = remote
  PROVE  Newest \in Commit /\ Newest' = Newest /\ Newer(Age)
<1>1. Newest \in Commit
  BY NewestTyped
<1>2. Newest' = Newest
  BY DEF Newest, Aims
<1>3. QED
  BY <1>1, <1>2 DEF Newer, ForwardHistory

\* A job that goes on, or ends, without storing.
LEMMA PreviousStep ==
  ASSUME PreviousKnown, UNCHANGED <<store, version>>, Aims(task') = Aims(task),
         pc' \in BeforeStore => pc \in BeforeStore /\ success' = success,
         IsSuccess(latest') => success' = latest'
  PROVE  PreviousKnown'
BY DEF PreviousKnown, Aims, DescribedBy, Describes

LEMMA InitHInv ==
  ASSUME NEW Age, ForwardHistory(Age)
  PROVE  Init => HInv(Age)
BY DEF Init, HInv, Resolved, PayloadBound, SuccessBound, PreviousKnown, Stored,
       SuccessDescribesStore, NoTask, NoRow, IsSuccess, BeforeStore

\* A job starts, and learns the status rows or not.
LEMMA StartHInv ==
  ASSUME NEW Age, ForwardHistory(Age), SInv, HInv(Age), NEW force \in BOOLEAN,
         StartSync(force) \/ StartSyncBlind(force)
  PROVE  HInv(Age)'
<1>1. PICK s \in Known \cup Unknown :
        task' = [NoTask EXCEPT !.force = force, !.previous = s.previous,
                               !.latestStatus = s.last]
  BY DEF StartSync, StartSyncBlind, StartWith
<1>2. /\ task'.resolved = NoCommit /\ task'.loaded = NoCommit
      /\ task'.previous = s.previous /\ task'.latestStatus = s.last
  BY <1>1 DEF NoTask
<1>3. pc = "idle" /\ pc' = "check" /\ remote' = remote /\ UNCHANGED dbVars
  BY DEF StartSync, StartSyncBlind, StartWith, Goto
<1>4. task = NoTask /\ Newest' = Newest /\ Newest \in Commit
  BY <1>2, <1>3, NewestTyped DEF HInv, Resolved, Newest, NoTask
<1>5. Newer(Age)
  BY <1>4 DEF Newer, ForwardHistory
<1>6. PayloadBound(Age)' /\ SuccessBound(Age)' /\ SuccessDescribesStore'
  BY <1>3, <1>5, QuietStep
<1>7. Resolved(Age)'
  BY <1>2, <1>3 DEF Resolved
<1>8. PreviousKnown'
  <2>1. IsSuccess(latest) => success = latest /\ DescribedBy(latest)
    BY DEF HInv, PreviousKnown, SuccessDescribesStore, DescribedBy
  <2>2. IsSuccess(s.previous) => s.previous = success
    BY <2>1 DEF Known, Unknown, IsSuccess, NoRow
  <2>3. s.last = "success" => DescribedBy(s.previous)
    BY <2>1 DEF Known, Unknown, IsSuccess
  <2>4. UNCHANGED <<store, version, success, latest>>
    BY <1>3 DEF dbVars
  <2>5. QED
    BY <1>2, <2>1, <2>2, <2>3, <2>4 DEF PreviousKnown, DescribedBy, Describes
<1>9. Stored'
  BY <1>3 DEF Stored
<1>10. QED
  BY <1>6, <1>7, <1>8, <1>9 DEF HInv

\* The steps before the load that save nothing, and those that end a job.
LEMMA QuietHInv ==
  ASSUME NEW Age, ForwardHistory(Age), SInv, HInv(Age),
         \/ EnsureCacheReady \/ EnsureCacheReadyError \/ ResolveVersionError
         \/ ShortcutDeclined \/ ShortcutError
         \/ LoadRegionError \/ LoadRegionRateLimited \/ StoreDone
         \/ EndContext("canceled") \/ EndContext("expired")
  PROVE  HInv(Age)'
<1>0. task \in Task
  BY DEF SInv, TypeOK
<1>1. remote' = remote /\ UNCHANGED dbVars
  BY DEF EnsureCacheReady, EnsureCacheReadyError, ResolveVersionError,
         ShortcutDeclined, ShortcutError, LoadRegionError, LoadRegionRateLimited,
         StoreDone, EndContext, dbVars
<1>2. Aims(task') = Aims(task)
  <2>1. \/ task' = task
        \/ task' = [task EXCEPT !.failed = TRUE]
        \/ \E x : task' = [task EXCEPT !.failed = TRUE, !.error = x]
        \/ \E x : task' = [task EXCEPT !.cacheReady = x]
    BY DEF EnsureCacheReady, EnsureCacheReadyError, ResolveVersionError,
           ShortcutDeclined, ShortcutError, LoadRegionError, LoadRegionRateLimited,
           StoreDone, EndContext, RecordFailure, FailWith
  <2>2. QED
    BY ONLY <1>0, <2>1 DEF Task, Aims
<1>3. Newer(Age)
  BY <1>1, <1>2, SameNewest
<1>4. \/ pc' = pc /\ task' = task
      \/ pc = "check" /\ pc' \in {"compare", "pending", "finished"}
      \/ pc \in {"compare", "unchanged", "manifest"} /\ pc' = "running"
      \/ pc = "load" /\ pc' \in {"finished", "failing"}
      \/ pc = "load" /\ pc' = "fallback" /\ task.latestStatus = "success"
      \/ pc = "store" /\ pc' = "prune" /\ task.todo = {} /\ task.error = "none"
      \/ pc = "store" /\ pc' = "failing"
  BY DEF EnsureCacheReady, EnsureCacheReadyError, ResolveVersionError,
         ShortcutDeclined, ShortcutError, LoadRegionError, LoadRegionRateLimited,
         StoreDone, EndContext, Goto, FailWith, MayFallBack
<1>5. PayloadBound(Age)' /\ SuccessBound(Age)' /\ SuccessDescribesStore'
  BY <1>1, <1>3, QuietStep
<1>6. Resolved(Age)'
  BY <1>1, <1>2, <1>4 DEF HInv, Resolved, Aims, BeforeStore, UnchangedCommit
<1>7. PreviousKnown'
  <2>1. pc' \in BeforeStore => pc \in BeforeStore
    BY <1>4 DEF BeforeStore
  <2>2. QED
    BY <1>1, <1>2, <2>1, PreviousStep DEF HInv, PreviousKnown, dbVars
<1>8. Stored'
  BY <1>1, <1>2, <1>4 DEF HInv, Stored, Aims, dbVars, IsSuccess
<1>9. QED
  BY <1>5, <1>6, <1>7, <1>8 DEF HInv

\* The ref is resolved: the newest commit becomes what it names.
LEMMA ResolveHInv ==
  ASSUME NEW Age, ForwardHistory(Age), SInv, HInv(Age), ResolveVersion
  PROVE  HInv(Age)'
<1>0. task \in Task /\ remote \in Commit /\ remote # NoCommit
  BY RegionAssumption DEF SInv, TypeOK
<1>1. /\ task'.resolved = remote /\ task'.loaded = task.loaded
      /\ task'.previous = task.previous /\ task'.latestStatus = task.latestStatus
  BY <1>0 DEF ResolveVersion, Task
<1>2. remote' = remote /\ UNCHANGED dbVars /\ pc = "compare"
  BY DEF ResolveVersion
<1>3. /\ pc' \in {"running", "unchanged", "manifest"}
      /\ pc' = "unchanged" => UnchangedCommit(remote)
  BY DEF ResolveVersion, Goto
<1>4. task.resolved = NoCommit /\ task.loaded = NoCommit
  BY <1>2 DEF HInv, Resolved, BeforeStore
<1>5. Newer(Age)
  BY <1>0, <1>1, <1>2, <1>4 DEF Newer, Newest, ForwardHistory
<1>6. PayloadBound(Age)' /\ SuccessBound(Age)' /\ SuccessDescribesStore'
  BY <1>2, <1>5, QuietStep
<1>7. Resolved(Age)'
  <2>1. Age[remote] <= Age[remote]
    BY <1>0 DEF ForwardHistory
  <2>2. QED
    BY <1>0, <1>1, <1>2, <1>3, <1>4, <2>1 DEF Resolved, UnchangedCommit
<1>8. PreviousKnown'
  BY <1>1, <1>2 DEF HInv, PreviousKnown, BeforeStore, DescribedBy, Describes, dbVars
<1>9. Stored'
  BY <1>3 DEF Stored
<1>10. QED
  BY <1>6, <1>7, <1>8, <1>9 DEF HInv

\* The load: of the resolved commit, or of what the ref names now.
LEMMA LoadHInv ==
  ASSUME NEW Age, ForwardHistory(Age), SInv, HInv(Age), LoadRegion
  PROVE  HInv(Age)'
<1> DEFINE commit == IF task.resolved = NoCommit THEN remote ELSE task.resolved
<1>0. task \in Task /\ remote \in Commit /\ commit \in Commit /\ commit # NoCommit
  BY RegionAssumption DEF SInv, TypeOK, Task
<1>1. task' = [task EXCEPT !.loaded = commit, !.todo = Present(commit)]
  BY DEF LoadRegion
<1>2. remote' = remote /\ UNCHANGED dbVars /\ pc = "load" /\ pc' = "store"
  BY DEF LoadRegion, Goto
<1>3. task.loaded = NoCommit /\ Newest = commit
  BY <1>2 DEF HInv, Resolved, BeforeStore, Newest
<1>4. commit = task.resolved \/ task.resolved = NoCommit
  OBVIOUS
<1>5. commit # task.resolved => commit = remote
  OBVIOUS
<1> HIDE DEF commit
<1>6. /\ task'.resolved = task.resolved /\ task'.loaded = commit
      /\ task'.todo = Present(commit)
  BY ONLY <1>0, <1>1 DEF Task
<1>7. Newest' = commit
  BY <1>0, <1>4, <1>6 DEF Newest
<1>8. Newer(Age)
  BY <1>0, <1>3, <1>7 DEF Newer, ForwardHistory
<1>9. PayloadBound(Age)' /\ SuccessBound(Age)' /\ SuccessDescribesStore'
  BY <1>2, <1>8, QuietStep
<1>10. Resolved(Age)'
  <2>1. Age[commit] <= Age[remote]
    BY <1>0, <1>5 DEF HInv, Resolved, ForwardHistory
  <2>2. QED
    BY <1>0, <1>2, <1>4, <1>6, <2>1 DEF HInv, Resolved, BeforeStore
<1>11. PreviousKnown'
  BY <1>2 DEF HInv, PreviousKnown, BeforeStore, dbVars
<1>12. Stored'
  BY <1>2, <1>6 DEF HInv, Stored, dbVars, IsSuccess
<1>13. QED
  BY <1>9, <1>10, <1>11, <1>12 DEF HInv

\* The job is over, or vanishes, and the ref moves on.
LEMMA OutsideHInv ==
  ASSUME NEW Age, ForwardHistory(Age), SInv, SInv', HInv(Age),
         FinishSyncJob \/ Vanish \/ \E c \in Commit : Push(c)
  PROVE  HInv(Age)'
<1>1. UNCHANGED dbVars
  BY DEF FinishSyncJob, Vanish, Push, dbVars
<1>2. remote \in Commit /\ remote' \in Commit /\ Age[remote] <= Age[remote']
  <2>1. remote \in Commit /\ remote' \in Commit
    BY DEF SInv, TypeOK
  <2>2. remote' = remote \/ <<remote, remote'>> \in Follows
    BY DEF FinishSyncJob, Vanish, Push
  <2>3. QED
    BY <2>1, <2>2 DEF ForwardHistory
<1>3. \/ task' = NoTask /\ pc' = "idle"
      \/ UNCHANGED <<task, pc>>
  BY DEF FinishSyncJob, Vanish, Push, Goto
<1>4. Newest \in Commit /\ Newest' \in Commit
  BY NewestTyped DEF SInv, TypeOK, Task, Newest
<1>5. Age[Newest] <= Age[remote]
  BY <1>2 DEF HInv, Resolved, Newest, ForwardHistory
<1>6. Newer(Age)
  <2>1. CASE task' = NoTask
    <3>1. Newest' = remote'
      BY <2>1 DEF Newest, NoTask
    <3>2. QED
      BY <1>2, <1>4, <1>5, <3>1 DEF Newer, ForwardHistory
  <2>2. CASE task' = task
    BY <1>2, <1>4, <2>2 DEF Newer, Newest, ForwardHistory
  <2>3. QED
    BY <1>3, <2>1, <2>2
<1>7. PayloadBound(Age)' /\ SuccessBound(Age)' /\ SuccessDescribesStore'
  BY <1>1, <1>6, QuietStep
<1>8. Resolved(Age)'
  <2>1. CASE task' = NoTask /\ pc' = "idle"
    BY <2>1 DEF Resolved, NoTask, BeforeStore
  <2>2. CASE UNCHANGED <<task, pc>>
    <3>1. /\ task.resolved # NoCommit => Age[task.resolved] <= Age[remote']
          /\ task.loaded # NoCommit => Age[task.loaded] <= Age[remote']
      BY <1>2 DEF HInv, Resolved, ForwardHistory, SInv, TypeOK, Task
    <3>2. QED
      BY <2>2, <3>1 DEF HInv, Resolved, UnchangedCommit
  <2>3. QED
    BY <1>3, <2>1, <2>2
<1>9. PreviousKnown' /\ Stored'
  BY <1>1, <1>3 DEF HInv, PreviousKnown, Stored, BeforeStore, DescribedBy,
                    Describes, dbVars, IsSuccess
<1>10. QED
  BY <1>7, <1>8, <1>9 DEF HInv

\* A row is saved, or the save fails, or it is held back.
LEMMA SavedHInv ==
  ASSUME NEW Age, ForwardHistory(Age), SInv, HInv(Age),
         Aims(task') = Aims(task), remote' = remote, UNCHANGED <<store, version>>,
         NEW row, Fits(row), Append(row) \/ UNCHANGED <<latest, success>>,
         pc' \in BeforeStore => pc \in BeforeStore /\ ~IsSuccess(row)
  PROVE  PayloadBound(Age)' /\ SuccessBound(Age)' /\ SuccessDescribesStore' /\ PreviousKnown'
<1>1. Newest \in Commit /\ Newest' = Newest /\ Newer(Age)
  BY SameNewest
<1>2. CASE Append(row)
  <2>1. /\ PayloadBound(Age)' /\ SuccessBound(Age)' /\ SuccessDescribesStore'
        /\ IsSuccess(latest') => success' = latest'
    BY <1>1, <1>2, SavingStep
  <2>2. pc' \in BeforeStore => pc \in BeforeStore /\ success' = success
    BY <1>2 DEF Append
  <2>3. QED
    BY <2>1, <2>2, PreviousStep DEF HInv
<1>3. CASE UNCHANGED <<latest, success>>
  <2>1. PayloadBound(Age)' /\ SuccessBound(Age)' /\ SuccessDescribesStore'
    BY <1>1, <1>3, QuietStep DEF dbVars
  <2>2. PreviousKnown'
    BY <1>3, PreviousStep DEF HInv, PreviousKnown
  <2>3. QED
    BY <2>1, <2>2
<1>4. QED
  BY <1>2, <1>3

\* Rows that are no success, saved at their steps.
LEMMA OtherRowHInv ==
  ASSUME NEW Age, ForwardHistory(Age), SInv, HInv(Age), "running" \notin SaveMayLose,
         \/ PersistPending \/ PersistPendingError \/ PersistRunning \/ PersistRunningError
         \/ PersistFailed \/ PersistFailedError
  PROVE  HInv(Age)'
<1>0. task \in Task
  BY DEF SInv, TypeOK
<1>1. remote' = remote /\ UNCHANGED <<store, version>>
  BY DEF PersistPending, PersistPendingError, PersistRunning, PersistRunningError,
         PersistFailed, PersistFailedError, Save, SaveFails
<1>2. Aims(task') = Aims(task)
  <2>1. task' = task \/ task' = [task EXCEPT !.failed = TRUE]
    BY DEF PersistPending, PersistPendingError, PersistRunning, PersistRunningError,
           PersistFailed, PersistFailedError, RecordFailure
  <2>2. QED
    BY ONLY <1>0, <2>1 DEF Task, Aims
<1>3. \/ pc = "pending" /\ pc' = "compare"
      \/ pc = "running" /\ pc' = "load"
      \/ pc = "failing" /\ pc' = "finished"
  BY DEF PersistPending, PersistPendingError, PersistRunning, PersistRunningError,
         PersistFailed, PersistFailedError, Goto
<1>4. PICK row : ~IsSuccess(row) /\ (Append(row) \/ UNCHANGED <<latest, success>>)
  <2>1. \E state \in {"pending", "running", "failed"} : \E commit :
          Save(state, commit) \/ SaveFails(state, commit)
    BY DEF PersistPending, PersistPendingError, PersistRunning, PersistRunningError,
           PersistFailed, PersistFailedError
  <2>2. PICK state \in {"pending", "running", "failed"} : \E commit :
          Save(state, commit) \/ SaveFails(state, commit)
    BY <2>1
  <2>3. PICK commit : Save(state, commit) \/ SaveFails(state, commit)
    BY <2>2
  <2>4. \/ Append([state |-> state, commit |-> commit])
        \/ UNCHANGED <<latest, success>>
    BY <2>3 DEF Save, SaveFails
  <2>5. ~IsSuccess([state |-> state, commit |-> commit])
    BY DEF IsSuccess
  <2>6. QED
    BY <2>4, <2>5
<1>5. PayloadBound(Age)' /\ SuccessBound(Age)' /\ SuccessDescribesStore' /\ PreviousKnown'
  <2>1. Fits(row)
    BY <1>4 DEF Fits
  <2>2. pc' \in BeforeStore => pc \in BeforeStore /\ ~IsSuccess(row)
    BY <1>3, <1>4 DEF BeforeStore
  <2>3. QED
    BY <1>1, <1>2, <1>4, <2>1, <2>2, SavedHInv
<1>6. Resolved(Age)'
  BY <1>1, <1>2, <1>3 DEF HInv, Resolved, Aims, BeforeStore
<1>7. Stored'
  <2>1. CASE PersistRunning \/ PersistRunningError
    BY <1>3, <2>1 DEF PersistRunning, PersistRunningError, Save, SaveFails, Suppressed,
                      Append, IsSuccess, Goto, Stored
  <2>2. CASE ~(PersistRunning \/ PersistRunningError)
    <3>1. pc' \in {"compare", "finished"}
      BY <2>2 DEF PersistPending, PersistPendingError, PersistFailed,
                  PersistFailedError, Goto
    <3>2. QED
      BY <3>1 DEF Stored
  <2>3. QED
    BY <2>1, <2>2
<1>8. QED
  BY <1>5, <1>6, <1>7 DEF HInv

\* A success row ends the job, or is the one that was there.
LEMMA SuccessRowHInv ==
  ASSUME NEW Age, ForwardHistory(Age), SInv, HInv(Age),
         \/ KeepStored \/ KeepStoredSaveError \/ FallBack \/ FallBackError
         \/ FinishRegion \/ FinishRegionError
  PROVE  HInv(Age)'
<1>0. task \in Task /\ task.previous \in Row
  BY DEF SInv, TypeOK, Task
<1>1. remote' = remote /\ UNCHANGED <<store, version>>
  BY DEF KeepStored, KeepStoredSaveError, FallBack, FallBackError, FinishRegion,
         FinishRegionError, SaveSkip, Save, SaveFails, dbVars
<1>2. Aims(task') = Aims(task)
  <2>1. \/ task' = task
        \/ task' = [task EXCEPT !.failed = TRUE]
        \/ \E x : task' = [task EXCEPT !.failed = TRUE, !.error = x]
    BY DEF KeepStored, KeepStoredSaveError, FallBack, FallBackError, FinishRegion,
           FinishRegionError, RecordFailure, FailWith
  <2>2. QED
    BY ONLY <1>0, <2>1 DEF Task, Aims
<1>3. pc' \in {"finished", "failing"} /\ pc \notin {"idle"}
  BY DEF KeepStored, KeepStoredSaveError, MayKeepStored, FallBack, FallBackError,
         FinishRegion, FinishRegionError, FailWith, Goto
<1>4. PICK row : Fits(row) /\ (Append(row) \/ UNCHANGED <<latest, success>>)
  <2>1. CASE KeepStored \/ KeepStoredSaveError
    <3> DEFINE r == [state |-> "success", commit |-> task.resolved]
    <3>1. Append(r) \/ UNCHANGED <<latest, success>>
      BY <2>1 DEF KeepStored, KeepStoredSaveError, SaveSkip, Save, SaveFails
    <3>2. MayKeepStored
      BY <2>1 DEF KeepStored, KeepStoredSaveError
    <3>3. task.resolved = Newest /\ Describes(task.resolved) /\ Newest \in Commit
      BY <3>2, ShortcutDescribes, NewestTyped
    <3>4. Fits(r)
      BY <3>3 DEF Fits, DescribedBy
    <3>5. QED
      BY <3>1, <3>4
  <2>2. CASE FallBack \/ FallBackError
    <3> DEFINE r == [state |-> "success", commit |-> task.previous.commit]
    <3>1. pc = "fallback"
      BY <2>2 DEF FallBack, FallBackError
    <3>2. CASE ~IsSuccess(task.previous)
      <4>1. UNCHANGED <<latest, success>>
        BY <2>2, <3>2 DEF FallBack, FallBackError, dbVars
      <4>2. Fits(NoRow)
        BY DEF Fits, NoRow, IsSuccess
      <4>3. QED
        BY <4>1, <4>2
    <3>3. CASE IsSuccess(task.previous)
      <4>1. Append(r) \/ UNCHANGED <<latest, success>>
        BY <2>2 DEF FallBack, FallBackError, Save, SaveFails, dbVars
      <4>2. r = task.previous /\ task.previous = success
        BY <1>0, <3>1, <3>3 DEF HInv, PreviousKnown, BeforeStore, Row, IsSuccess
      <4>3. DescribedBy(task.previous)
        BY <3>1 DEF HInv, Resolved, PreviousKnown, BeforeStore
      <4>4. QED
        BY <4>1, <4>2, <4>3 DEF Fits
    <3>4. QED
      BY <3>2, <3>3
  <2>3. CASE FinishRegion \/ FinishRegionError
    <3> DEFINE r == [state |-> "success", commit |-> task.resolved]
    <3>1. Append(r) \/ UNCHANGED <<latest, success>>
      BY <2>3 DEF FinishRegion, FinishRegionError, Save, SaveFails
    <3>2. pc = "finish"
      BY <2>3 DEF FinishRegion, FinishRegionError
    <3>3. Describes(task.loaded) /\ task.resolved \in {NoCommit, task.loaded}
          /\ task.loaded = Newest /\ Newest \in Commit
      BY <3>2, NewestTyped DEF HInv, Stored, Resolved, Describes, Newest
    <3>4. Fits(r)
      BY <3>3 DEF Fits, DescribedBy
    <3>5. QED
      BY <3>1, <3>4
  <2>4. QED
    BY <2>1, <2>2, <2>3
<1>5. PayloadBound(Age)' /\ SuccessBound(Age)' /\ SuccessDescribesStore' /\ PreviousKnown'
  <2>1. pc' \in BeforeStore => pc \in BeforeStore /\ ~IsSuccess(row)
    BY <1>3 DEF BeforeStore
  <2>2. QED
    BY <1>1, <1>2, <1>4, <2>1, SavedHInv
<1>6. Resolved(Age)'
  BY <1>1, <1>2, <1>3 DEF HInv, Resolved, Aims, BeforeStore
<1>7. Stored'
  BY <1>3 DEF Stored
<1>8. QED
  BY <1>5, <1>6, <1>7 DEF HInv

\* Records of the loaded commit are stored one entity after the other, and
\* removed entities pruned.
LEMMA StoreHInv ==
  ASSUME NEW Age, ForwardHistory(Age), SInv, HInv(Age), NEW e \in Entity,
         StoreEntity(e) \/ StoreEntityError(e)
  PROVE  HInv(Age)'
<1> DEFINE c == task.loaded
           left == task.todo \ {e}
           kind == IF task.error = "none" THEN ErrorKind ELSE task.error
<1>0. task \in Task /\ store \in [Entity -> Value \cup {Absent}]
  BY DEF SInv, TypeOK
<1>1. /\ pc = "store" /\ pc' = pc /\ remote' = remote
      /\ UNCHANGED <<version, latest, success>> /\ e \in task.todo
  BY DEF StoreEntity, StoreEntityError
<1>2. c # NoCommit /\ task.resolved \in {NoCommit, c} /\ c = Newest
  BY <1>1 DEF HInv, Resolved, Newest
<1>3. kind = "none" => FALSE
  BY DEF ErrorKind
<1>4. \/ StoreEntity(e) /\ task' = [task EXCEPT !.todo = left]
      \/ task' = [task EXCEPT !.todo = left, !.error = kind]
  BY DEF StoreEntity, StoreEntityError
<1>5. store' = store \/ store' = [store EXCEPT ![e] = Data[c][e]]
  BY DEF StoreEntity, StoreEntityError
<1>6. StoreEntity(e) => store' = [store EXCEPT ![e] = Data[c][e]]
  BY DEF StoreEntity
<1> HIDE DEF c, left, kind
<1>7. /\ Aims(task') = Aims(task) /\ task'.todo = left /\ task'.loaded = task.loaded
      /\ task'.error = "none" => StoreEntity(e) /\ task.error = "none"
  BY ONLY <1>0, <1>3, <1>4 DEF Task, Aims
<1>8. Newest \in Commit /\ Newest' = Newest
  BY <1>1, <1>7, SameNewest
<1>9. \A x \in Entity : store'[x] \in {store[x], Data[Newest][x]}
  BY <1>0, <1>2, <1>5
<1>10. ~IsSuccess(latest)
  BY <1>1 DEF HInv, Stored
<1>11. PayloadBound(Age)' /\ SuccessBound(Age)' /\ SuccessDescribesStore'
  BY <1>1, <1>8, <1>9, <1>10, WritingStep
<1>12. Resolved(Age)'
  BY <1>1, <1>7 DEF HInv, Resolved, Aims, BeforeStore
<1>13. PreviousKnown'
  BY <1>1 DEF HInv, PreviousKnown, BeforeStore
<1>14. Stored'
  <2>1. ASSUME task'.error = "none", NEW x \in Present(c) \ left
        PROVE  store'[x] = Data[c][x]
    <3>1. task.error = "none" /\ store' = [store EXCEPT ![e] = Data[c][e]]
      BY <1>6, <1>7, <2>1
    <3>2. x \in Entity
      BY DEF Present
    <3>3. x # e => store[x] = Data[c][x]
      BY <1>1, <2>1, <3>1 DEF HInv, Stored, left, c
    <3>4. QED
      BY <1>0, <3>1, <3>2, <3>3
  <2>2. task'.loaded = c
    BY <1>7 DEF c
  <2>3. QED
    BY <1>1, <1>7, <1>10, <2>1, <2>2 DEF Stored, IsSuccess
<1>15. QED
  BY <1>11, <1>12, <1>13, <1>14 DEF HInv

LEMMA PruneHInv ==
  ASSUME NEW Age, ForwardHistory(Age), SInv, HInv(Age), Prune \/ PruneError
  PROVE  HInv(Age)'
<1> DEFINE c == task.loaded
<1>0. task \in Task /\ store \in [Entity -> Value \cup {Absent}]
  BY DEF SInv, TypeOK
<1>1. /\ pc = "prune" /\ pc' \in {"version", "failing"} /\ remote' = remote
      /\ UNCHANGED <<version, latest, success>>
      /\ store' \in {store, Pruned} /\ (pc' = "version" => store' = Pruned)
  BY DEF Prune, PruneError, FailWith, Goto
<1>2. c # NoCommit /\ task.resolved \in {NoCommit, c} /\ c = Newest
  BY <1>1 DEF HInv, Resolved, Newest
<1>3. Aims(task') = Aims(task) /\ task'.loaded = c
  <2>1. task' = task \/ \E x : task' = [task EXCEPT !.failed = TRUE, !.error = x]
    BY DEF Prune, PruneError, FailWith
  <2>2. QED
    BY ONLY <1>0, <2>1 DEF Task, Aims
<1>4. Newest \in Commit /\ Newest' = Newest
  BY <1>1, <1>3, SameNewest
<1>5. Data[c] \in [Entity -> Value \cup {Absent}] /\ Present(c) # {}
  BY <1>2, <1>4, RegionAssumption DEF ForwardHistory
<1>6. Pruned = Data[c]
  <2>1. \A x \in Present(c) : store[x] = Data[c][x]
    BY <1>1 DEF HInv, Stored
  <2>2. Pruned = [x \in Entity |-> IF x \in Present(c) THEN store[x] ELSE Absent]
    BY <1>5 DEF Pruned
  <2>3. \A x \in Entity : (IF x \in Present(c) THEN store[x] ELSE Absent) = Data[c][x]
    BY <2>1 DEF Present
  <2>4. QED
    BY <1>5, <2>2, <2>3
<1>7. ~IsSuccess(latest)
  BY <1>1 DEF HInv, Stored
<1>8. \A x \in Entity : store'[x] \in {store[x], Data[Newest][x]}
  BY <1>1, <1>2, <1>6
<1>9. PayloadBound(Age)' /\ SuccessBound(Age)' /\ SuccessDescribesStore'
  BY <1>1, <1>4, <1>7, <1>8, WritingStep
<1>10. Resolved(Age)'
  BY <1>1, <1>3 DEF HInv, Resolved, Aims, BeforeStore
<1>11. PreviousKnown'
  BY <1>1 DEF HInv, PreviousKnown, BeforeStore
<1>12. Stored'
  BY <1>1, <1>3, <1>6, <1>7 DEF Stored, IsSuccess
<1>13. QED
  BY <1>9, <1>10, <1>11, <1>12 DEF HInv

\* The version payload follows the records.
LEMMA VersionHInv ==
  ASSUME NEW Age, ForwardHistory(Age), SInv, HInv(Age), StoreVersion \/ StoreVersionError
  PROVE  HInv(Age)'
<1> DEFINE c == task.loaded
<1>0. task \in Task
  BY DEF SInv, TypeOK
<1>1. /\ pc = "version" /\ pc' \in {"finish", "failing"} /\ remote' = remote
      /\ UNCHANGED <<store, latest, success>> /\ version' \in {version, Manifest[c]}
      /\ (pc' = "finish" /\ Manifest[c] # NoVersion => version' = Manifest[c])
  BY DEF StoreVersion, StoreVersionError, FailWith, Goto
<1>2. c # NoCommit /\ task.resolved \in {NoCommit, c} /\ c = Newest /\ store = Data[c]
  BY <1>1 DEF HInv, Resolved, Newest, Stored
<1>3. Aims(task') = Aims(task) /\ task'.loaded = c
  <2>1. task' = task \/ \E x : task' = [task EXCEPT !.failed = TRUE, !.error = x]
    BY DEF StoreVersion, StoreVersionError, FailWith
  <2>2. QED
    BY ONLY <1>0, <2>1 DEF Task, Aims
<1>4. Newest \in Commit /\ Newest' = Newest
  BY <1>1, <1>3, SameNewest
<1>5. ~IsSuccess(latest)
  BY <1>1 DEF HInv, Stored
<1>6. PayloadBound(Age)' /\ SuccessBound(Age)' /\ SuccessDescribesStore'
  BY <1>1, <1>2, <1>4, <1>5, WritingStep
<1>7. Resolved(Age)'
  BY <1>1, <1>3 DEF HInv, Resolved, Aims, BeforeStore
<1>8. PreviousKnown'
  BY <1>1 DEF HInv, PreviousKnown, BeforeStore
<1>9. Stored'
  BY <1>1, <1>2, <1>3, <1>5 DEF Stored, IsSuccess
<1>10. QED
  BY <1>6, <1>7, <1>8, <1>9 DEF HInv

LEMMA NextHInv ==
  ASSUME NEW Age, ForwardHistory(Age), "running" \notin SaveMayLose,
         SInv, SInv', HInv(Age), [Next]_vars
  PROVE  HInv(Age)'
<1>1. CASE UNCHANGED vars
  BY <1>1 DEF vars, dbVars, HInv, Resolved, PayloadBound, SuccessBound, PreviousKnown,
              Stored, SuccessDescribesStore, Mix, Newest, DescribedBy, Describes,
              UnchangedCommit, IsSuccess
<1>2. CASE Start \/ \E force \in BOOLEAN : StartSyncBlind(force)
  BY <1>2, StartHInv DEF Start
<1>3. CASE \/ EnsureCacheReady \/ EnsureCacheReadyError \/ ResolveVersionError
           \/ ShortcutDeclined \/ ShortcutError
           \/ LoadRegionError \/ LoadRegionRateLimited \/ StoreDone
           \/ EndContext("canceled") \/ EndContext("expired")
  BY <1>3, QuietHInv
<1>4. CASE ResolveVersion \/ LoadRegion
  BY <1>4, ResolveHInv, LoadHInv
<1>5. CASE FinishSyncJob \/ Vanish \/ \E c \in Commit : Push(c)
  BY <1>5, OutsideHInv
<1>6. CASE \/ PersistPending \/ PersistPendingError \/ PersistRunning
           \/ PersistRunningError \/ PersistFailed \/ PersistFailedError
  BY <1>6, OtherRowHInv
<1>7. CASE \/ KeepStored \/ KeepStoredSaveError \/ FallBack \/ FallBackError
           \/ FinishRegion \/ FinishRegionError
  BY <1>7, SuccessRowHInv
<1>8. CASE \E e \in Entity : StoreEntity(e) \/ StoreEntityError(e)
  BY <1>8, StoreHInv
<1>9. CASE Prune \/ PruneError \/ StoreVersion \/ StoreVersionError
  BY <1>9, PruneHInv, VersionHInv
<1>10. QED
  BY <1>1, <1>2, <1>3, <1>4, <1>5, <1>6, <1>7, <1>8, <1>9 DEF Next, Step, Fault

\* When the history only goes forward and no running row is lost, a region
\* whose latest status is success holds exactly the records and the version
\* payload of one commit, the one its row names: however many syncs failed,
\* were cancelled or vanished in the middle of their writes before.
THEOREM SuccessIsOneCommit ==
  ASSUME NEW Age, ForwardHistory(Age), "running" \notin SaveMayLose
  PROVE  Spec => []SuccessDescribesStore
<1>1. Init => SInv /\ HInv(Age)
  BY InitSInv, InitHInv
<1>2. (SInv /\ HInv(Age)) /\ [Next]_vars => (SInv /\ HInv(Age))'
  BY NextSInv, NextHInv
<1>3. SInv /\ HInv(Age) => SuccessDescribesStore
  BY DEF HInv
<1>4. QED
  BY <1>1, <1>2, <1>3, PTL DEF Spec

=============================================================================
