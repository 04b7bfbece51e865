----------------------------- MODULE RegionSync -----------------------------
(***************************************************************************)
(* The sync of one region, step by step: syncClaimed, regionSyncTask and   *)
(* saveStatus of internal/usecase/master_data_sync_usecase.go, over the    *)
(* stored entities, the stored version payload and the status history.     *)
(*                                                                         *)
(* One job runs at a time and the writes of a stale one are fenced out:    *)
(* that is what SyncLease is about.  What is left of a takeover or of a    *)
(* crash here is a job that vanishes between two of its steps.             *)
(*                                                                         *)
(* A write that fails may have been committed with its reply lost, so each *)
(* failing write has both outcomes.  Derived data (postings, projections)  *)
(* is rebuilt from the records and is not part of the state.               *)
(***************************************************************************)
EXTENDS Naturals

CONSTANTS
  Commit,         \* commits of the region's source repository
  Entity,         \* entity files
  Value,          \* contents of an entity file
  Absent,         \* the commit, or the store, has no such entity
  Data,           \* [Commit -> [Entity -> Value \cup {Absent}]]
  Version,        \* versions.json manifests
  NoVersion,      \* the commit, or the store, has no manifest
  Manifest,       \* [Commit -> Version \cup {NoVersion}]
  NoCommit,       \* no commit recorded
  FirstCommit,    \* what the configured ref names at first
  Follows,        \* the moves of the ref: a set of pairs of commits
  SaveMayLose     \* the states whose status rows may be lost when a save fails

State == {"pending", "running", "failed", "success"}

\* docs/master-data.md: the manifest is upstream-complete, so commits with
\* the same manifest have the same records.
ASSUME RegionAssumption ==
  /\ Absent \notin Value /\ NoVersion \notin Version /\ NoCommit \notin Commit
  /\ Data \in [Commit -> [Entity -> Value \cup {Absent}]]
  /\ Manifest \in [Commit -> Version \cup {NoVersion}]
  /\ FirstCommit \in Commit
  /\ Follows \subseteq Commit \X Commit
  /\ SaveMayLose \subseteq State
  /\ \A c, d \in Commit :
       Manifest[c] = Manifest[d] /\ Manifest[c] # NoVersion => Data[c] = Data[d]

Row == [state: State \cup {"none"}, commit: Commit \cup {NoCommit}]
NoRow == [state |-> "none", commit |-> NoCommit]

Task == [force: BOOLEAN, previous: Row, latestStatus: State \cup {"none"},
         cacheReady: BOOLEAN, resolved: Commit \cup {NoCommit},
         loaded: Commit \cup {NoCommit}, todo: SUBSET Entity,
         error: {"none", "interrupted", "real"}, failed: BOOLEAN]

VARIABLES
  remote,     \* the commit the configured ref names
  store,      \* the stored records of each entity (master_entities, blocks)
  version,    \* the stored version payload (master_versions)
  latest,     \* the region's row of master_data_sync_status_latest
  success,    \* its latest success row (ListLatestSuccess)
  pc,         \* the step the job is at
  ctx,        \* the job context: live, canceled, or expired (job timeout)
  task,       \* regionSyncTask, with what the job has loaded and met
  result      \* what the last finished job reported

dbVars == <<store, version, latest, success>>
vars == <<remote, dbVars, pc, ctx, task, result>>

NoTask == [force |-> FALSE, previous |-> NoRow, latestStatus |-> "none",
           cacheReady |-> FALSE, resolved |-> NoCommit, loaded |-> NoCommit,
           todo |-> {}, error |-> "none", failed |-> FALSE]

Init ==
  /\ remote = FirstCommit
  /\ store = [e \in Entity |-> Absent]
  /\ version = NoVersion
  /\ latest = NoRow /\ success = NoRow
  /\ pc = "idle" /\ ctx = "canceled" /\ task = NoTask /\ result = "none"

(***************************************************************************)
(* Helpers                                                                 *)
(***************************************************************************)
HasRegionData == \E e \in Entity : store[e] # Absent
Present(c) == {e \in Entity : Data[c][e] # Absent}
IsSuccess(row) == row.state = "success"

Goto(step) == pc' = step

\* recordFailure: the job will report failed.
RecordFailure == task' = [task EXCEPT !.failed = TRUE]

\* An error met after the job was cancelled is an effect of the cancelling.
ErrorKind == IF ctx = "canceled" THEN "interrupted" ELSE "real"

FailWith(kind) ==
  /\ task' = [task EXCEPT !.failed = TRUE, !.error = kind]
  /\ Goto("failing")

(***************************************************************************)
(* saveStatus.  A terminal row is not written once the job was cancelled.  *)
(* A save that fails because the context has ended is tried again with a   *)
(* context of its own, and the cancellation is looked at once more: that   *)
(* the job is cancelled between the look and the write is the same as that *)
(* it is cancelled just after.                                             *)
(***************************************************************************)
\* Mutant: only a success is held back after a cancellation.
SuppressedSuccessOnly(state) == state = "success" /\ ctx = "canceled"

\* Mutant: nothing is written after a cancellation.
SuppressedAlways(state) == ctx = "canceled"

Suppressed(state) == state \in {"success", "failed"} /\ ctx = "canceled"

Append(row) ==
  /\ latest' = row
  /\ success' = IF IsSuccess(row) THEN row ELSE success

\* Returns nil.
Save(state, commit) ==
  /\ IF Suppressed(state) THEN UNCHANGED <<latest, success>>
                          ELSE Append([state |-> state, commit |-> commit])
  /\ UNCHANGED <<store, version>>

\* Returns an error, and the row may have been written all the same.
SaveFails(state, commit) ==
  /\ ~Suppressed(state)
  /\ \/ Append([state |-> state, commit |-> commit])
     \/ state \in SaveMayLose /\ UNCHANGED <<latest, success>>
  /\ UNCHANGED <<store, version>>

(***************************************************************************)
(* The job starts.  loadStatusMap: both lists are read, or the second read *)
(* fails and the latest row stands in for the latest success, or the first *)
(* fails and the job knows nothing.                                        *)
(***************************************************************************)
Known == {[previous |-> IF IsSuccess(success) THEN success ELSE latest,
           last     |-> latest.state]}
Unknown == {[previous |-> latest, last |-> latest.state],
            [previous |-> NoRow, last |-> "none"]}

StartWith(force, statuses) ==
  /\ pc = "idle"
  /\ \E s \in statuses :
       task' = [NoTask EXCEPT !.force = force, !.previous = s.previous,
                              !.latestStatus = s.last]
  /\ Goto("check")
  /\ ctx' = "live" /\ result' = "none"
  /\ UNCHANGED <<remote, dbVars>>

StartSync(force) == StartWith(force, Known)
StartSyncBlind(force) == StartWith(force, Unknown)

\* ensureCacheReady
EnsureCacheReady ==
  /\ pc = "check"
  /\ task' = [task EXCEPT !.cacheReady = HasRegionData]
  /\ Goto(IF HasRegionData THEN "compare" ELSE "pending")
  /\ UNCHANGED <<remote, dbVars, ctx, result>>

EnsureCacheReadyError ==
  /\ pc = "check"
  /\ RecordFailure
  /\ Goto("finished")
  /\ UNCHANGED <<remote, dbVars, ctx, result>>

\* persistPendingStatusWhenCacheCold: a failed save is recorded, and the
\* sync goes on.
PersistPending ==
  /\ pc = "pending"
  /\ Save("pending", task.previous.commit)
  /\ Goto("compare")
  /\ UNCHANGED <<remote, ctx, task, result>>

PersistPendingError ==
  /\ pc = "pending"
  /\ SaveFails("pending", task.previous.commit)
  /\ RecordFailure
  /\ Goto("compare")
  /\ UNCHANGED <<remote, ctx, result>>

(***************************************************************************)
(* maybeSkipRegionSync                                                     *)
(***************************************************************************)
UnchangedCommit(commit) ==
  /\ IsSuccess(task.previous)
  /\ task.previous.commit = commit

ChangedCommit(commit) ==
  /\ IsSuccess(task.previous)
  /\ task.previous.commit \notin {NoCommit, commit}

ResolveVersion ==
  /\ pc = "compare"
  /\ task' = [task EXCEPT !.resolved = remote]
  /\ Goto(IF task.force THEN "running"
          ELSE IF UnchangedCommit(remote) THEN "unchanged"
          ELSE IF ChangedCommit(remote) THEN "manifest" ELSE "running")
  /\ UNCHANGED <<remote, dbVars, ctx, result>>

ResolveVersionError ==
  /\ pc = "compare"
  /\ Goto("running")
  /\ UNCHANGED <<remote, dbVars, ctx, task, result>>

\* trySkipWhenStoreHasRegion asks that there be data and a version payload,
\* trySkipRegionWithUnchangedManifest that the payload be the commit's own.
MayKeepStored ==
  \/ pc = "unchanged" /\ HasRegionData /\ version # NoVersion
  \/ pc = "manifest" /\ task.cacheReady
     /\ version # NoVersion /\ version = Manifest[task.resolved]

\* The skip saved as a success.  The manifest skip saves under the region's
\* context: when that had timed out before the job was cancelled, the save
\* is not suppressed.
SaveSkip ==
  \/ Save("success", task.resolved)
  \/ /\ pc = "manifest"
     /\ Append([state |-> "success", commit |-> task.resolved])
     /\ UNCHANGED <<store, version>>

KeepStored ==
  /\ MayKeepStored
  /\ SaveSkip
  /\ Goto("finished")
  /\ UNCHANGED <<remote, ctx, task, result>>

KeepStoredSaveError ==
  /\ MayKeepStored
  /\ SaveFails("success", task.resolved)
  /\ RecordFailure
  /\ Goto("finished")
  /\ UNCHANGED <<remote, ctx, result>>

ShortcutDeclined ==
  /\ pc \in {"unchanged", "manifest"}
  /\ ~MayKeepStored
  /\ Goto("running")
  /\ UNCHANGED <<remote, dbVars, ctx, task, result>>

\* A check of the shortcut fails, or rebuilding the derived data does: the
\* full sync runs instead.
ShortcutError ==
  /\ pc \in {"unchanged", "manifest"}
  /\ Goto("running")
  /\ UNCHANGED <<remote, dbVars, ctx, task, result>>

(***************************************************************************)
(* runRegionFullSync                                                       *)
(***************************************************************************)
PersistRunning ==
  /\ pc = "running"
  /\ Save("running", task.resolved)
  /\ Goto("load")
  /\ UNCHANGED <<remote, ctx, task, result>>

\* The failure is only logged.
PersistRunningError ==
  /\ pc = "running"
  /\ SaveFails("running", task.resolved)
  /\ Goto("load")
  /\ UNCHANGED <<remote, ctx, task, result>>

\* The archive of the resolved commit, or of the ref when it was not resolved.
LoadRegion ==
  /\ pc = "load"
  /\ LET commit == IF task.resolved = NoCommit THEN remote ELSE task.resolved
     IN task' = [task EXCEPT !.loaded = commit, !.todo = Present(commit)]
  /\ Goto("store")
  /\ UNCHANGED <<remote, dbVars, ctx, result>>

\* failRegionLoad: an interrupted load leaves no trace, a rate limit may fall
\* back to what is stored, anything else fails the region.
\* Mutant: the last run's outcome is not looked at.
MayFallBackAnytime == task.cacheReady

MayFallBack == task.cacheReady /\ task.latestStatus = "success"

LoadRegionError ==
  /\ pc = "load"
  /\ IF ctx = "canceled" THEN Goto("finished") /\ UNCHANGED task
                         ELSE FailWith("real")
  /\ UNCHANGED <<remote, dbVars, ctx, result>>

LoadRegionRateLimited ==
  /\ pc = "load" /\ ctx # "canceled" /\ MayFallBack
  /\ Goto("fallback")
  /\ UNCHANGED <<remote, dbVars, ctx, task, result>>

\* fallbackToPreviousAvailableState
FallBack ==
  /\ pc = "fallback"
  /\ IsSuccess(task.previous)
  /\ Save("success", task.previous.commit)
  /\ Goto("finished")
  /\ UNCHANGED <<remote, ctx, task, result>>

FallBackError ==
  /\ pc = "fallback"
  /\ \/ ~IsSuccess(task.previous) /\ UNCHANGED dbVars
     \/ IsSuccess(task.previous) /\ SaveFails("success", task.previous.commit)
  /\ FailWith("real")
  /\ UNCHANGED <<remote, ctx, result>>

\* storeRegionPayload: the entities in any order, each in a transaction of
\* its own; an error does not stop the others, and the first one is kept.
StoreEntity(e) ==
  /\ pc = "store" /\ e \in task.todo
  /\ store' = [store EXCEPT ![e] = Data[task.loaded][e]]
  /\ task' = [task EXCEPT !.todo = @ \ {e}]
  /\ UNCHANGED <<remote, version, latest, success, pc, ctx, result>>

StoreEntityError(e) ==
  /\ pc = "store" /\ e \in task.todo
  /\ store' \in {store, [store EXCEPT ![e] = Data[task.loaded][e]]}
  /\ task' = [task EXCEPT !.todo = @ \ {e},
                          !.error = IF @ = "none" THEN ErrorKind ELSE @]
  /\ UNCHANGED <<remote, version, latest, success, pc, ctx, result>>

StoreDone ==
  /\ pc = "store" /\ task.todo = {}
  /\ IF task.error = "none" THEN Goto("prune") /\ UNCHANGED task
                            ELSE FailWith(task.error)
  /\ UNCHANGED <<remote, dbVars, ctx, result>>

\* Mutants: removed entities stay; their rows are forgotten altogether.
PrunedNothing == store
PrunedKeys == [e \in Present(task.loaded) |-> store[e]]

\* pruneRemovedEntities: nothing is pruned for an empty payload.
Pruned ==
  IF Present(task.loaded) = {} THEN store
  ELSE [e \in Entity |-> IF e \in Present(task.loaded) THEN store[e] ELSE Absent]

Prune ==
  /\ pc = "prune"
  /\ store' = Pruned
  /\ Goto("version")
  /\ UNCHANGED <<remote, version, latest, success, ctx, task, result>>

PruneError ==
  /\ pc = "prune" /\ Present(task.loaded) # {}
  /\ store' \in {store, Pruned}
  /\ FailWith(ErrorKind)
  /\ UNCHANGED <<remote, version, latest, success, ctx, result>>

\* storeRegionVersionPayload: a payload without versions.json leaves the
\* stored version as it is.
StoreVersion ==
  /\ pc = "version"
  /\ version' = IF Manifest[task.loaded] = NoVersion THEN version
                                                   ELSE Manifest[task.loaded]
  /\ Goto("finish")
  /\ UNCHANGED <<remote, store, latest, success, ctx, task, result>>

StoreVersionError ==
  /\ pc = "version" /\ Manifest[task.loaded] # NoVersion
  /\ version' \in {version, Manifest[task.loaded]}
  /\ FailWith(ErrorKind)
  /\ UNCHANGED <<remote, store, latest, success, ctx, result>>

\* finishRegionSuccess
FinishRegion ==
  /\ pc = "finish"
  /\ Save("success", task.resolved)
  /\ Goto("finished")
  /\ UNCHANGED <<remote, ctx, task, result>>

FinishRegionError ==
  /\ pc = "finish"
  /\ SaveFails("success", task.resolved)
  /\ RecordFailure
  /\ Goto("finished")
  /\ UNCHANGED <<remote, ctx, result>>

\* persistFailedStatus
PersistFailed ==
  /\ pc = "failing"
  /\ Save("failed", task.resolved)
  /\ Goto("finished")
  /\ UNCHANGED <<remote, ctx, task, result>>

PersistFailedError ==
  /\ pc = "failing"
  /\ SaveFails("failed", task.resolved)
  /\ Goto("finished")
  /\ UNCHANGED <<remote, ctx, task, result>>

\* Mutant: a cancelled job is reported by its errors.
FinishSyncJobUninterrupted ==
  /\ pc = "finished"
  /\ result' = IF task.failed THEN "failed" ELSE "success"
  /\ Goto("idle") /\ task' = NoTask /\ ctx' = "canceled"
  /\ UNCHANGED <<remote, dbVars>>

\* finishSyncJob
FinishSyncJob ==
  /\ pc = "finished"
  /\ result' = IF ctx = "canceled" THEN "interrupted"
               ELSE IF task.failed THEN "failed" ELSE "success"
  /\ Goto("idle") /\ task' = NoTask /\ ctx' = "canceled"
  /\ UNCHANGED <<remote, dbVars>>

(***************************************************************************)
(* The environment: the job loses its lease, is shut down, reaches its     *)
(* timeout or vanishes with its process; the ref moves.                    *)
(***************************************************************************)
EndContext(how) ==
  /\ pc # "idle" /\ ctx = "live"
  /\ ctx' = how
  /\ UNCHANGED <<remote, dbVars, pc, task, result>>

Vanish ==
  /\ pc # "idle"
  /\ Goto("idle") /\ task' = NoTask /\ ctx' = "canceled"
  /\ UNCHANGED <<remote, dbVars, result>>

Push(commit) ==
  /\ <<remote, commit>> \in Follows
  /\ remote' = commit
  /\ UNCHANGED <<dbVars, pc, ctx, task, result>>

Step ==
  \/ EnsureCacheReady \/ PersistPending \/ ResolveVersion
  \/ KeepStored \/ ShortcutDeclined
  \/ PersistRunning \/ LoadRegion \/ FallBack
  \/ \E e \in Entity : StoreEntity(e)
  \/ StoreDone \/ Prune \/ StoreVersion \/ FinishRegion
  \/ PersistFailed \/ FinishSyncJob

Fault ==
  \/ \E force \in BOOLEAN : StartSyncBlind(force)
  \/ EnsureCacheReadyError \/ PersistPendingError \/ ResolveVersionError
  \/ KeepStoredSaveError \/ ShortcutError \/ PersistRunningError
  \/ LoadRegionError \/ LoadRegionRateLimited \/ FallBackError
  \/ \E e \in Entity : StoreEntityError(e)
  \/ PruneError \/ StoreVersionError \/ FinishRegionError \/ PersistFailedError
  \/ EndContext("canceled") \/ EndContext("expired") \/ Vanish

Start == \E force \in BOOLEAN : StartSync(force)

Next == Start \/ Step \/ Fault \/ \E c \in Commit : Push(c)

Spec == Init /\ [][Next]_vars

\* Syncs keep being asked for (webhook, restart, admin), a running job goes
\* on, and from some point on nothing fails.
CalmSpec ==
  /\ Spec
  /\ WF_vars(Start)
  /\ WF_vars(Step)
  /\ <>[][Start \/ Step \/ \E c \in Commit : Push(c)]_vars

-----------------------------------------------------------------------------
TypeOK ==
  /\ remote \in Commit
  /\ store \in [Entity -> Value \cup {Absent}]
  /\ version \in Version \cup {NoVersion}
  /\ latest \in Row /\ success \in Row
  /\ pc \in {"idle", "check", "pending", "compare", "unchanged", "manifest",
             "running", "load", "fallback", "store", "prune", "version",
             "finish", "failing", "finished"}
  /\ ctx \in {"live", "canceled", "expired"}
  /\ task \in Task
  /\ result \in {"none", "success", "failed", "interrupted"}

Describes(c) ==
  /\ store = Data[c]
  /\ Manifest[c] # NoVersion => version = Manifest[c]

\* A region whose latest status is success holds exactly the records and the
\* version payload of the commit the row names (of one commit, when the row
\* names none): no mix of two commits is ever reported as a success.
SuccessDescribesStore ==
  IsSuccess(latest) =>
    \E c \in Commit : latest.commit \in {NoCommit, c} /\ Describes(c)

\* The stored records change only while the latest status is not success, so
\* the revision RegionCacheRevision returns identifies what is stored.
Region == INSTANCE PublishedRegion WITH
  serving <- IsSuccess(latest), records <- store,
  Records <- [Entity -> Value \cup {Absent}], Empty <- [e \in Entity |-> Absent]
ServedStoreIsStable == Region!Spec

\* A job that was cancelled (shutdown, lost lease) leaves its region
\* recoverable: a failed row is only ever written for an error that was not
\* the cancelling's own.
InterruptedStaysRecoverable ==
  [][latest' # latest /\ latest'.state = "failed" => task.error = "real"]_vars

\* A job that reports success has left its region with a success row.
ReportedSuccessIsRecorded ==
  result = "success" => IsSuccess(latest)

\* Histories on which SuccessDescribesStore is proved: the ref moves forward
\* only, every commit has records, and a manifest that comes again means that
\* nothing changed since.
ForwardHistory(Age) ==
  /\ Age \in [Commit -> Nat]
  /\ \A c, d \in Commit : Age[c] = Age[d] => c = d
  /\ \A c, d \in Commit : <<c, d>> \in Follows => Age[c] <= Age[d]
  /\ \A c \in Commit : Present(c) # {}
  /\ \A c, m, d \in Commit :
       (Manifest[c] = Manifest[d] /\ Manifest[c] # NoVersion
          /\ Age[c] <= Age[m] /\ Age[m] <= Age[d]) => Data[m] = Data[d]

\* No sequence of failures wedges a region: once syncs stop failing, the
\* store comes to hold the commit the ref names, and says so.
Converges ==
  /\ <>[]Describes(remote)
  /\ []<>(latest = [state |-> "success", commit |-> remote])

=============================================================================
