--------------------------- MODULE ControlProcess ---------------------------
(***************************************************************************)
(* One control process from start to exit: the three ways a sync job       *)
(* starts (the startup worker, an admin request, a webhook), the gates     *)
(* they pass, and the graceful shutdown that drains them and then closes   *)
(* the database (cmd/api/main.go, cmd/api/shutdown.go, the admission part  *)
(* of the sync usecase, the webhook handler).                              *)
(*                                                                         *)
(* What a job does is the subject of SyncLease and RegionSync; here it     *)
(* runs, and ends by itself or because the application was cancelled.      *)
(***************************************************************************)
EXTENDS Naturals

CONSTANTS
  Reads,       \* public requests, which only read
  Admins,      \* admin requests that start a sync (StartSync)
  Webhooks,    \* webhook deliveries that pass every check of the payload
  Startup,     \* the startup worker, which runs SyncAll or the recovery
  MaxSignals   \* bound: shutdown signals received

ASSUME ProcessAssumption ==
  /\ Reads \cap Admins = {} /\ Reads \cap Webhooks = {} /\ Admins \cap Webhooks = {}
  /\ Startup \notin Reads \cup Admins \cup Webhooks
  /\ MaxSignals \in Nat

Request == Reads \cup Admins \cup Webhooks
Job == {Startup} \cup Admins \cup Webhooks
Deadline == {"shared", "own"}

VARIABLES
  handler,       \* per request, where its HTTP handler is
  job,           \* per job, where its goroutine is
  syncRunning,   \* the one-job-per-process flag
  closed,        \* admissionClosed of the usecase
  rejecting,     \* the webhook handler's admission gate
  appCancelled,  \* the application context has ended
  server,        \* http.Server: serving, failed (Accept), or closing
  conns,         \* requests whose connection the server still tracks
  serveErr,      \* what server.Serve returned, until main has read it
  signals,       \* signals received so far
  sig,           \* where handleShutdownSignals is
  httpErr,       \* what it returned
  timer,         \* the shared deadline and main's own: off, on or passed
  main,          \* where main (coordinateShutdown) is
  read,          \* what main read from server.Serve
  signaled,      \* main's own flag: the shutdown is owned by the signal path
  runErr,        \* the error main will exit with
  waiter         \* the goroutine that runs syncUsecase.Wait

gates == <<syncRunning, closed, rejecting>>
sigVars == <<signals, sig, httpErr>>
mainVars == <<main, read, signaled, runErr, waiter>>
vars == <<handler, job, gates, appCancelled, server, conns, serveErr, sigVars,
          timer, mainVars>>

Init ==
  /\ handler = [r \in Request |-> "none"]
  /\ job = [j \in Job |-> IF j = Startup THEN "migrating" ELSE "none"]
  /\ syncRunning = FALSE /\ closed = FALSE /\ rejecting = FALSE
  /\ appCancelled = FALSE
  /\ server = "serving" /\ conns = {} /\ serveErr = "none"
  /\ signals = 0 /\ sig = "waiting" /\ httpErr = "none"
  /\ timer = [t \in Deadline |-> "off"]
  /\ main = "select" /\ read = "none" /\ signaled = FALSE /\ runErr = "none"
  /\ waiter = "none"

MoveHandler(r, to) == handler' = [handler EXCEPT ![r] = to]
MoveJob(j, to) == job' = [job EXCEPT ![j] = to]

(***************************************************************************)
(* HTTP requests.  After a failed Accept the open connections still bring  *)
(* requests; once the server is closing none begins.                       *)
(***************************************************************************)
Arrive(r) ==
  /\ handler[r] = "none"
  /\ server \in {"serving", "failed"}
  /\ MoveHandler(r, CASE r \in Reads -> "respond" [] r \in Admins -> "claim"
                      [] r \in Webhooks -> "admit")
  /\ conns' = conns \cup {r}
  /\ UNCHANGED <<job, gates, appCancelled, server, serveErr, sigVars, timer, mainVars>>

\* The handler has returned: the server forgets the request.
Respond(r) ==
  /\ handler[r] = "respond"
  /\ MoveHandler(r, "done")
  /\ conns' = conns \ {r}
  /\ UNCHANGED <<job, gates, appCancelled, server, serveErr, sigVars, timer, mainVars>>

\* StartSync takes the flag first and then asks for admission.
StartSyncClaim(r) ==
  /\ r \in Admins /\ handler[r] = "claim"
  /\ IF syncRunning THEN MoveHandler(r, "respond") ELSE MoveHandler(r, "admit")
  /\ syncRunning' = TRUE
  /\ UNCHANGED <<job, closed, rejecting, appCancelled, server, conns, serveErr,
                 sigVars, timer, mainVars>>

StartSyncAdmit(r) ==
  /\ r \in Admins /\ handler[r] = "admit"
  /\ MoveHandler(r, "respond")
  /\ IF closed THEN syncRunning' = FALSE /\ UNCHANGED job
               ELSE MoveJob(r, "job") /\ UNCHANGED syncRunning
  /\ UNCHANGED <<closed, rejecting, appCancelled, server, conns, serveErr, sigVars,
                 timer, mainVars>>

\* The webhook: refused while another owner holds the lease (409), or past
\* RejectNewSubmissions (503); admitted into the in-flight group otherwise.
WebhookConflict(r) ==
  /\ r \in Webhooks /\ handler[r] = "admit"
  /\ MoveHandler(r, "respond")
  /\ UNCHANGED <<job, gates, appCancelled, server, conns, serveErr, sigVars, timer,
                 mainVars>>

WebhookAdmit(r) ==
  /\ r \in Webhooks /\ handler[r] = "admit"
  /\ MoveHandler(r, "respond")
  /\ IF rejecting THEN UNCHANGED job ELSE MoveJob(r, "admit")
  /\ UNCHANGED <<gates, appCancelled, server, conns, serveErr, sigVars, timer, mainVars>>

(***************************************************************************)
(* Sync jobs.  sync(), which the startup worker and the webhook use, asks  *)
(* for admission first and then takes the flag.                            *)
(***************************************************************************)
jobFrame == <<handler, rejecting, closed, appCancelled, server, conns, serveErr,
              sigVars, timer, mainVars>>

\* The startup worker, after the migrations: it syncs or recovers, or has
\* nothing to do, or the application has ended meanwhile.
StartupBegin ==
  /\ job[Startup] = "migrating"
  /\ MoveJob(Startup, "admit") \/ MoveJob(Startup, "done")
  /\ UNCHANGED <<syncRunning, jobFrame>>

SyncAdmit(j) ==
  /\ job[j] = "admit"
  /\ IF closed THEN MoveJob(j, "done") ELSE MoveJob(j, "claim")
  /\ UNCHANGED <<syncRunning, jobFrame>>

\* Mutant: the deferred reset is set up before the flag is tried.
SyncClaimAlwaysResets(j) ==
  /\ job[j] = "claim"
  /\ IF syncRunning THEN MoveJob(j, "unclaim") ELSE MoveJob(j, "job")
  /\ syncRunning' = TRUE
  /\ UNCHANGED jobFrame

SyncClaim(j) ==
  /\ job[j] = "claim"
  /\ IF syncRunning THEN MoveJob(j, "leave") ELSE MoveJob(j, "job")
  /\ syncRunning' = TRUE
  /\ UNCHANGED jobFrame

\* The job is over: done, failed, refused by the lease, or cancelled.
JobEnds(j) ==
  /\ job[j] = "job"
  /\ MoveJob(j, "unclaim")
  /\ UNCHANGED <<syncRunning, jobFrame>>

\* The deferred calls, the flag before the wait group.
Unclaim(j) ==
  /\ job[j] = "unclaim"
  /\ syncRunning' = FALSE
  /\ MoveJob(j, "leave")
  /\ UNCHANGED jobFrame

Leave(j) ==
  /\ job[j] = "leave"
  /\ MoveJob(j, "done")
  /\ UNCHANGED <<syncRunning, jobFrame>>

\* The wait groups, as the jobs they count.
Admitted == {j \in Job : job[j] \in {"claim", "job", "unclaim", "leave"}}
Inflight == {j \in Webhooks : job[j] \notin {"none", "done"}}
Lifecycle == {j \in {Startup} : job[j] # "done"}

(***************************************************************************)
(* The HTTP server.                                                        *)
(***************************************************************************)
AcceptFails ==
  /\ server = "serving"
  /\ server' = "failed" /\ serveErr' = "failed"
  /\ UNCHANGED <<handler, job, gates, appCancelled, conns, sigVars, timer, mainVars>>

\* The shutdown callback, a goroutine of its own: cancels the application
\* and closes the event hub.
OnShutdown ==
  /\ sig \notin {"waiting", "published"} /\ ~appCancelled
  /\ appCancelled' = TRUE
  /\ UNCHANGED <<handler, job, gates, server, conns, serveErr, sigVars, timer, mainVars>>

(***************************************************************************)
(* handleShutdownSignals                                                   *)
(***************************************************************************)
sigFrame == <<handler, job, gates, appCancelled, mainVars>>

\* The first signal starts the deadline and publishes its context; a second
\* one closes every connection at once.
FirstSignal ==
  /\ sig = "waiting" /\ signals < MaxSignals
  /\ signals' = signals + 1
  /\ sig' = "published"
  /\ timer' = [timer EXCEPT !["shared"] = "on"]
  /\ UNCHANGED <<server, conns, serveErr, httpErr, sigFrame>>

\* No request begins any more; Serve returns ErrServerClosed, unless it had
\* failed already.
CloseServer ==
  /\ server' = "closing"
  /\ serveErr' = IF server = "serving" THEN "closed" ELSE serveErr

\* server.Shutdown, which also starts the callback.
ShutdownServer ==
  /\ sig = "published"
  /\ sig' = "draining"
  /\ CloseServer
  /\ UNCHANGED <<conns, signals, httpErr, timer, sigFrame>>

\* A second signal, before Shutdown or during it: server.Close drops the
\* connections, not the handlers that run on them.
SecondSignal ==
  /\ sig \in {"published", "draining"} /\ signals < MaxSignals
  /\ signals' = signals + 1
  /\ CloseServer
  /\ conns' = {}
  /\ UNCHANGED <<sig, httpErr, timer, sigFrame>>

\* Mutant: the drain that a second signal cut short is an error of its own.
ShutdownReturnsForced ==
  /\ sig = "draining"
  /\ \/ conns = {} /\ UNCHANGED conns
        /\ httpErr' = IF signals = 2 THEN "forced" ELSE httpErr
     \/ timer["shared"] = "passed" /\ conns' = {} /\ httpErr' = "timeout"
  /\ sig' = "returned"
  /\ UNCHANGED <<server, serveErr, signals, timer, sigFrame>>

ShutdownReturns ==
  /\ sig = "draining"
  /\ \/ conns = {} /\ UNCHANGED <<conns, httpErr>>
     \/ timer["shared"] = "passed" /\ conns' = {} /\ httpErr' = "timeout"
  /\ sig' = "returned"
  /\ UNCHANGED <<server, serveErr, signals, timer, sigFrame>>

\* Both deadlines, once started, pass.
DeadlinePasses ==
  /\ \E t \in Deadline :
       timer[t] = "on" /\ timer' = [timer EXCEPT ![t] = "passed"]
  /\ UNCHANGED <<server, conns, serveErr, sigVars, sigFrame>>

(***************************************************************************)
(* coordinateShutdown                                                      *)
(***************************************************************************)
mainFrame == <<handler, job, server, conns, sigVars>>

\* Mutant: the context is published once Shutdown has returned.
PublishedLate == sig \in {"returned", "done"}

Published == sig # "waiting"

\* The select, when both channels are ready, takes either.
SelectSignal ==
  /\ main = "select" /\ Published
  /\ signaled' = TRUE /\ main' = "reject"
  /\ UNCHANGED <<gates, appCancelled, serveErr, timer, read, runErr, waiter, mainFrame>>

SelectServeErr ==
  /\ main = "select" /\ serveErr # "none"
  /\ read' = serveErr /\ serveErr' = "none"
  /\ main' = "peek"
  /\ UNCHANGED <<gates, appCancelled, timer, signaled, runErr, waiter, mainFrame>>

\* Serve has returned: is it the signal's doing?
Peek ==
  /\ main = "peek"
  /\ main' = "reject"
  /\ signaled' = Published
  /\ appCancelled' = (appCancelled \/ (~Published /\ read # "closed"))
  /\ timer' = IF Published THEN timer ELSE [timer EXCEPT !["own"] = "on"]
  /\ runErr' = IF read = "failed" THEN "serve" ELSE "none"
  /\ UNCHANGED <<gates, serveErr, read, waiter, mainFrame>>

Expired == IF signaled THEN timer["shared"] = "passed" ELSE timer["own"] = "passed"

\* waitForBackgroundWorkers gives up: the deadline has passed.
GiveUp ==
  /\ main \in {"lifecycle", "webhooks", "workers"}
  /\ Expired
  /\ main' = "drained"
  /\ runErr' = IF runErr = "none" THEN "timeout" ELSE runErr
  /\ appCancelled' = TRUE
  /\ UNCHANGED <<gates, serveErr, timer, read, signaled, waiter, mainFrame>>

RejectNewSubmissions ==
  /\ main = "reject"
  /\ rejecting' = TRUE /\ main' = "lifecycle"
  /\ UNCHANGED <<syncRunning, closed, appCancelled, serveErr, timer, read, signaled,
                 runErr, waiter, mainFrame>>

WaitLifecycle ==
  /\ main = "lifecycle" /\ Lifecycle = {}
  /\ main' = "webhooks"
  /\ UNCHANGED <<gates, appCancelled, serveErr, timer, read, signaled, runErr, waiter,
                 mainFrame>>

WaitForInflight ==
  /\ main = "webhooks" /\ Inflight = {}
  /\ main' = "workers" /\ waiter' = "spawned"
  /\ UNCHANGED <<gates, appCancelled, serveErr, timer, read, signaled, runErr, mainFrame>>

\* Mutant: Wait does not close the gate.
CloseAdmissionForgotten ==
  /\ waiter = "spawned"
  /\ waiter' = "waiting"
  /\ UNCHANGED <<gates, appCancelled, serveErr, timer, main, read, signaled, runErr,
                 mainFrame>>

\* syncUsecase.Wait, in a goroutine of its own.
CloseAdmission ==
  /\ waiter = "spawned"
  /\ closed' = TRUE /\ waiter' = "waiting"
  /\ UNCHANGED <<syncRunning, rejecting, appCancelled, serveErr, timer, main, read,
                 signaled, runErr, mainFrame>>

SyncWait ==
  /\ waiter = "waiting" /\ Admitted = {}
  /\ waiter' = "done"
  /\ UNCHANGED <<gates, appCancelled, serveErr, timer, main, read, signaled, runErr,
                 mainFrame>>

WaitWorkers ==
  /\ main = "workers" /\ waiter = "done"
  /\ main' = "drained"
  /\ UNCHANGED <<gates, appCancelled, serveErr, timer, read, signaled, runErr, waiter,
                 mainFrame>>

\* Past the worker drain.  On the signal path drainDone is closed (which is
\* main being past "drained"), and then both results are collected.
ReleaseHandler ==
  /\ main = "drained"
  /\ main' = IF ~signaled THEN "teardown"
             ELSE IF read # "none" THEN "collectHTTP" ELSE "collectServe"
  /\ UNCHANGED <<gates, appCancelled, serveErr, timer, read, signaled, runErr, waiter,
                 mainFrame>>

\* Mutant: drainDone is closed after the HTTP result was collected.
DrainDoneLast == signaled /\ main \in {"teardown", "exited"}

DrainDone == signaled /\ main \in {"collectServe", "collectHTTP", "teardown", "exited"}

SignalHandlerReturns ==
  /\ sig = "returned" /\ DrainDone
  /\ sig' = "done"
  /\ UNCHANGED <<server, conns, serveErr, signals, httpErr, timer, sigFrame>>

CollectServe ==
  /\ main = "collectServe" /\ serveErr # "none"
  /\ read' = serveErr /\ serveErr' = "none"
  /\ runErr' = IF serveErr = "failed" /\ runErr = "none" THEN "serve" ELSE runErr
  /\ main' = "collectHTTP"
  /\ UNCHANGED <<gates, appCancelled, timer, signaled, waiter, mainFrame>>

\* Mutant: the HTTP drain is not waited for.
CollectHTTPWithoutWaiting ==
  /\ main = "collectHTTP"
  /\ runErr' = IF runErr = "none" THEN httpErr ELSE runErr
  /\ main' = "teardown"
  /\ UNCHANGED <<gates, appCancelled, serveErr, timer, read, signaled, waiter, mainFrame>>

CollectHTTP ==
  /\ main = "collectHTTP" /\ sig = "done"
  /\ runErr' = IF runErr = "none" THEN httpErr ELSE runErr
  /\ main' = "teardown"
  /\ UNCHANGED <<gates, appCancelled, serveErr, timer, read, signaled, waiter, mainFrame>>

\* The dependencies are closed and the process exits, which ends every
\* goroutine wherever it was.
Exit ==
  /\ main = "teardown"
  /\ main' = "exited"
  /\ handler' = [r \in Request |-> "done"]
  /\ job' = [j \in Job |-> "done"]
  /\ sig' = "done" /\ waiter' = "done" /\ appCancelled' = TRUE
  /\ server' = "closing" /\ conns' = {} /\ serveErr' = "none"
  /\ timer' = [t \in Deadline |-> "off"]
  /\ UNCHANGED <<gates, signals, httpErr, read, signaled, runErr>>

HandlerStep(r) ==
  Respond(r) \/ StartSyncClaim(r) \/ StartSyncAdmit(r)
             \/ WebhookConflict(r) \/ WebhookAdmit(r)

JobStep(j) == SyncAdmit(j) \/ SyncClaim(j) \/ Unclaim(j) \/ Leave(j)

SignalStep == ShutdownServer \/ ShutdownReturns \/ SignalHandlerReturns

MainStep ==
  \/ SelectSignal \/ SelectServeErr \/ Peek \/ RejectNewSubmissions
  \/ WaitLifecycle \/ WaitForInflight \/ WaitWorkers
  \/ ReleaseHandler \/ CollectServe \/ CollectHTTP \/ Exit

Next ==
  \/ \E r \in Request : Arrive(r) \/ HandlerStep(r)
  \/ StartupBegin
  \/ \E j \in Job : JobStep(j) \/ JobEnds(j)
  \/ AcceptFails \/ OnShutdown
  \/ FirstSignal \/ SecondSignal \/ SignalStep \/ DeadlinePasses
  \/ MainStep \/ GiveUp \/ CloseAdmission \/ SyncWait

Spec == Init /\ [][Next]_vars

\* Every goroutine of the shutdown goes on when it can, and deadlines pass.
\* Nothing is assumed of the handlers, of the jobs or of the peers.
ShutdownFairness ==
  /\ WF_vars(SignalStep)
  /\ WF_vars(MainStep)
  /\ WF_vars(GiveUp)
  /\ WF_vars(DeadlinePasses)

FairSpec == Spec /\ ShutdownFairness

-----------------------------------------------------------------------------
TypeOK ==
  /\ handler \in [Request -> {"none", "claim", "admit", "respond", "done"}]
  /\ job \in [Job -> {"none", "migrating", "admit", "claim", "job", "unclaim",
                      "leave", "done"}]
  /\ syncRunning \in BOOLEAN /\ closed \in BOOLEAN /\ rejecting \in BOOLEAN
  /\ appCancelled \in BOOLEAN
  /\ server \in {"serving", "failed", "closing"}
  /\ conns \subseteq Request
  /\ serveErr \in {"none", "failed", "closed"}
  /\ signals \in 0..MaxSignals
  /\ sig \in {"waiting", "published", "draining", "returned", "done"}
  /\ httpErr \in {"none", "timeout"}
  /\ timer \in [Deadline -> {"off", "on", "passed"}]
  /\ main \in {"select", "peek", "reject", "lifecycle", "webhooks", "workers",
               "drained", "collectServe", "collectHTTP", "teardown", "exited"}
  /\ read \in {"none", "failed", "closed"}
  /\ signaled \in BOOLEAN
  /\ runErr \in {"none", "serve", "timeout"}
  /\ waiter \in {"none", "spawned", "waiting", "done"}

\* However a job was started, at most one of the process runs at a time: a
\* job that is refused never clears the flag of the one that is running.
OneJobPerProcess ==
  \A i, j \in Job :
    job[i] \in {"job", "unclaim"} /\ job[j] \in {"job", "unclaim"} => i = j

\* When the drain of the workers has not failed, no sync job runs and none
\* can begin any more, whatever requests are still being handled: nothing
\* uses the database that is about to be closed to write.
DrainedMeansQuiet ==
  (main \in {"drained", "collectServe", "collectHTTP", "teardown"} /\ waiter = "done")
    => Admitted = {}

\* ErrServerClosed is only ever read when the signal path owns the shutdown,
\* so its worker drain and its deadline are never skipped.
ClosedMeansSignaled ==
  read = "closed" /\ main # "peek" => signaled

\* A process that exits without an error, and was not forced by a second
\* signal, closes the database after every handler and every job has ended.
\* (main.go says of every teardown that it comes "after HTTP handlers have fully
\* drained": nothing drains them when the server fails by itself, and a second
\* signal or the deadline ends the drain.)
CleanExit ==
  (main = "teardown" /\ runErr = "none" /\ signals < 2) =>
    /\ \A r \in Request : handler[r] \in {"none", "done"}
    /\ \A j \in Job : job[j] \in {"none", "done"}

\* The handshake between the signal handler and main cannot lock up: the
\* process exits after a signal, and after the server has failed.
ShutdownEnds == (Published \/ server = "failed") ~> (main = "exited")

=============================================================================
