------------------------ MODULE ControlProcessProofs ------------------------
(***************************************************************************)
(* Proofs about ControlProcess for any number of requests of every kind    *)
(* and any number of signals.                                              *)
(*                                                                         *)
(* The process flag has at most one holder: an admin request between       *)
(* StartSync's compare-and-swap and its admission, or a job that runs or   *)
(* is about to reset the flag.  While there is one the flag is set, so     *)
(* whoever finds it clear is the only one, and only the holder resets it.  *)
(***************************************************************************)
EXTENDS ControlProcess, TLAPS

Holder(x) ==
  \/ x \in Admins /\ handler[x] = "admit"
  \/ job[x] \in {"job", "unclaim"}

\* An admin request that has not been admitted has no job yet: it is not a
\* holder twice.
ApartInv ==
  \A r \in Admins : handler[r] \in {"none", "claim", "admit"} => job[r] = "none"

FlagInv ==
  /\ ApartInv
  /\ \A x \in Job : Holder(x) => syncRunning
  /\ \A x, y \in Job : Holder(x) /\ Holder(y) => x = y

\* Past CloseAdmission no job is admitted, and past the wait none is left,
\* until the exit ends them all.
DrainInv ==
  /\ waiter \in {"waiting", "done"} /\ main # "exited" => closed
  /\ waiter = "done" => Admitted = {}
  /\ main = "exited" => /\ \A r \in Request : handler[r] = "done"
                        /\ \A j \in Job : job[j] = "done"

\* Only the signal handler closes the server, after it has published the
\* deadline, and main collects a second result on its path only.
ClosedInv ==
  /\ serveErr = "closed" => Published
  /\ read = "closed" => Published
  /\ main = "collectServe" => signaled
  /\ ClosedMeansSignaled

-----------------------------------------------------------------------------
LEMMA InitTypeOK == Init => TypeOK
<1> SUFFICES ASSUME Init
             PROVE  TypeOK
  OBVIOUS
<1>1. {syncRunning, closed, rejecting, appCancelled, signaled} \subseteq BOOLEAN
  BY Zenon DEF Init
<1>2. QED
  BY <1>1, ProcessAssumption DEF Init, TypeOK, Job, Request, Deadline

\* Every action keeps the variables in their types.
LEMMA NextTypeOK == TypeOK /\ [Next]_vars => TypeOK'
<1> SUFFICES ASSUME TypeOK, [Next]_vars
             PROVE  TypeOK'
  OBVIOUS
<1> USE DEF TypeOK, gates, sigVars, mainVars, Deadline
<1>1. ASSUME NEW r \in Request, Arrive(r)
      PROVE  TypeOK'
  <2>1. handler' \in [Request -> {"none", "claim", "admit", "respond", "done"}]
    <3>1. CASE r \in Reads
      BY <1>1, <3>1, ProcessAssumption DEF Arrive, MoveHandler, Request
    <3>2. CASE r \in Admins
      BY <1>1, <3>2, ProcessAssumption DEF Arrive, MoveHandler, Request
    <3>3. CASE r \in Webhooks
      BY <1>1, <3>3, ProcessAssumption DEF Arrive, MoveHandler, Request
    <3>4. QED
      BY <3>1, <3>2, <3>3 DEF Request
  <2>2. QED
    BY <1>1, <2>1 DEF Arrive
<1>2. ASSUME NEW r \in Request, HandlerStep(r)
      PROVE  TypeOK'
  <2>1. CASE Respond(r)
    BY <2>1 DEF Respond, MoveHandler
  <2>2. CASE StartSyncClaim(r)
    BY <2>2 DEF StartSyncClaim, MoveHandler
  <2>3. CASE StartSyncAdmit(r)
    <3>1. r \in Job
      BY <2>3 DEF StartSyncAdmit, Job
    <3>2. CASE closed
      <4>1. syncRunning' \in BOOLEAN
        BY <2>3, <3>2, Zenon DEF StartSyncAdmit
      <4>2. QED
        BY <2>3, <3>2, <4>1 DEF StartSyncAdmit, MoveHandler
    <3>3. CASE ~closed
      BY <2>3, <3>1, <3>3 DEF StartSyncAdmit, MoveHandler, MoveJob
    <3>4. QED
      BY <3>2, <3>3
  <2>4. CASE WebhookConflict(r)
    BY <2>4 DEF WebhookConflict, MoveHandler
  <2>5. CASE WebhookAdmit(r)
    BY <2>5 DEF WebhookAdmit, MoveHandler, MoveJob
  <2>6. QED
    BY <1>2, <2>1, <2>2, <2>3, <2>4, <2>5 DEF HandlerStep
<1>3. ASSUME StartupBegin
      PROVE  TypeOK'
  BY <1>3 DEF StartupBegin, MoveJob, jobFrame
<1>4. ASSUME NEW j \in Job, JobStep(j) \/ JobEnds(j)
      PROVE  TypeOK'
  <2> USE DEF jobFrame, MoveJob
  <2>1. CASE SyncAdmit(j)
    BY <2>1 DEF SyncAdmit
  <2>2. CASE SyncClaim(j)
    BY <2>2 DEF SyncClaim
  <2>3. CASE Unclaim(j)
    <3>1. syncRunning' \in BOOLEAN
      BY <2>3, Zenon DEF Unclaim
    <3>2. QED
      BY <2>3, <3>1 DEF Unclaim
  <2>4. CASE Leave(j)
    BY <2>4 DEF Leave
  <2>5. CASE JobEnds(j)
    BY <2>5 DEF JobEnds
  <2>6. QED
    BY <1>4, <2>1, <2>2, <2>3, <2>4, <2>5 DEF JobStep
<1>5. ASSUME AcceptFails \/ OnShutdown
      PROVE  TypeOK'
  <2>1. CASE AcceptFails
    BY <2>1 DEF AcceptFails
  <2>2. CASE OnShutdown
    BY <2>2 DEF OnShutdown
  <2>3. QED
    BY <1>5, <2>1, <2>2
<1>6. ASSUME FirstSignal \/ SecondSignal \/ SignalStep \/ DeadlinePasses
      PROVE  TypeOK'
  <2> USE DEF sigFrame, CloseServer
  <2>1. CASE FirstSignal \/ SecondSignal
    BY <2>1, ProcessAssumption DEF FirstSignal, SecondSignal
  <2>2. CASE ShutdownServer
    BY <2>2 DEF ShutdownServer
  <2>3. CASE ShutdownReturns
    BY <2>3 DEF ShutdownReturns
  <2>4. CASE SignalHandlerReturns
    BY <2>4 DEF SignalHandlerReturns
  <2>5. CASE DeadlinePasses
    BY <2>5 DEF DeadlinePasses
  <2>6. QED
    BY <1>6, <2>1, <2>2, <2>3, <2>4, <2>5 DEF SignalStep
<1>7. ASSUME MainStep \/ GiveUp \/ CloseAdmission \/ SyncWait
      PROVE  TypeOK'
  <2> USE DEF mainFrame
  <2>1. CASE SelectSignal
    BY <2>1 DEF SelectSignal
  <2>2. CASE SelectServeErr
    BY <2>2 DEF SelectServeErr
  <2>3. CASE Peek
    BY <2>3 DEF Peek, Published
  <2>4. CASE RejectNewSubmissions
    BY <2>4 DEF RejectNewSubmissions
  <2>5. CASE WaitLifecycle
    BY <2>5 DEF WaitLifecycle
  <2>6. CASE WaitForInflight
    BY <2>6 DEF WaitForInflight
  <2>7. CASE WaitWorkers
    BY <2>7 DEF WaitWorkers
  <2>8. CASE ReleaseHandler
    BY <2>8 DEF ReleaseHandler
  <2>9. CASE CollectServe
    BY <2>9 DEF CollectServe
  <2>10. CASE CollectHTTP
    BY <2>10 DEF CollectHTTP
  <2>11. CASE Exit
    BY <2>11 DEF Exit
  <2>12. CASE GiveUp
    BY <2>12 DEF GiveUp
  <2>13. CASE CloseAdmission
    BY <2>13 DEF CloseAdmission
  <2>14. CASE SyncWait
    BY <2>14 DEF SyncWait
  <2>15. QED
    BY <1>7, <2>1, <2>2, <2>3, <2>4, <2>5, <2>6, <2>7,
       <2>8, <2>9, <2>10, <2>11, <2>12, <2>13, <2>14 DEF MainStep
<1>8. ASSUME UNCHANGED vars
      PROVE  TypeOK'
  BY <1>8 DEF vars
<1>9. QED
  BY <1>1, <1>2, <1>3, <1>4, <1>5, <1>6, <1>7, <1>8 DEF Next

\* Type correctness of the process, for any number of requests and signals.
THEOREM ProcessTypeCorrect == Spec => []TypeOK
BY InitTypeOK, NextTypeOK, PTL DEF Spec

-----------------------------------------------------------------------------
LEMMA InitFlagInv == Init => FlagInv
BY ProcessAssumption DEF Init, FlagInv, ApartInv, Holder, Job, Request

\* The steps that move neither handlers nor jobs leave the flag to its holder.
LEMMA FlagUnchanged ==
  ASSUME FlagInv, UNCHANGED <<handler, job, syncRunning>>
  PROVE  FlagInv'
BY DEF FlagInv, ApartInv, Holder

\* No step gives the flag a second holder, or clears it under its holder.
LEMMA NextFlagInv == TypeOK /\ FlagInv /\ [Next]_vars => FlagInv'
<1> SUFFICES ASSUME TypeOK, FlagInv, [Next]_vars
             PROVE  FlagInv'
  OBVIOUS
<1> USE DEF gates, sigVars, mainVars, MoveHandler, MoveJob
<1>0. /\ handler \in [Request -> {"none", "claim", "admit", "respond", "done"}]
      /\ job \in [Job -> {"none", "migrating", "admit", "claim", "job", "unclaim",
                          "leave", "done"}]
  BY DEF TypeOK
<1>1. ASSUME NEW r \in Request, Arrive(r) \/ HandlerStep(r)
      PROVE  FlagInv'
  <2> USE <1>0 DEF Request, Job
  <2>1. CASE Arrive(r)
    <3>1. handler'[r] # "admit" \/ r \notin Admins
      BY <2>1, ProcessAssumption DEF Arrive
    <3>2. r \in Admins => handler[r] = "none"
      BY <2>1 DEF Arrive
    <3>3. QED
      BY <2>1, <3>1, <3>2 DEF Arrive, FlagInv, ApartInv, Holder
  <2>2. CASE Respond(r)
    BY <2>2 DEF Respond, FlagInv, ApartInv, Holder
  <2>3. CASE StartSyncClaim(r)
    BY <2>3 DEF StartSyncClaim, FlagInv, ApartInv, Holder
  <2>4. CASE StartSyncAdmit(r)
    <3>1. Holder(r)
      BY <2>4 DEF StartSyncAdmit, Holder
    <3>2. \A x \in Job : Holder(x)' => x = r
      BY <2>4, <3>1 DEF StartSyncAdmit, FlagInv, Holder
    <3>3. \A x \in Job : Holder(x)' => syncRunning'
      BY <2>4, <3>1, <3>2 DEF StartSyncAdmit, FlagInv, ApartInv, Holder
    <3>4. ApartInv'
      BY <2>4 DEF StartSyncAdmit, FlagInv, ApartInv
    <3>5. QED
      BY <3>2, <3>3, <3>4 DEF FlagInv
  <2>5. CASE WebhookConflict(r)
    BY <2>5, ProcessAssumption DEF WebhookConflict, FlagInv, ApartInv, Holder
  <2>6. CASE WebhookAdmit(r)
    BY <2>6, ProcessAssumption DEF WebhookAdmit, FlagInv, ApartInv, Holder
  <2>7. QED
    BY <1>1, <2>1, <2>2, <2>3, <2>4, <2>5, <2>6 DEF HandlerStep
<1>2. ASSUME StartupBegin
      PROVE  FlagInv'
  BY <1>0, <1>2, ProcessAssumption DEF StartupBegin, jobFrame, FlagInv, ApartInv, Holder, Job
<1>3. ASSUME NEW j \in Job, JobStep(j) \/ JobEnds(j)
      PROVE  FlagInv'
  <2> USE <1>0 DEF jobFrame, Job
  <2>1. CASE SyncAdmit(j)
    BY <2>1 DEF SyncAdmit, FlagInv, ApartInv, Holder
  <2>2. CASE SyncClaim(j)
    BY <2>2 DEF SyncClaim, FlagInv, ApartInv, Holder
  <2>3. CASE Unclaim(j)
    <3>1. Holder(j)
      BY <2>3 DEF Unclaim, Holder
    <3>2. \A x \in Job : ~Holder(x)'
      BY <2>3, <3>1 DEF Unclaim, FlagInv, ApartInv, Holder
    <3>3. ApartInv'
      BY <2>3 DEF Unclaim, FlagInv, ApartInv
    <3>4. QED
      BY <3>2, <3>3 DEF FlagInv
  <2>4. CASE Leave(j)
    BY <2>4 DEF Leave, FlagInv, ApartInv, Holder
  <2>5. CASE JobEnds(j)
    BY <2>5 DEF JobEnds, FlagInv, ApartInv, Holder
  <2>6. QED
    BY <1>3, <2>1, <2>2, <2>3, <2>4, <2>5 DEF JobStep
<1>4. CASE Exit
  BY <1>4 DEF Exit, FlagInv, ApartInv, Holder, Request, Job
<1>5. CASE \/ AcceptFails \/ OnShutdown \/ FirstSignal \/ SecondSignal
           \/ SignalStep \/ DeadlinePasses
  <2>1. UNCHANGED <<handler, job, syncRunning>>
    BY <1>5 DEF AcceptFails, OnShutdown, FirstSignal, SecondSignal, SignalStep,
                ShutdownServer, ShutdownReturns, SignalHandlerReturns,
                DeadlinePasses, sigFrame
  <2>2. QED
    BY <2>1, FlagUnchanged
<1>6. CASE \/ (MainStep /\ ~Exit) \/ GiveUp \/ CloseAdmission \/ SyncWait
  <2>1. UNCHANGED <<handler, job, syncRunning>>
    BY <1>6 DEF MainStep, SelectSignal, SelectServeErr, Peek, RejectNewSubmissions,
                WaitLifecycle, WaitForInflight, WaitWorkers, ReleaseHandler,
                CollectServe, CollectHTTP, GiveUp, CloseAdmission, SyncWait, mainFrame
  <2>2. QED
    BY <2>1, FlagUnchanged
<1>7. CASE UNCHANGED vars
  BY <1>7, FlagUnchanged DEF vars
<1>8. QED
  BY <1>1, <1>2, <1>3, <1>4, <1>5, <1>6, <1>7 DEF Next, MainStep

LEMMA FlagOneJob == FlagInv => OneJobPerProcess
BY DEF FlagInv, Holder, OneJobPerProcess

\* At most one sync job of a process runs at a time, whichever of the three
\* ways started it and however they race for the flag.
THEOREM OneJobAtATime == Spec => []OneJobPerProcess
<1>1. Init => TypeOK /\ FlagInv
  BY InitTypeOK, InitFlagInv
<1>2. TypeOK /\ FlagInv /\ [Next]_vars => (TypeOK /\ FlagInv)'
  BY NextTypeOK, NextFlagInv
<1>3. QED
  BY <1>1, <1>2, FlagOneJob, PTL DEF Spec

-----------------------------------------------------------------------------
LEMMA InitDrainInv == Init => DrainInv
BY DEF Init, DrainInv

\* After the gate is closed nothing enters the wait group; the wait ends when
\* it is empty.
LEMMA NextDrainInv == TypeOK /\ DrainInv /\ [Next]_vars => DrainInv'
<1> SUFFICES ASSUME TypeOK, DrainInv, [Next]_vars
             PROVE  DrainInv'
  OBVIOUS
<1> USE DEF gates, sigVars, mainVars, MoveHandler, MoveJob, DrainInv, Admitted
<1>0. /\ handler \in [Request -> {"none", "claim", "admit", "respond", "done"}]
      /\ job \in [Job -> {"none", "migrating", "admit", "claim", "job", "unclaim",
                          "leave", "done"}]
  BY DEF TypeOK
<1>1. ASSUME NEW r \in Request, Arrive(r) \/ HandlerStep(r)
      PROVE  DrainInv'
  <2>1. main # "exited"
    BY <1>1 DEF Arrive, HandlerStep, Respond, StartSyncClaim, StartSyncAdmit,
                WebhookConflict, WebhookAdmit
  <2>2. CASE Arrive(r) \/ Respond(r) \/ StartSyncClaim(r) \/ WebhookConflict(r)
    BY <2>1, <2>2 DEF Arrive, Respond, StartSyncClaim, WebhookConflict
  <2>3. CASE StartSyncAdmit(r)
    BY <1>0, <2>1, <2>3 DEF StartSyncAdmit
  <2>4. CASE WebhookAdmit(r)
    BY <1>0, <2>1, <2>4 DEF WebhookAdmit
  <2>5. QED
    BY <1>1, <2>2, <2>3, <2>4 DEF HandlerStep
<1>2. ASSUME NEW j \in Job, JobStep(j) \/ JobEnds(j)
      PROVE  DrainInv'
  <2>1. main # "exited"
    BY <1>2 DEF JobStep, JobEnds, SyncAdmit, SyncClaim, Unclaim, Leave
  <2>2. CASE SyncAdmit(j)
    BY <1>0, <2>1, <2>2 DEF SyncAdmit, jobFrame
  <2>3. CASE SyncClaim(j)
    BY <1>0, <2>1, <2>3 DEF SyncClaim, jobFrame
  <2>4. CASE Unclaim(j) \/ Leave(j) \/ JobEnds(j)
    BY <1>0, <2>1, <2>4 DEF Unclaim, Leave, JobEnds, jobFrame
  <2>5. QED
    BY <1>2, <2>2, <2>3, <2>4 DEF JobStep
<1>3. CASE StartupBegin
  <2>1. Startup \in Job
    BY DEF Job
  <2>2. main # "exited"
    BY <1>3, <2>1 DEF StartupBegin
  <2>3. QED
    BY <1>0, <1>3, <2>1, <2>2 DEF StartupBegin, jobFrame
<1>4. CASE Exit
  BY <1>4 DEF Exit
<1>5. CASE \/ AcceptFails \/ OnShutdown \/ FirstSignal \/ SecondSignal
           \/ SignalStep \/ DeadlinePasses
  BY <1>5 DEF AcceptFails, OnShutdown, FirstSignal, SecondSignal, SignalStep,
              ShutdownServer, ShutdownReturns, SignalHandlerReturns,
              DeadlinePasses, sigFrame
<1>6. CASE \/ SelectSignal \/ SelectServeErr \/ Peek \/ RejectNewSubmissions
           \/ WaitLifecycle \/ WaitWorkers \/ ReleaseHandler \/ CollectServe
           \/ CollectHTTP \/ GiveUp
  BY <1>6 DEF SelectSignal, SelectServeErr, Peek, RejectNewSubmissions,
              WaitLifecycle, WaitWorkers, ReleaseHandler, CollectServe,
              CollectHTTP, GiveUp, mainFrame
<1>7. CASE WaitForInflight
  BY <1>7 DEF WaitForInflight, mainFrame
<1>8. CASE CloseAdmission \/ SyncWait
  BY <1>8 DEF CloseAdmission, SyncWait, mainFrame
<1>9. CASE UNCHANGED vars
  BY <1>9 DEF vars
<1>10. QED
  BY <1>1, <1>2, <1>3, <1>4, <1>5, <1>6, <1>7, <1>8, <1>9 DEF Next, MainStep

\* Once the worker drain has succeeded no sync job runs, and none can begin
\* while the dependencies are being closed.
THEOREM DrainLeavesNoJob == Spec => []DrainedMeansQuiet
<1>1. Init => TypeOK /\ DrainInv
  BY InitTypeOK, InitDrainInv
<1>2. TypeOK /\ DrainInv /\ [Next]_vars => (TypeOK /\ DrainInv)'
  BY NextTypeOK, NextDrainInv
<1>3. DrainInv => DrainedMeansQuiet
  BY DEF DrainInv, DrainedMeansQuiet
<1>4. QED
  BY <1>1, <1>2, <1>3, PTL DEF Spec

-----------------------------------------------------------------------------
LEMMA InitClosedInv == Init => ClosedInv
BY DEF Init, ClosedInv, ClosedMeansSignaled

\* A step that leaves alone what main has read and what it will read.
LEMMA ClosedUnchanged ==
  ASSUME ClosedInv, UNCHANGED <<serveErr, read, main, signaled>>,
         Published => Published'
  PROVE  ClosedInv'
BY DEF ClosedInv, ClosedMeansSignaled

\* The deadline is published before the server is closed, and is never taken
\* back: whoever reads ErrServerClosed finds it published.
LEMMA NextClosedInv == TypeOK /\ ClosedInv /\ [Next]_vars => ClosedInv'
<1> SUFFICES ASSUME TypeOK, ClosedInv, [Next]_vars
             PROVE  ClosedInv'
  OBVIOUS
<1> USE DEF gates, sigVars, mainVars, Published
<1>1. CASE \E r \in Request : Arrive(r) \/ HandlerStep(r)
  <2>1. UNCHANGED <<serveErr, read, main, signaled, sig>>
    BY <1>1 DEF Arrive, HandlerStep, Respond, StartSyncClaim, StartSyncAdmit,
                WebhookConflict, WebhookAdmit
  <2>2. QED
    BY <2>1, ClosedUnchanged
<1>2. CASE StartupBegin \/ \E j \in Job : JobStep(j) \/ JobEnds(j)
  <2>1. UNCHANGED <<serveErr, read, main, signaled, sig>>
    BY <1>2 DEF StartupBegin, JobStep, JobEnds, SyncAdmit, SyncClaim, Unclaim,
                Leave, jobFrame
  <2>2. QED
    BY <2>1, ClosedUnchanged
<1>3. CASE AcceptFails
  BY <1>3 DEF AcceptFails, ClosedInv, ClosedMeansSignaled
<1>4. CASE OnShutdown \/ FirstSignal \/ DeadlinePasses
           \/ ShutdownReturns \/ SignalHandlerReturns
  <2>1. UNCHANGED <<serveErr, read, main, signaled>>
    BY <1>4 DEF OnShutdown, FirstSignal, DeadlinePasses, ShutdownReturns,
                SignalHandlerReturns, sigFrame
  <2>2. Published => Published'
    BY <1>4 DEF OnShutdown, FirstSignal, DeadlinePasses, ShutdownReturns,
                SignalHandlerReturns
  <2>3. QED
    BY <2>1, <2>2, ClosedUnchanged
<1>5. CASE ShutdownServer \/ SecondSignal
  BY <1>5 DEF ShutdownServer, SecondSignal, CloseServer, sigFrame,
              ClosedInv, ClosedMeansSignaled
<1>6. CASE MainStep
  <2> USE DEF mainFrame, ClosedInv, ClosedMeansSignaled
  <2>1. CASE SelectSignal \/ SelectServeErr \/ RejectNewSubmissions
    BY <1>6, <2>1 DEF SelectSignal, SelectServeErr, RejectNewSubmissions
  <2>2. CASE Peek
    BY <2>2 DEF Peek
  <2>3. CASE WaitLifecycle \/ WaitForInflight \/ WaitWorkers
    BY <2>3 DEF WaitLifecycle, WaitForInflight, WaitWorkers
  <2>4. CASE ReleaseHandler
    BY <2>4 DEF ReleaseHandler
  <2>5. CASE CollectServe
    BY <2>5 DEF CollectServe
  <2>6. CASE CollectHTTP
    BY <2>6 DEF CollectHTTP
  <2>7. CASE Exit
    BY <2>7 DEF Exit
  <2>8. QED
    BY <1>6, <2>1, <2>2, <2>3, <2>4, <2>5, <2>6, <2>7 DEF MainStep
<1>7. CASE GiveUp \/ CloseAdmission \/ SyncWait
  BY <1>7 DEF GiveUp, CloseAdmission, SyncWait, mainFrame, ClosedInv,
              ClosedMeansSignaled
<1>8. CASE UNCHANGED vars
  BY <1>8, ClosedUnchanged DEF vars
<1>9. QED
  BY <1>1, <1>2, <1>3, <1>4, <1>5, <1>6, <1>7, <1>8 DEF Next, SignalStep

\* Reading ErrServerClosed main always takes the signal's path, with its
\* deadline and its worker drain, although the two channels race.
THEOREM ServerClosedOnlyBySignal == Spec => []ClosedMeansSignaled
<1>1. Init => TypeOK /\ ClosedInv
  BY InitTypeOK, InitClosedInv
<1>2. TypeOK /\ ClosedInv /\ [Next]_vars => (TypeOK /\ ClosedInv)'
  BY NextTypeOK, NextClosedInv
<1>3. ClosedInv => ClosedMeansSignaled
  BY DEF ClosedInv
<1>4. QED
  BY <1>1, <1>2, <1>3, PTL DEF Spec

-----------------------------------------------------------------------------
Handling == {r \in Request : handler[r] \in {"claim", "admit", "respond"}}

\* Unless a second signal or the deadline has dropped connections, a request
\* that is being handled still has its own; past server.Shutdown none is left
\* and none is accepted.
ConnInv ==
  /\ signals < 2 /\ httpErr = "none" => Handling \subseteq conns
  /\ sig \in {"published", "draining"} => signals >= 1
  /\ sig \in {"draining", "returned", "done"} => server = "closing"
  /\ sig \in {"returned", "done"} /\ httpErr = "none" => conns = {}

PastReject == {"lifecycle", "webhooks", "workers", "drained", "collectServe",
               "collectHTTP", "teardown"}

\* What each wait of the drain has established, when none of them gave up.
\* Only the admin requests are not waited for at the gate: they never ask for
\* admission once they are jobs.
WorkInv ==
  /\ \A r \in Admins : job[r] \notin {"migrating", "admit", "claim"}
  /\ main \in PastReject => rejecting
  /\ (runErr = "none" /\ main \in PastReject \ {"lifecycle"}) => job[Startup] = "done"
  /\ (runErr = "none" /\ main \in PastReject \ {"lifecycle", "webhooks"})
       => \A j \in Webhooks : job[j] \in {"none", "done"}
  /\ (runErr = "none" /\ main \in PastReject \ {"lifecycle", "webhooks", "workers"})
       => waiter = "done"

\* Without an error the process exits on the signal's path only, with the
\* HTTP drain collected.
PathInv ==
  /\ main = "peek" => read # "none"
  /\ main \in PastReject \cup {"reject"} /\ ~signaled => runErr # "none"
  /\ main = "teardown" /\ runErr = "none" => sig = "done" /\ httpErr = "none"

LEMMA InitExitInv == Init => ConnInv /\ WorkInv /\ PathInv
BY ProcessAssumption DEF Init, ConnInv, WorkInv, PathInv, PastReject, Handling, Job, Request

\* A connection is forgotten with its handler, or the shutdown is not clean.
LEMMA NextConnInv == TypeOK /\ ConnInv /\ [Next]_vars => ConnInv'
<1> SUFFICES ASSUME TypeOK, ConnInv, [Next]_vars
             PROVE  ConnInv'
  OBVIOUS
<1> USE DEF gates, sigVars, mainVars, MoveHandler, MoveJob, ConnInv, Handling
<1>0. /\ handler \in [Request -> {"none", "claim", "admit", "respond", "done"}]
      /\ signals \in Nat
  BY ProcessAssumption DEF TypeOK
<1>1. ASSUME NEW r \in Request, Arrive(r)
      PROVE  ConnInv'
  BY <1>0, <1>1 DEF Arrive
<1>2. ASSUME NEW r \in Request, HandlerStep(r)
      PROVE  ConnInv'
  <2>1. CASE Respond(r)
    BY <1>0, <2>1 DEF Respond
  <2>2. CASE StartSyncClaim(r)
    BY <1>0, <2>2 DEF StartSyncClaim
  <2>3. CASE StartSyncAdmit(r)
    BY <1>0, <2>3 DEF StartSyncAdmit
  <2>4. CASE WebhookConflict(r)
    BY <1>0, <2>4 DEF WebhookConflict
  <2>5. CASE WebhookAdmit(r)
    BY <1>0, <2>5 DEF WebhookAdmit
  <2>6. QED
    BY <1>2, <2>1, <2>2, <2>3, <2>4, <2>5 DEF HandlerStep
<1>3. CASE StartupBegin \/ \E j \in Job : JobStep(j) \/ JobEnds(j)
  BY <1>3 DEF StartupBegin, JobStep, JobEnds, SyncAdmit, SyncClaim, Unclaim,
              Leave, jobFrame
<1>4. CASE AcceptFails \/ OnShutdown \/ DeadlinePasses
  BY <1>4 DEF AcceptFails, OnShutdown, DeadlinePasses, sigFrame
<1>5. CASE FirstSignal
  BY <1>0, <1>5 DEF FirstSignal, sigFrame
<1>6. CASE SecondSignal
  BY <1>0, <1>6 DEF SecondSignal, CloseServer, sigFrame
<1>7. CASE SignalStep
  <2>1. CASE ShutdownServer
    BY <2>1 DEF ShutdownServer, CloseServer, sigFrame
  <2>2. CASE ShutdownReturns
    BY <2>2 DEF ShutdownReturns, sigFrame
  <2>3. CASE SignalHandlerReturns
    BY <2>3 DEF SignalHandlerReturns, sigFrame
  <2>4. QED
    BY <1>7, <2>1, <2>2, <2>3 DEF SignalStep
<1>8. CASE Exit
  BY <1>8 DEF Exit
<1>9. CASE (MainStep /\ ~Exit) \/ GiveUp \/ CloseAdmission \/ SyncWait
  <2>1. UNCHANGED mainFrame
    BY <1>9 DEF MainStep, SelectSignal, SelectServeErr, Peek, RejectNewSubmissions,
                WaitLifecycle, WaitForInflight, WaitWorkers, ReleaseHandler,
                CollectServe, CollectHTTP, GiveUp, CloseAdmission, SyncWait
  <2>2. QED
    BY <2>1 DEF mainFrame
<1>10. CASE UNCHANGED vars
  BY <1>10 DEF vars
<1>11. QED
  BY <1>1, <1>2, <1>3, <1>4, <1>5, <1>6, <1>7, <1>8, <1>9, <1>10 DEF Next, MainStep

\* No job comes back once it was waited for.
LEMMA NextWorkInv == TypeOK /\ WorkInv /\ [Next]_vars => WorkInv'
<1> SUFFICES ASSUME TypeOK, WorkInv, [Next]_vars
             PROVE  WorkInv'
  OBVIOUS
<1> USE DEF gates, sigVars, mainVars, MoveHandler, MoveJob, WorkInv, PastReject
<1>0. /\ job \in [Job -> {"none", "migrating", "admit", "claim", "job", "unclaim",
                          "leave", "done"}]
      /\ Startup \in Job /\ Startup \notin Admins /\ Startup \notin Webhooks
      /\ Admins \subseteq Job /\ Webhooks \subseteq Job /\ Admins \cap Webhooks = {}
  BY ProcessAssumption DEF TypeOK, Job
<1>1. ASSUME NEW r \in Request, Arrive(r) \/ HandlerStep(r)
      PROVE  WorkInv'
  <2>1. CASE Arrive(r) \/ Respond(r) \/ StartSyncClaim(r) \/ WebhookConflict(r)
    BY <2>1 DEF Arrive, Respond, StartSyncClaim, WebhookConflict
  <2>2. CASE StartSyncAdmit(r)
    BY <1>0, <2>2 DEF StartSyncAdmit
  <2>3. CASE WebhookAdmit(r)
    BY <1>0, <2>3 DEF WebhookAdmit
  <2>4. QED
    BY <1>1, <2>1, <2>2, <2>3 DEF HandlerStep
<1>2. ASSUME NEW j \in Job, JobStep(j) \/ JobEnds(j)
      PROVE  WorkInv'
  <2>1. CASE SyncAdmit(j)
    BY <1>0, <2>1 DEF SyncAdmit, jobFrame
  <2>2. CASE SyncClaim(j)
    BY <1>0, <2>2 DEF SyncClaim, jobFrame
  <2>3. CASE Unclaim(j)
    BY <1>0, <2>3 DEF Unclaim, jobFrame
  <2>4. CASE Leave(j)
    BY <1>0, <2>4 DEF Leave, jobFrame
  <2>5. CASE JobEnds(j)
    BY <1>0, <2>5 DEF JobEnds, jobFrame
  <2>6. QED
    BY <1>2, <2>1, <2>2, <2>3, <2>4, <2>5 DEF JobStep
<1>3. CASE StartupBegin
  BY <1>0, <1>3 DEF StartupBegin, jobFrame
<1>4. CASE \/ AcceptFails \/ OnShutdown \/ FirstSignal \/ SecondSignal
           \/ SignalStep \/ DeadlinePasses
  BY <1>4 DEF AcceptFails, OnShutdown, FirstSignal, SecondSignal, SignalStep,
              ShutdownServer, ShutdownReturns, SignalHandlerReturns,
              DeadlinePasses, sigFrame
<1>5. CASE SelectSignal \/ SelectServeErr \/ Peek \/ RejectNewSubmissions
  BY <1>5 DEF SelectSignal, SelectServeErr, Peek, RejectNewSubmissions, mainFrame
<1>6. CASE WaitLifecycle
  BY <1>6 DEF WaitLifecycle, Lifecycle, mainFrame
<1>7. CASE WaitForInflight
  BY <1>7 DEF WaitForInflight, Inflight, mainFrame
<1>8. CASE WaitWorkers \/ ReleaseHandler \/ CollectServe \/ CollectHTTP
  BY <1>8 DEF WaitWorkers, ReleaseHandler, CollectServe, CollectHTTP, mainFrame
<1>9. CASE GiveUp \/ CloseAdmission \/ SyncWait
  BY <1>9 DEF GiveUp, CloseAdmission, SyncWait, mainFrame
<1>10. CASE Exit
  BY <1>0, <1>10 DEF Exit
<1>11. CASE UNCHANGED vars
  BY <1>11 DEF vars
<1>12. QED
  BY <1>1, <1>2, <1>3, <1>4, <1>5, <1>6, <1>7, <1>8, <1>9, <1>10, <1>11
     DEF Next, MainStep

\* A server that failed leaves its error; one that was closed was closed by
\* the signal.
LEMMA NextPathInv == TypeOK /\ ClosedInv /\ PathInv /\ [Next]_vars => PathInv'
<1> SUFFICES ASSUME TypeOK, ClosedInv, PathInv, [Next]_vars
             PROVE  PathInv'
  OBVIOUS
<1> USE DEF gates, sigVars, mainVars, PathInv, PastReject
<1>1. CASE \E r \in Request : Arrive(r) \/ HandlerStep(r)
  BY <1>1 DEF Arrive, HandlerStep, Respond, StartSyncClaim, StartSyncAdmit,
              WebhookConflict, WebhookAdmit
<1>2. CASE StartupBegin \/ \E j \in Job : JobStep(j) \/ JobEnds(j)
  BY <1>2 DEF StartupBegin, JobStep, JobEnds, SyncAdmit, SyncClaim, Unclaim,
              Leave, jobFrame
<1>3. CASE \/ AcceptFails \/ OnShutdown \/ FirstSignal \/ SecondSignal
           \/ SignalStep \/ DeadlinePasses
  BY <1>3 DEF AcceptFails, OnShutdown, FirstSignal, SecondSignal, SignalStep,
              ShutdownServer, ShutdownReturns, SignalHandlerReturns,
              DeadlinePasses, sigFrame
<1>4. CASE SelectSignal \/ SelectServeErr \/ RejectNewSubmissions
  BY <1>4 DEF SelectSignal, SelectServeErr, RejectNewSubmissions, mainFrame
<1>5. CASE Peek
  <2>1. read \in {"failed", "closed"}
    BY <1>5 DEF Peek, TypeOK
  <2>2. read = "closed" => Published
    BY DEF ClosedInv
  <2>3. ~signaled' => runErr' # "none"
    BY <1>5, <2>1, <2>2 DEF Peek
  <2>4. QED
    BY <1>5, <2>3 DEF Peek
<1>6. CASE WaitLifecycle \/ WaitForInflight \/ WaitWorkers
  BY <1>6 DEF WaitLifecycle, WaitForInflight, WaitWorkers, mainFrame
<1>7. CASE ReleaseHandler
  BY <1>7 DEF ReleaseHandler, mainFrame
<1>8. CASE CollectServe
  BY <1>8 DEF CollectServe, mainFrame
<1>9. CASE CollectHTTP
  BY <1>9 DEF CollectHTTP, mainFrame
<1>10. CASE Exit
  BY <1>10 DEF Exit
<1>11. CASE GiveUp \/ CloseAdmission \/ SyncWait
  BY <1>11 DEF GiveUp, CloseAdmission, SyncWait, mainFrame
<1>12. CASE UNCHANGED vars
  BY <1>12 DEF vars
<1>13. QED
  BY <1>1, <1>2, <1>3, <1>4, <1>5, <1>6, <1>7, <1>8, <1>9, <1>10, <1>11, <1>12
     DEF Next, MainStep

LEMMA ExitIsClean ==
  ASSUME TypeOK, DrainInv, ConnInv, WorkInv, PathInv
  PROVE  CleanExit
<1> SUFFICES ASSUME main = "teardown", runErr = "none", signals < 2
             PROVE  /\ \A r \in Request : handler[r] \in {"none", "done"}
                    /\ \A j \in Job : job[j] \in {"none", "done"}
  BY DEF CleanExit
<1>1. sig = "done" /\ httpErr = "none"
  BY DEF PathInv
<1>2. Handling = {}
  BY <1>1 DEF ConnInv
<1>3. \A r \in Request : handler[r] \in {"none", "done"}
  BY <1>2 DEF Handling, TypeOK
<1>4. Admitted = {}
  BY DEF DrainInv, WorkInv, PastReject
<1>5. \A j \in Job : job[j] \in {"none", "done"}
  <2>1. /\ job[Startup] = "done"
        /\ \A j \in Webhooks : job[j] \in {"none", "done"}
        /\ \A j \in Admins : job[j] \notin {"migrating", "admit", "claim"}
    BY DEF WorkInv, PastReject
  <2>2. QED
    BY <1>4, <2>1 DEF Admitted, Job, TypeOK
<1>6. QED
  BY <1>3, <1>5

\* A process that exits without an error, and was not forced by a second
\* signal, closes the database after its last handler and its last job.
THEOREM ExitIsCleanAlways == Spec => []CleanExit
<1> DEFINE Inv == TypeOK /\ DrainInv /\ ClosedInv /\ ConnInv /\ WorkInv /\ PathInv
<1>1. Init => Inv
  BY InitTypeOK, InitDrainInv, InitClosedInv, InitExitInv
<1>2. Inv /\ [Next]_vars => Inv'
  BY NextTypeOK, NextDrainInv, NextClosedInv, NextConnInv, NextWorkInv, NextPathInv
<1>3. Inv => CleanExit
  BY ExitIsClean
<1> HIDE DEF Inv
<1>4. QED
  BY <1>1, <1>2, <1>3, PTL DEF Spec

=============================================================================
