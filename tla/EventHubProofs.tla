--------------------------- MODULE EventHubProofs ---------------------------
(***************************************************************************)
(* The event stream never panics and keeps the order of the saved          *)
(* statuses, for any number of workers, clients and events and channels of *)
(* any capacity.                                                           *)
(***************************************************************************)
EXTENDS EventHub, TLAPS

\* A channel in the map is open, and a publisher that goes through the map
\* holds the lock its writers wait for.
LockInv ==
  /\ \A c \in subscribed : chan[c] = "open"
  /\ \A w \in Worker : worker[w].at = "fanout" => w \in readers /\ worker[w].todo \subseteq subscribed
  /\ closed => subscribed = {}
  /\ ~fault

WInv == TypeOK /\ LockInv

Job == [at: Place, event: 0..MaxEvents, todo: SUBSET Client]

\* The steps of a worker.
LEMMA JobTyped ==
  ASSUME NEW j \in Job
  PROVE  /\ Resting \in Job
         /\ \A n \in 0..MaxEvents : [j EXCEPT !.at = "publish", !.event = n] \in Job
         /\ \A todo \in SUBSET Client : [j EXCEPT !.at = "fanout", !.todo = todo] \in Job
         /\ \A todo \in SUBSET Client : [j EXCEPT !.todo = todo] \in Job
<1>1. Resting \in Job
  BY HubAssumption DEF Job, Resting, Place
<1>2. \A n \in 0..MaxEvents : [j EXCEPT !.at = "publish", !.event = n] \in Job
  BY DEF Job, Place
<1>3. \A todo \in SUBSET Client : [j EXCEPT !.at = "fanout", !.todo = todo] \in Job
  BY DEF Job, Place
<1>4. \A todo \in SUBSET Client : [j EXCEPT !.todo = todo] \in Job
  BY DEF Job, Place
<1> QED
  BY <1>1, <1>2, <1>3, <1>4

LEMMA InitWInv == Init => WInv
<1> SUFFICES ASSUME Init
             PROVE  WInv
  OBVIOUS
<1>1. TypeOK
  <2>1. worker \in [Worker -> [at: Place, event: 0..MaxEvents, todo: SUBSET Client]]
    BY HubAssumption DEF Init, Resting, Place
  <2>2. buffer \in [Client -> Seq(0..MaxEvents)] /\ \A c \in Client : Len(buffer[c]) <= Capacity
    BY HubAssumption DEF Init
  <2>3. shown \in [Client -> 0..MaxEvents] /\ 0 \in 0..MaxEvents
    BY HubAssumption DEF Init
  <2> QED
    BY <2>1, <2>2, <2>3 DEF Init, TypeOK
<1>2. LockInv
  BY DEF Init, LockInv, Resting
<1> QED
  BY <1>1, <1>2 DEF WInv

\* What a step does to the channels' contents.
LEMMA BufferTyped ==
  ASSUME NEW s \in Seq(0..MaxEvents), Len(s) <= Capacity
  PROVE  /\ s # <<>> => /\ Tail(s) \in Seq(0..MaxEvents)
                        /\ Len(Tail(s)) <= Capacity
                        /\ Head(s) \in 0..MaxEvents
         /\ \A n \in 0..MaxEvents : Len(s) < Capacity =>
              /\ Append(s, n) \in Seq(0..MaxEvents)
              /\ Len(Append(s, n)) <= Capacity
BY HubAssumption

LEMMA NextTypeOK == WInv /\ [Next]_vars => TypeOK'
<1> SUFFICES ASSUME WInv, [Next]_vars
             PROVE  TypeOK'
  OBVIOUS
<1> USE HubAssumption DEF WInv, TypeOK, hubVars, clientVars, Lock, Unlock
<1>0. worker \in [Worker -> Job]
  BY DEF Job
<1>1. ASSUME NEW w \in Worker, SaveStatus(w)
      PROVE  TypeOK'
  <2>0. worker[w] \in Job /\ saved + 1 \in 0..MaxEvents
    BY <1>0, <1>1 DEF SaveStatus
  <2>1. [worker[w] EXCEPT !.at = "publish", !.event = saved + 1] \in Job
    BY <2>0, JobTyped
  <2>2. worker' \in [Worker -> Job]
    BY <1>0, <1>1, <2>1 DEF SaveStatus
  <2> QED
    BY <1>1, <2>2 DEF SaveStatus, Job
<1>2. ASSUME NEW w \in Worker, ReportProgress(w)
      PROVE  TypeOK'
  <2>0. worker[w] \in Job /\ 0 \in 0..MaxEvents
    BY <1>0
  <2>1. [worker[w] EXCEPT !.at = "publish", !.event = 0] \in Job
    BY <2>0, JobTyped
  <2>2. worker' \in [Worker -> Job]
    BY <1>0, <1>2, <2>1 DEF ReportProgress
  <2> QED
    BY <1>2, <2>2 DEF ReportProgress, Job
<1>3. ASSUME NEW w \in Worker, Publish(w)
      PROVE  TypeOK'
  <2>1. [worker[w] EXCEPT !.at = "fanout", !.todo = IF closed THEN {} ELSE subscribed] \in Job
    BY <1>0, <1>3, JobTyped
  <2>2. worker' \in [Worker -> Job]
    BY <1>0, <1>3, <2>1 DEF Publish
  <2> QED
    BY <1>3, <2>2 DEF Publish, Job
<1>4. ASSUME NEW w \in Worker, Published(w)
      PROVE  TypeOK'
  <2>1. worker' \in [Worker -> Job]
    BY <1>0, <1>4, JobTyped DEF Published
  <2> QED
    BY <1>4, <2>1 DEF Published, Job
<1>5. ASSUME NEW w \in Worker, NEW c \in Client, Send(w, c)
      PROVE  TypeOK'
  <2>1. worker[w].event \in 0..MaxEvents /\ worker[w].todo \ {c} \in SUBSET Client
    BY <1>0 DEF Job
  <2>2. [worker[w] EXCEPT !.todo = worker[w].todo \ {c}] \in Job
    BY <1>0, <2>1, JobTyped
  <2>3. worker' \in [Worker -> Job]
    BY <1>0, <1>5, <2>2 DEF Send
  <2>6. Len(buffer[c]) < Capacity =>
          /\ Append(buffer[c], worker[w].event) \in Seq(0..MaxEvents)
          /\ Len(Append(buffer[c], worker[w].event)) <= Capacity
    BY <2>1, BufferTyped
  <2>4. buffer' \in [Client -> Seq(0..MaxEvents)] /\ \A d \in Client : Len(buffer'[d]) <= Capacity
    BY <1>5, <2>6 DEF Send
  <2>5. fault' \in BOOLEAN
    BY <1>5, Zenon DEF Send
  <2> QED
    BY <1>5, <2>3, <2>4, <2>5 DEF Send, Job
<1>6. ASSUME NEW c \in Client, Connect(c) \/ Disconnect(c) \/ StreamEnds(c)
      PROVE  TypeOK'
  BY <1>6 DEF Connect, Disconnect, StreamEnds, Leave
<1>7. ASSUME NEW c \in Client, Subscribe(c)
      PROVE  TypeOK'
  BY <1>7 DEF Subscribe
<1>8. ASSUME NEW c \in Client, Receive(c)
      PROVE  TypeOK'
  <2>1. /\ Tail(buffer[c]) \in Seq(0..MaxEvents)
        /\ Len(Tail(buffer[c])) <= Capacity
        /\ Head(buffer[c]) \in 0..MaxEvents
    BY <1>8, BufferTyped DEF Receive
  <2>2. shown' \in [Client -> 0..MaxEvents]
    BY <1>8, <2>1 DEF Receive
  <2>3. buffer' \in [Client -> Seq(0..MaxEvents)] /\ \A d \in Client : Len(buffer'[d]) <= Capacity
    BY <1>8, <2>1 DEF Receive
  <2> QED
    BY <1>8, <2>2, <2>3 DEF Receive
<1>9. ASSUME NEW c \in Client, Unsubscribe(c)
      PROVE  TypeOK'
  <2>1. fault' \in BOOLEAN
    BY <1>9, Zenon DEF Unsubscribe
  <2> QED
    BY <1>9, <2>1 DEF Unsubscribe
<1>10. CASE CloseBegins
  BY <1>10 DEF CloseBegins
<1>11. CASE Close
  <2>1. fault' \in BOOLEAN
    BY <1>11, Zenon DEF Close
  <2> QED
    BY <1>11, <2>1 DEF Close
<1>12. CASE UNCHANGED vars
  BY <1>12 DEF vars
<1> QED
  BY <1>1, <1>2, <1>3, <1>4, <1>5, <1>6, <1>7, <1>8, <1>9, <1>10, <1>11, <1>12
     DEF Next, WorkerStep, ClientStep

\* The map of channels changes only when no publisher goes through it.
LEMMA NextLockInv == WInv /\ [Next]_vars => LockInv'
<1> SUFFICES ASSUME WInv, [Next]_vars
             PROVE  LockInv'
  OBVIOUS
<1> USE HubAssumption DEF WInv, TypeOK, LockInv, hubVars, clientVars, Lock, Unlock, Locked
<1>1. ASSUME NEW w \in Worker, SaveStatus(w) \/ ReportProgress(w)
      PROVE  LockInv'
  <2>1. UNCHANGED <<subscribed, chan, readers, fault>>
    BY <1>1 DEF SaveStatus, ReportProgress
  <2>2. worker'[w].at = "publish" /\ \A v \in Worker \ {w} : worker'[v] = worker[v]
    <3>1. CASE SaveStatus(w)
      BY <3>1 DEF SaveStatus
    <3>2. CASE ReportProgress(w)
      BY <3>2 DEF ReportProgress
    <3> QED
      BY <1>1, <3>1, <3>2
  <2>3. UNCHANGED closed
    BY <1>1 DEF SaveStatus, ReportProgress
  <2> QED
    BY <2>1, <2>2, <2>3
<1>2. ASSUME NEW w \in Worker, Publish(w)
      PROVE  LockInv'
  BY <1>2 DEF Publish
<1>3. ASSUME NEW w \in Worker, Published(w)
      PROVE  LockInv'
  BY <1>3 DEF Published, Resting
<1>4. ASSUME NEW w \in Worker, NEW c \in Client, Send(w, c)
      PROVE  LockInv'
  <2>1. c \in subscribed /\ chan[c] = "open"
    BY <1>4 DEF Send
  <2>2. ~fault'
    BY <1>4, <2>1 DEF Send
  <2> QED
    BY <1>4, <2>2 DEF Send
<1>5. ASSUME NEW c \in Client, Connect(c) \/ Disconnect(c) \/ StreamEnds(c) \/ Receive(c)
      PROVE  LockInv'
  BY <1>5 DEF Connect, Disconnect, StreamEnds, Leave, Receive
<1>6. ASSUME NEW c \in Client, Subscribe(c)
      PROVE  LockInv'
  <2>1. UNCHANGED <<worker, readers, fault, closed>> /\ subscribed \subseteq subscribed'
    BY <1>6 DEF Subscribe
  <2>2. ASSUME NEW d \in subscribed'
        PROVE  chan'[d] = "open"
    <3>1. CASE closed
      BY <1>6, <2>2, <3>1 DEF Subscribe
    <3>2. CASE ~closed
      BY <1>6, <2>2, <3>2 DEF Subscribe
    <3> QED
      BY <3>1, <3>2
  <2>3. closed => subscribed' = subscribed
    BY <1>6 DEF Subscribe
  <2> QED
    BY <2>1, <2>2, <2>3
<1>7. ASSUME NEW c \in Client, Unsubscribe(c)
      PROVE  LockInv'
  <2>1. ~fault'
    BY <1>7 DEF Unsubscribe
  <2> QED
    BY <1>7, <2>1 DEF Unsubscribe
<1>8. CASE CloseBegins
  BY <1>8 DEF CloseBegins
<1>9. CASE Close
  <2>1. ~fault'
    BY <1>9 DEF Close
  <2> QED
    BY <1>9, <2>1 DEF Close
<1>10. CASE UNCHANGED vars
  BY <1>10 DEF vars
<1> QED
  BY <1>1, <1>2, <1>3, <1>4, <1>5, <1>6, <1>7, <1>8, <1>9, <1>10 DEF Next, WorkerStep, ClientStep

LEMMA HubInvariance == Spec => []WInv
<1>1. WInv /\ [Next]_vars => WInv'
  BY NextTypeOK, NextLockInv DEF WInv
<1> QED
  BY <1>1, InitWInv, PTL DEF Spec

\* Every variable of the hub keeps its type, and a channel its capacity.
THEOREM HubTypeCorrect == Spec => []TypeOK
<1>1. WInv => TypeOK
  BY DEF WInv
<1> QED
  BY <1>1, HubInvariance, PTL

\* No channel is sent to after it was closed or closed twice, however
\* publications, departures and the close meet (master_data_event_hub.go).
THEOREM HubNeverPanics == Spec => []NeverPanics
<1>1. WInv => NeverPanics
  BY DEF WInv, LockInv, NeverPanics
<1> QED
  BY <1>1, HubInvariance, PTL

-----------------------------------------------------------------------------
(* StatusesInOrder.  statusMu is held from the save of a status to the end   *)
(* of its publication, so the status being published is the last one saved,  *)
(* and it is behind nothing newer in any channel.                            *)

\* The statuses of a channel are in order, between those shown and saved.
Ordered(s, low, high) ==
  /\ low <= high
  /\ \A i \in 1..Len(s) : s[i] # 0 => low <= s[i] /\ s[i] <= high
  /\ \A i, j \in 1..Len(s) : i < j /\ s[i] # 0 /\ s[j] # 0 => s[i] <= s[j]

OrderInv ==
  /\ \A c \in Client : Ordered(buffer[c], shown[c], saved)
  /\ \A w \in Worker : worker[w].at # "rest" /\ worker[w].event # 0 =>
       worker[w].event = saved /\ statusMu = w

\* A newer status behind the others, and the removal of the first.
LEMMA OrderedSteps ==
  ASSUME NEW s \in Seq(0..MaxEvents), NEW low \in Nat, NEW high \in Nat, Ordered(s, low, high)
  PROVE  /\ Ordered(Append(s, high), low, high)
         /\ Ordered(Append(s, 0), low, high)
         /\ Ordered(s, low, high + 1)
         /\ s # <<>> /\ Head(s) = 0 => Ordered(Tail(s), low, high)
         /\ s # <<>> /\ Head(s) # 0 => low <= Head(s) /\ Ordered(Tail(s), Head(s), high)
<1>0. \A i \in 1..Len(s) : s[i] \in Nat
  BY HubAssumption
<1>1. ASSUME NEW n \in Nat, n = high \/ n = 0
      PROVE  Ordered(Append(s, n), low, high)
  <2> DEFINE t == Append(s, n)
  <2>1. Len(t) = Len(s) + 1 /\ t[Len(s) + 1] = n /\ \A i \in 1..Len(s) : t[i] = s[i]
    OBVIOUS
  <2> HIDE DEF t
  <2>2. \A i \in 1..Len(t) : i \in 1..Len(s) \/ i = Len(s) + 1
    BY <2>1
  <2>3. \A i \in 1..Len(t) : t[i] # 0 => low <= t[i] /\ t[i] <= high
    BY <1>0, <1>1, <2>1, <2>2 DEF Ordered
  <2>4. \A i, j \in 1..Len(t) : i < j /\ t[i] # 0 /\ t[j] # 0 => t[i] <= t[j]
    BY <1>0, <1>1, <2>1, <2>2 DEF Ordered
  <2> QED
    BY <2>3, <2>4 DEF Ordered, t
<1>2. Ordered(s, low, high + 1)
  BY <1>0 DEF Ordered
<1>3. ASSUME s # <<>>
      PROVE  /\ Head(s) = s[1] /\ 1 \in 1..Len(s)
             /\ Len(Tail(s)) = Len(s) - 1
             /\ \A i \in 1..Len(Tail(s)) : Tail(s)[i] = s[i + 1] /\ i + 1 \in 1..Len(s)
  BY <1>3
<1>4. ASSUME s # <<>>, Head(s) = 0
      PROVE  Ordered(Tail(s), low, high)
  BY <1>0, <1>3, <1>4 DEF Ordered
<1>5. ASSUME s # <<>>, Head(s) # 0
      PROVE  low <= Head(s) /\ Ordered(Tail(s), Head(s), high)
  BY <1>0, <1>3, <1>5 DEF Ordered
<1> QED
  BY <1>1, <1>2, <1>4, <1>5

LEMMA NextOrderInv == WInv /\ OrderInv /\ [Next]_vars => OrderInv'
<1> SUFFICES ASSUME WInv, OrderInv, [Next]_vars
             PROVE  OrderInv'
  OBVIOUS
<1> USE HubAssumption DEF WInv, TypeOK, OrderInv, hubVars, clientVars
<1>0. \A w \in Worker : worker[w].event \in 0..MaxEvents
  OBVIOUS
<1>1. ASSUME NEW w \in Worker, SaveStatus(w)
      PROVE  OrderInv'
  <2>1. \A c \in Client : Ordered(buffer[c], shown[c], saved + 1)
    BY OrderedSteps
  <2>2. \A v \in Worker : worker[v].at # "rest" => worker[v].event = 0
    BY <1>1 DEF SaveStatus
  <2>3. /\ worker'[w].event = saved'
        /\ \A v \in Worker \ {w} : worker'[v] = worker[v]
    BY <1>1 DEF SaveStatus
  <2> QED
    BY <1>1, <2>1, <2>2, <2>3 DEF SaveStatus
<1>2. ASSUME NEW w \in Worker, ReportProgress(w)
      PROVE  OrderInv'
  <2>1. worker'[w].event = 0 /\ \A v \in Worker \ {w} : worker'[v] = worker[v]
    BY <1>2 DEF ReportProgress
  <2> QED
    BY <1>2, <2>1 DEF ReportProgress
<1>3. ASSUME NEW w \in Worker, Publish(w)
      PROVE  OrderInv'
  <2>1. \A v \in Worker : worker'[v].event = worker[v].event /\ (worker'[v].at # "rest" => worker[v].at # "rest")
    BY <1>3 DEF Publish
  <2> QED
    BY <1>3, <2>1 DEF Publish
<1>4. ASSUME NEW w \in Worker, Published(w)
      PROVE  OrderInv'
  <2>1. worker'[w].at = "rest" /\ \A v \in Worker \ {w} : worker'[v] = worker[v]
    BY <1>4 DEF Published, Resting
  <2> QED
    BY <1>4, <2>1 DEF Published
<1>5. ASSUME NEW w \in Worker, NEW c \in Client, Send(w, c)
      PROVE  OrderInv'
  <2>1. \A v \in Worker : worker'[v].event = worker[v].event /\ worker'[v].at = worker[v].at
    BY <1>5 DEF Send
  <2>2. worker[w].event = 0 \/ worker[w].event = saved
    BY <1>5 DEF Send
  <2>3. Ordered(Append(buffer[c], worker[w].event), shown[c], saved)
    BY <2>2, OrderedSteps
  <2>4. \A d \in Client : Ordered(buffer'[d], shown[d], saved)
    BY <1>5, <2>3 DEF Send
  <2> QED
    BY <1>5, <2>1, <2>4 DEF Send
<1>6. ASSUME NEW c \in Client, Receive(c)
      PROVE  OrderInv'
  <2>1. Ordered(buffer'[c], shown'[c], saved)
    <3>1. buffer[c] \in Seq(0..MaxEvents) /\ shown[c] \in Nat /\ saved \in Nat
          /\ Ordered(buffer[c], shown[c], saved) /\ buffer[c] # <<>>
      BY <1>6 DEF Receive
    <3>2. /\ buffer'[c] = Tail(buffer[c])
          /\ shown'[c] = IF Head(buffer[c]) = 0 THEN shown[c] ELSE Head(buffer[c])
      BY <1>6 DEF Receive
    <3> QED
      BY <3>1, <3>2, OrderedSteps
  <2> QED
    BY <1>6, <2>1 DEF Receive
<1>7. CASE UNCHANGED <<saved, statusMu, worker, buffer, shown>>
  BY <1>7
<1> QED
  BY <1>1, <1>2, <1>3, <1>4, <1>5, <1>6, <1>7
     DEF Next, WorkerStep, ClientStep, Connect, Disconnect, StreamEnds, Leave, Subscribe,
         Unsubscribe, CloseBegins, Close, vars

\* No client is shown a status older than one it was shown before, however
\* slowly it reads (saveStatus publishes under statusMu).
THEOREM HubKeepsOrder == Spec => StatusesInOrder
<1>1. Init => OrderInv
  BY HubAssumption DEF Init, OrderInv, Ordered, Resting
<1>2. WInv /\ OrderInv /\ [Next]_vars => OrderInv'
  BY NextOrderInv
<1>3. ASSUME WInv, OrderInv, [Next]_vars
      PROVE  [\A c \in Client : shown'[c] >= shown[c]]_vars
  <2>1. ASSUME NEW c \in Client, Receive(c), NEW d \in Client
        PROVE  shown'[d] >= shown[d]
    <3>1. buffer[c] \in Seq(0..MaxEvents) /\ shown[c] \in Nat /\ saved \in Nat
          /\ Ordered(buffer[c], shown[c], saved) /\ buffer[c] # <<>>
      BY <1>3, <2>1, HubAssumption DEF Receive, WInv, TypeOK, OrderInv
    <3>2. Head(buffer[c]) # 0 => shown[c] <= Head(buffer[c])
      BY <3>1, OrderedSteps
    <3>3. Head(buffer[c]) \in Nat
      BY <3>1, HubAssumption
    <3> QED
      BY <1>3, <2>1, <3>2, <3>3, HubAssumption DEF Receive, WInv, TypeOK
  <2>2. CASE UNCHANGED shown
    BY <1>3, <2>2, HubAssumption DEF WInv, TypeOK
  <2> QED
    BY <1>3, <2>1, <2>2
       DEF Next, WorkerStep, ClientStep, SaveStatus, ReportProgress, Publish, Published, Send,
           Connect, Disconnect, StreamEnds, Leave, Subscribe, Unsubscribe, CloseBegins, Close,
           clientVars, vars
<1> QED
  BY <1>1, <1>2, <1>3, HubInvariance, PTL DEF Spec, StatusesInOrder

=============================================================================
