------------------------------ MODULE EventHub ------------------------------
(***************************************************************************)
(* The admin event stream: sync jobs publish, the hub fans out to buffered *)
(* channels, an SSE handler per client drains one                          *)
(* (internal/usecase/master_data_event_hub.go, saveStatus and              *)
(* publishSyncEvent of the sync usecase, master_data_event_handler.go).    *)
(*                                                                         *)
(* The hub's RWMutex: a publisher holds it for reading during its whole    *)
(* fan-out; Subscribe, unsubscribe and Close take it for writing, and a    *)
(* writer that waits keeps new readers out.                                *)
(***************************************************************************)
EXTENDS Naturals, Sequences

CONSTANTS
  Worker,      \* region workers that save statuses and publish
  Client,      \* SSE clients
  Hub,         \* the goroutine that closes the hub at shutdown
  Nobody,      \* statusMu is free
  Capacity,    \* of a subscriber's channel
  MaxEvents    \* bound: events published

ASSUME HubAssumption ==
  /\ Hub \notin Client /\ Nobody \notin Worker
  /\ Capacity \in Nat \ {0} /\ MaxEvents \in Nat

VARIABLES
  saved,       \* status rows saved so far; the n-th save is event n
  progress,    \* progress events published so far (all alike: event 0)
  statusMu,    \* the worker that holds the lock around save and publish
  worker,      \* per worker: where it is, its event, the channels left
  readers,     \* workers that hold hub.mu for reading
  writers,     \* those that wait for hub.mu for writing
  closed,      \* the hub is closed
  subscribed,  \* clients whose channel is in the hub's map
  chan,        \* per client: its channel, none, open or closed
  buffer,      \* what is in it
  client,      \* where its SSE handler is
  shown,       \* the last status the client was sent
  fault        \* a send on, or a second close of, a closed channel: a panic

hubVars == <<readers, writers, closed, subscribed, chan, buffer>>
clientVars == <<client, shown>>
vars == <<saved, progress, statusMu, worker, hubVars, clientVars, fault>>

Resting == [at |-> "rest", event |-> 0, todo |-> {}]

Init ==
  /\ saved = 0 /\ progress = 0 /\ statusMu = Nobody
  /\ worker = [w \in Worker |-> Resting]
  /\ readers = {} /\ writers = {} /\ closed = FALSE
  /\ subscribed = {}
  /\ chan = [c \in Client |-> "none"]
  /\ buffer = [c \in Client |-> <<>>]
  /\ client = [c \in Client |-> "new"]
  /\ shown = [c \in Client |-> 0]
  /\ fault = FALSE

(***************************************************************************)
(* Publishers.                                                             *)
(***************************************************************************)
\* Mutant: the lock covers the save, not the publication.
SaveStatusAndUnlock(w) ==
  /\ worker[w].at = "rest" /\ statusMu = Nobody /\ saved < MaxEvents
  /\ saved' = saved + 1
  /\ worker' = [worker EXCEPT ![w] = [@ EXCEPT !.at = "publish", !.event = saved + 1]]
  /\ UNCHANGED <<progress, statusMu, hubVars, clientVars, fault>>

\* saveStatus: the row is saved and its event published under statusMu.
SaveStatus(w) ==
  /\ worker[w].at = "rest" /\ statusMu = Nobody /\ saved < MaxEvents
  /\ saved' = saved + 1
  /\ statusMu' = w
  /\ worker' = [worker EXCEPT ![w] = [@ EXCEPT !.at = "publish", !.event = saved + 1]]
  /\ UNCHANGED <<progress, hubVars, clientVars, fault>>

\* A progress, failure or job event, outside statusMu.
ReportProgress(w) ==
  /\ worker[w].at = "rest" /\ progress < MaxEvents
  /\ progress' = progress + 1
  /\ worker' = [worker EXCEPT ![w] = [@ EXCEPT !.at = "publish", !.event = 0]]
  /\ UNCHANGED <<saved, statusMu, hubVars, clientVars, fault>>

Publish(w) ==
  /\ worker[w].at = "publish"
  /\ writers = {}
  /\ readers' = readers \cup {w}
  /\ worker' = [worker EXCEPT ![w].at = "fanout",
                              ![w].todo = IF closed THEN {} ELSE subscribed]
  /\ UNCHANGED <<saved, progress, statusMu, writers, closed, subscribed, chan,
                 buffer, clientVars, fault>>

\* Mutant: a full channel is waited for.
SendWaiting(w, c) ==
  /\ worker[w].at = "fanout" /\ c \in worker[w].todo
  /\ Len(buffer[c]) < Capacity
  /\ buffer' = [buffer EXCEPT ![c] = Append(@, worker[w].event)]
  /\ fault' = (fault \/ chan[c] = "closed")
  /\ worker' = [worker EXCEPT ![w].todo = @ \ {c}]
  /\ UNCHANGED <<saved, progress, statusMu, readers, writers, closed, subscribed,
                 chan, clientVars>>

\* Mutant: the channel has no bound.
SendUnbounded(w, c) ==
  /\ worker[w].at = "fanout" /\ c \in worker[w].todo
  /\ buffer' = [buffer EXCEPT ![c] = Append(@, worker[w].event)]
  /\ fault' = (fault \/ chan[c] = "closed")
  /\ worker' = [worker EXCEPT ![w].todo = @ \ {c}]
  /\ UNCHANGED <<saved, progress, statusMu, readers, writers, closed, subscribed,
                 chan, clientVars>>

\* One subscriber after another, in any order; a full channel misses the event.
Send(w, c) ==
  /\ worker[w].at = "fanout" /\ c \in worker[w].todo
  /\ buffer' = IF Len(buffer[c]) < Capacity
               THEN [buffer EXCEPT ![c] = Append(@, worker[w].event)] ELSE buffer
  /\ fault' = (fault \/ chan[c] = "closed")
  /\ worker' = [worker EXCEPT ![w].todo = @ \ {c}]
  /\ UNCHANGED <<saved, progress, statusMu, readers, writers, closed, subscribed,
                 chan, clientVars>>

Published(w) ==
  /\ worker[w].at = "fanout" /\ worker[w].todo = {}
  /\ readers' = readers \ {w}
  /\ worker' = [worker EXCEPT ![w] = Resting]
  /\ statusMu' = IF statusMu = w THEN Nobody ELSE statusMu
  /\ UNCHANGED <<saved, progress, writers, closed, subscribed, chan, buffer,
                 clientVars, fault>>

(***************************************************************************)
(* Writers: each announces itself, then waits for the readers to leave.    *)
(***************************************************************************)
\* Mutant: the lock is not waited for.
LockedAtOnce(x) == x \in writers

Locked(x) == x \in writers /\ readers = {}

Lock(x) == writers' = writers \cup {x}
Unlock(x) == writers' = writers \ {x}

\* An SSE request arrives and calls Subscribe.
Connect(c) ==
  /\ client[c] = "new"
  /\ client' = [client EXCEPT ![c] = "subscribing"]
  /\ Lock(c)
  /\ UNCHANGED <<saved, progress, statusMu, worker, readers, closed, subscribed,
                 chan, buffer, shown, fault>>

\* Mutant: whether the hub is closed is not looked at.
SubscribeToClosed(c) ==
  /\ client[c] = "subscribing" /\ Locked(c) /\ Unlock(c)
  /\ client' = [client EXCEPT ![c] = "streaming"]
  /\ chan' = [chan EXCEPT ![c] = "open"]
  /\ subscribed' = subscribed \cup {c}
  /\ UNCHANGED <<saved, progress, statusMu, worker, readers, closed, buffer, shown, fault>>

\* A closed hub hands out a channel that is closed already.
Subscribe(c) ==
  /\ client[c] = "subscribing" /\ Locked(c) /\ Unlock(c)
  /\ client' = [client EXCEPT ![c] = "streaming"]
  /\ chan' = [chan EXCEPT ![c] = IF closed THEN "closed" ELSE "open"]
  /\ subscribed' = IF closed THEN subscribed ELSE subscribed \cup {c}
  /\ UNCHANGED <<saved, progress, statusMu, worker, readers, closed, buffer, shown, fault>>

\* The stream loop takes an event, and shows statuses to the client.
Receive(c) ==
  /\ client[c] = "streaming" /\ buffer[c] # <<>>
  /\ shown' = [shown EXCEPT ![c] = IF Head(buffer[c]) = 0 THEN @ ELSE Head(buffer[c])]
  /\ buffer' = [buffer EXCEPT ![c] = Tail(@)]
  /\ UNCHANGED <<saved, progress, statusMu, worker, readers, writers, closed,
                 subscribed, chan, client, fault>>

Leave(c) ==
  /\ client' = [client EXCEPT ![c] = "leaving"]
  /\ Lock(c)
  /\ UNCHANGED <<saved, progress, statusMu, worker, readers, closed, subscribed,
                 chan, buffer, shown, fault>>

\* The client is gone.
Disconnect(c) == client[c] = "streaming" /\ Leave(c)

\* The channel is closed and drained.
StreamEnds(c) ==
  client[c] = "streaming" /\ buffer[c] = <<>> /\ chan[c] = "closed" /\ Leave(c)

Unsubscribe(c) ==
  /\ client[c] = "leaving" /\ Locked(c) /\ Unlock(c)
  /\ client' = [client EXCEPT ![c] = "gone"]
  /\ IF c \in subscribed
     THEN /\ fault' = (fault \/ chan[c] = "closed")
          /\ chan' = [chan EXCEPT ![c] = "closed"]
     ELSE UNCHANGED <<chan, fault>>
  /\ subscribed' = subscribed \ {c}
  /\ UNCHANGED <<saved, progress, statusMu, worker, readers, closed, buffer, shown>>

\* Close, once: by the shutdown callback or at the end of the worker drain.
CloseBegins ==
  /\ ~closed /\ Hub \notin writers
  /\ Lock(Hub)
  /\ UNCHANGED <<saved, progress, statusMu, worker, readers, closed, subscribed,
                 chan, buffer, clientVars, fault>>

Close ==
  /\ Locked(Hub) /\ Unlock(Hub)
  /\ closed' = TRUE
  /\ fault' = (fault \/ \E c \in subscribed : chan[c] = "closed")
  /\ chan' = [c \in Client |-> IF c \in subscribed THEN "closed" ELSE chan[c]]
  /\ subscribed' = {}
  /\ UNCHANGED <<saved, progress, statusMu, worker, readers, buffer, clientVars>>

WorkerStep(w) == Publish(w) \/ Published(w) \/ \E c \in Client : Send(w, c)

ClientStep(c) == Subscribe(c) \/ Receive(c) \/ StreamEnds(c) \/ Unsubscribe(c)

Next ==
  \/ \E w \in Worker : SaveStatus(w) \/ ReportProgress(w) \/ WorkerStep(w)
  \/ \E c \in Client : Connect(c) \/ Disconnect(c) \/ ClientStep(c)
  \/ CloseBegins \/ Close

Spec == Init /\ [][Next]_vars

\* A goroutine that can go on does; nothing makes a worker publish, a client
\* come or leave, or the hub close.
Fairness ==
  /\ \A w \in Worker : WF_vars(WorkerStep(w))
  /\ \A c \in Client : WF_vars(ClientStep(c))
  /\ WF_vars(Close)

FairSpec == Spec /\ Fairness

-----------------------------------------------------------------------------
Place == {"rest", "publish", "fanout"}

TypeOK ==
  /\ saved \in 0..MaxEvents /\ progress \in 0..MaxEvents
  /\ statusMu \in Worker \cup {Nobody}
  /\ worker \in [Worker -> [at: Place, event: 0..MaxEvents, todo: SUBSET Client]]
  /\ readers \subseteq Worker /\ writers \subseteq Client \cup {Hub}
  /\ closed \in BOOLEAN /\ subscribed \subseteq Client
  /\ chan \in [Client -> {"none", "open", "closed"}]
  /\ buffer \in [Client -> Seq(0..MaxEvents)]
  /\ \A c \in Client : Len(buffer[c]) <= Capacity
  /\ client \in [Client -> {"new", "subscribing", "streaming", "leaving", "gone"}]
  /\ shown \in [Client -> 0..MaxEvents]
  /\ fault \in BOOLEAN

\* However publications, subscriptions, departures and the shutdown are
\* interleaved, no channel is sent to after it was closed, nor closed twice.
NeverPanics == ~fault

\* A client that misses events for being slow still never sees a status that
\* is older than one it was shown: the stream has the order of the saves.
StatusesInOrder ==
  [][\A c \in Client : shown'[c] >= shown[c]]_vars

\* A client that does not read, or that is leaving, never holds up the sync:
\* every publication returns.
PublishReturns ==
  \A w \in Worker : (worker[w].at # "rest") ~> (worker[w].at = "rest")

\* Once the hub is to be closed every stream ends, that of a client which
\* subscribes meanwhile included: no SSE request outlives the shutdown.
StreamsEnd ==
  \A c \in Client :
    (client[c] \in {"subscribing", "streaming"} /\ (closed \/ Hub \in writers))
      ~> (client[c] = "gone")

=============================================================================
