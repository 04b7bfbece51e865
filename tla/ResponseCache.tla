---------------------------- MODULE ResponseCache ----------------------------
(***************************************************************************)
(* The response cache of one region and one request URL                    *)
(* (internal/transport/http/responsecache/middleware.go), over a region    *)
(* that keeps the promise of PublishedRegion.                              *)
(*                                                                         *)
(* The key of an entry is the region's revision, the commit and update     *)
(* time of its latest success row: here, the number of success rows        *)
(* written so far.  A handler reads its entities one after another, each   *)
(* in a snapshot of its own, so its answer can be a mix when a sync runs.  *)
(***************************************************************************)
EXTENDS Naturals

CONSTANTS
  Client,     \* requests, in any of the serving processes
  Entity,     \* entities the handler reads
  Value,      \* what the store can hold of one
  FirstValue, \* what it holds before the first sync
  Unread,     \* the handler has not read this entity yet
  NoEntry,    \* nothing cached
  Nobody,     \* no request runs the handler for this key
  MaxRev      \* bound: success rows written

ASSUME CacheAssumption ==
  /\ FirstValue \in Value /\ Unread \notin Value
  /\ Nobody \notin Client /\ MaxRev \in Nat
  /\ NoEntry \notin [Entity -> Value \cup {Unread}]

Revision == 0..MaxRev
Body == [Entity -> Value]
Empty == [e \in Entity |-> FirstValue]

VARIABLES
  serving,    \* the region's latest status is a success
  records,    \* what is stored
  rev,        \* its revision, when serving
  entries,    \* the cache: revision -> body
  flight,     \* singleflight: the request that fills a revision
  pc,         \* where each request is
  key,        \* the revision it has read
  body,       \* what its handler has read, or what it was answered
  seen        \* history: the values each entity had while the request ran

regionVars == <<serving, records, rev>>
requestVars == <<pc, key, body>>
vars == <<regionVars, entries, flight, requestVars, seen>>

Region == INSTANCE PublishedRegion WITH Records <- Body

NothingRead == [e \in Entity |-> Unread]

Init ==
  /\ Region!Init /\ rev = 0
  /\ entries = [r \in Revision |-> NoEntry]
  /\ flight = [r \in Revision |-> Nobody]
  /\ pc = [c \in Client |-> "idle"]
  /\ key = [c \in Client |-> 0]
  /\ body = [c \in Client |-> NothingRead]
  /\ seen = [c \in Client |-> [e \in Entity |-> {}]]

Waiting(c) == pc[c] \in {"get", "join", "wait", "fill", "handle"}

(***************************************************************************)
(* The sync job, in another process.                                       *)
(***************************************************************************)
Witness ==
  seen' = [c \in Client |->
             IF Waiting(c) THEN [e \in Entity |-> seen[c][e] \cup {records'[e]}]
                           ELSE seen[c]]

Withdraw ==
  /\ serving /\ Region!Withdraw
  /\ UNCHANGED <<rev, entries, flight, requestVars, seen>>

Change ==
  /\ Region!Change
  /\ Witness
  /\ UNCHANGED <<rev, entries, flight, requestVars>>

\* Mutant: the revision is the commit alone, and a forced sync of the same
\* ref may bring other records under it.
PublishSameRevision ==
  /\ Region!Publish
  /\ rev' = 1
  /\ UNCHANGED <<entries, flight, requestVars, seen>>

\* A success row, with an update time of its own: a sync has finished, or
\* has kept what is stored.
Publish ==
  /\ rev < MaxRev
  /\ Region!Publish
  /\ rev' = rev + 1
  /\ UNCHANGED <<entries, flight, requestVars, seen>>

(***************************************************************************)
(* A request of the cached route.                                          *)
(***************************************************************************)
Goto(c, step) == pc' = [pc EXCEPT ![c] = step]

\* RegionCacheRevision: the request goes by the cache when the latest status
\* is not a success.
RegionCacheRevision(c) ==
  /\ pc[c] = "idle"
  /\ Goto(c, IF serving THEN "get" ELSE "handle")
  /\ key' = [key EXCEPT ![c] = rev]
  /\ seen' = [seen EXCEPT ![c] = [e \in Entity |-> {records[e]}]]
  /\ UNCHANGED <<regionVars, entries, flight, body>>

\* The status or the cache cannot be read.
Bypass(c) ==
  /\ pc[c] \in {"idle", "get"}
  /\ Goto(c, "handle")
  /\ seen' = IF pc[c] = "idle"
             THEN [seen EXCEPT ![c] = [e \in Entity |-> {records[e]}]] ELSE seen
  /\ UNCHANGED <<regionVars, entries, flight, key, body>>

Hit(c) ==
  /\ pc[c] = "get" /\ entries[key[c]] # NoEntry
  /\ body' = [body EXCEPT ![c] = entries[key[c]]]
  /\ Goto(c, "answered")
  /\ UNCHANGED <<regionVars, entries, flight, key, seen>>

Miss(c) ==
  /\ pc[c] = "get" /\ entries[key[c]] = NoEntry
  /\ Goto(c, "join")
  /\ UNCHANGED <<regionVars, entries, flight, key, body, seen>>

\* flight.Do: the first request fills, the others wait for it.
Join(c) ==
  /\ pc[c] = "join"
  /\ IF flight[key[c]] = Nobody
     THEN Goto(c, "fill") /\ flight' = [flight EXCEPT ![key[c]] = c]
     ELSE Goto(c, "wait") /\ UNCHANGED flight
  /\ UNCHANGED <<regionVars, entries, key, body, seen>>

Read(c, e) ==
  /\ pc[c] \in {"fill", "handle"} /\ body[c][e] = Unread
  /\ body' = [body EXCEPT ![c][e] = records[e]]
  /\ UNCHANGED <<regionVars, entries, flight, pc, key, seen>>

HasRead(c) == \A e \in Entity : body[c][e] # Unread

\* A handler that goes by the cache, or follows a fill without a result.
Answer(c) ==
  /\ pc[c] = "handle"
  /\ \/ HasRead(c) /\ Goto(c, "answered")
     \/ Goto(c, "failed")
  /\ UNCHANGED <<regionVars, entries, flight, key, body, seen>>

\* fill: a 200 small enough to keep; the answer has been sent.
AnswerAndRecord(c) ==
  /\ pc[c] = "fill" /\ HasRead(c)
  /\ Goto(c, "set")
  /\ UNCHANGED <<regionVars, entries, flight, key, body, seen>>

Followers(c) == {d \in Client : pc[d] = "wait" /\ key[d] = key[c]}

Land(c) == flight' = [flight EXCEPT ![key[c]] = Nobody]

\* Mutant: the others go on waiting for a result.
AnswerUnrecordedAlone(c) ==
  /\ pc[c] = "fill"
  /\ \E step \in {"answered", "failed"} :
       /\ step = "answered" => HasRead(c)
       /\ Goto(c, step)
  /\ Land(c)
  /\ UNCHANGED <<regionVars, entries, key, body, seen>>

\* fill: an error, or a response that is too large.  There is no result, and
\* each of the others runs the handler itself.
AnswerUnrecorded(c) ==
  /\ pc[c] = "fill"
  /\ \E step \in {"answered", "failed"} :
       /\ step = "answered" => HasRead(c)
       /\ pc' = [d \in Client |-> IF d = c THEN step
                                  ELSE IF d \in Followers(c) THEN "handle"
                                  ELSE pc[d]]
  /\ Land(c)
  /\ UNCHANGED <<regionVars, entries, key, body, seen>>

\* Store.Set, unless the response changes too soon to be kept or the cache
\* cannot be written; then the others are answered.
Set(c) ==
  /\ pc[c] = "set"
  /\ \/ entries' = [entries EXCEPT ![key[c]] = body[c]]
     \/ UNCHANGED entries
  /\ body' = [d \in Client |-> IF d \in Followers(c) THEN body[c] ELSE body[d]]
  /\ pc' = [d \in Client |-> IF d = c \/ d \in Followers(c) THEN "answered"
                             ELSE pc[d]]
  /\ Land(c)
  /\ UNCHANGED <<regionVars, key, seen>>

\* The entry's lifetime ends, or the cache evicts it.
Expire(r) ==
  /\ entries[r] # NoEntry
  /\ entries' = [entries EXCEPT ![r] = NoEntry]
  /\ UNCHANGED <<regionVars, flight, requestVars, seen>>

Request(c) ==
  \/ Hit(c) \/ Miss(c) \/ Join(c)
  \/ \E e \in Entity : Read(c, e)
  \/ Answer(c) \/ AnswerAndRecord(c) \/ AnswerUnrecorded(c) \/ Set(c)

Next ==
  \/ Withdraw \/ Change \/ Publish
  \/ \E c \in Client : RegionCacheRevision(c) \/ Bypass(c) \/ Request(c)
  \/ \E r \in Revision : Expire(r)

Spec == Init /\ [][Next]_vars

\* A request that has begun goes on: its calls are bounded by timeouts.
FairSpec == Spec /\ \A c \in Client : WF_vars(Request(c))

-----------------------------------------------------------------------------
TypeOK ==
  /\ serving \in BOOLEAN /\ records \in Body /\ rev \in Revision
  /\ entries \in [Revision -> Body \cup {NoEntry}]
  /\ flight \in [Revision -> Client \cup {Nobody}]
  /\ pc \in [Client -> {"idle", "get", "join", "wait", "fill", "set", "handle",
                        "answered", "failed"}]
  /\ key \in [Client -> Revision]
  /\ body \in [Client -> [Entity -> Value \cup {Unread}]]
  /\ seen \in [Client -> [Entity -> SUBSET Value]]

\* The cache never makes an answer staler than the request: each entity in
\* it, whoever read it and when, is as it was stored at some instant between
\* the request's arrival and its answer.
AnswersAreCurrent ==
  \A c \in Client : pc[c] \in {"answered", "set"} =>
    \A e \in Entity : body[c][e] \in seen[c][e]

\* Whatever becomes of the request that fills an entry, those that wait for
\* it are answered.
EveryoneIsAnswered ==
  \A c \in Client : Waiting(c) ~> ~Waiting(c)

=============================================================================
