------------------------- MODULE ResponseCacheProofs -------------------------
(***************************************************************************)
(* An answer from the cache is as current as one the handler reads itself, *)
(* for any number of requests, entities, values and revisions.             *)
(*                                                                         *)
(* Two requests that have read the same revision have read it while it was *)
(* served, when the store held the same records.  Whatever one of them     *)
(* reads later, the other would have met too: it is still waiting.  So     *)
(* what is read or stored under a revision is in the history of every      *)
(* request that waits under it (Shared), which in turn needs that nothing  *)
(* but the served records has been read under the revision being served    *)
(* (Served).                                                               *)
(***************************************************************************)
EXTENDS ResponseCache, TLAPS

\* The request goes by the cache, and its key was read from a served region.
ByCache(c) == pc[c] \in {"get", "join", "wait", "fill"}
Fills(c) == pc[c] \in {"fill", "set"}

Keys ==
  /\ \A c \in Client : key[c] <= rev
  /\ \A r \in Revision : r > rev => entries[r] = NoEntry

\* A request that has read nothing, or everything.
Progress ==
  /\ \A c \in Client : pc[c] = "set" => HasRead(c)
  /\ \A c \in Client : pc[c] \in {"idle", "get", "join", "wait"} =>
       \A e \in Entity : body[c][e] = Unread

\* What a request reads is in its history.
Witnessed ==
  \A c \in Client, e \in Entity :
    /\ Waiting(c) => records[e] \in seen[c][e]
    /\ (Waiting(c) \/ pc[c] \in {"set", "answered"}) /\ body[c][e] # Unread =>
         body[c][e] \in seen[c][e]
    /\ pc[c] = "answered" => body[c][e] # Unread

\* What is read or stored under the revision being served is what is stored.
Served ==
  serving =>
    /\ entries[rev] # NoEntry => entries[rev] = records
    /\ \A c \in Client, e \in Entity :
         Fills(c) /\ key[c] = rev /\ body[c][e] # Unread => body[c][e] = records[e]

\* What is read or stored under a revision is in the history of whoever waits
\* under it.
Shared ==
  \A c \in Client, e \in Entity : ByCache(c) =>
    /\ entries[key[c]] # NoEntry => entries[key[c]][e] \in seen[c][e]
    /\ \A d \in Client :
         Fills(d) /\ key[d] = key[c] /\ body[d][e] # Unread => body[d][e] \in seen[c][e]

IInv == TypeOK /\ Keys /\ Progress /\ Witnessed /\ Served /\ Shared

-----------------------------------------------------------------------------
LEMMA InitIInv == Init => IInv
<1> SUFFICES ASSUME Init
             PROVE  IInv
  OBVIOUS
<1> USE CacheAssumption
<1>1. TypeOK
  <2>1. Empty \in Body /\ NothingRead \in [Entity -> Value \cup {Unread}]
    BY DEF Empty, Body, NothingRead
  <2>2. 0 \in Revision
    BY DEF Revision
  <2> QED
    BY <2>1, <2>2 DEF Init, Region!Init, TypeOK
<1>2. Keys /\ Progress
  BY DEF Init, Region!Init, Keys, Progress, NothingRead, Revision
<1>3. Witnessed /\ Served /\ Shared
  BY DEF Init, Region!Init, Witnessed, Served, Shared, Waiting, ByCache, Fills
<1> QED
  BY <1>1, <1>2, <1>3 DEF IInv

\* The records stay records, and change only while the region is withdrawn.
LEMMA NextTypeOK == IInv /\ [Next]_vars => TypeOK'
<1> SUFFICES ASSUME IInv, [Next]_vars
             PROVE  TypeOK'
  OBVIOUS
<1> USE CacheAssumption DEF IInv, TypeOK, Body, Revision, regionVars, requestVars, Goto
<1>1. CASE Withdraw
  BY <1>1 DEF Withdraw, Region!Withdraw
<1>2. CASE Change
  BY <1>2 DEF Change, Region!Change, Witness
<1>3. CASE Publish
  BY <1>3 DEF Publish, Region!Publish
<1>4. ASSUME NEW c \in Client, RegionCacheRevision(c)
      PROVE  TypeOK'
  BY <1>4 DEF RegionCacheRevision
<1>5. ASSUME NEW c \in Client, Bypass(c)
      PROVE  TypeOK'
  BY <1>5 DEF Bypass
<1>6. ASSUME NEW c \in Client, Request(c)
      PROVE  TypeOK'
  <2>1. CASE Hit(c)
    BY <2>1 DEF Hit
  <2>2. CASE Miss(c)
    BY <2>2 DEF Miss
  <2>3. CASE Join(c)
    BY <2>3 DEF Join
  <2>4. ASSUME NEW e \in Entity, Read(c, e)
        PROVE  TypeOK'
    BY <2>4 DEF Read
  <2>5. CASE Answer(c)
    BY <2>5 DEF Answer
  <2>6. CASE AnswerAndRecord(c)
    BY <2>6 DEF AnswerAndRecord
  <2>7. CASE AnswerUnrecorded(c)
    BY <2>7 DEF AnswerUnrecorded, Land
  <2>8. CASE Set(c)
    <3>1. body[c] \in [Entity -> Value]
      BY <2>8 DEF Set, Progress, HasRead
    <3> QED
      BY <2>8, <3>1 DEF Set, Land
  <2> QED
    BY <1>6, <2>1, <2>2, <2>3, <2>4, <2>5, <2>6, <2>7, <2>8 DEF Request
<1>7. ASSUME NEW r \in Revision, Expire(r)
      PROVE  TypeOK'
  BY <1>7 DEF Expire
<1>8. CASE UNCHANGED vars
  BY <1>8 DEF vars
<1> QED
  BY <1>1, <1>2, <1>3, <1>4, <1>5, <1>6, <1>7, <1>8 DEF Next

-----------------------------------------------------------------------------
LEMMA NextKeys == IInv /\ [Next]_vars => Keys'
<1> SUFFICES ASSUME IInv, [Next]_vars
             PROVE  Keys'
  OBVIOUS
<1> USE CacheAssumption DEF IInv, Keys, TypeOK, Revision, regionVars, requestVars, Goto
<1>1. CASE Publish
  BY <1>1 DEF Publish, Region!Publish
<1>2. CASE UNCHANGED <<key, rev, entries>>
  BY <1>2
<1>3. ASSUME NEW c \in Client, RegionCacheRevision(c)
      PROVE  Keys'
  BY <1>3 DEF RegionCacheRevision
<1>4. ASSUME NEW c \in Client, Set(c)
      PROVE  Keys'
  BY <1>4 DEF Set
<1>5. ASSUME NEW r \in Revision, Expire(r)
      PROVE  Keys'
  BY <1>5 DEF Expire
<1> QED
  BY <1>1, <1>2, <1>3, <1>4, <1>5
     DEF Next, Withdraw, Change, Region!Withdraw, Region!Change, Bypass, Request, Hit, Miss, Join,
         Read, Answer, AnswerAndRecord, AnswerUnrecorded, vars

LEMMA NextProgress == IInv /\ [Next]_vars => Progress'
<1> SUFFICES ASSUME IInv, [Next]_vars
             PROVE  Progress'
  OBVIOUS
<1> USE CacheAssumption DEF IInv, Progress, TypeOK, regionVars, requestVars, Goto, HasRead
<1>1. CASE UNCHANGED <<pc, body>>
  BY <1>1
<1>2. ASSUME NEW c \in Client, RegionCacheRevision(c) \/ Bypass(c)
      PROVE  Progress'
  BY <1>2 DEF RegionCacheRevision, Bypass
<1>3. ASSUME NEW c \in Client, Request(c)
      PROVE  Progress'
  <2>1. CASE Hit(c)
    BY <2>1 DEF Hit
  <2>6. CASE Miss(c)
    BY <2>6 DEF Miss
  <2>7. CASE Join(c)
    BY <2>7 DEF Join
  <2>2. ASSUME NEW e \in Entity, Read(c, e)
        PROVE  Progress'
    BY <2>2 DEF Read
  <2>3. CASE Answer(c) \/ AnswerAndRecord(c)
    BY <2>3 DEF Answer, AnswerAndRecord
  <2>4. CASE AnswerUnrecorded(c)
    BY <2>4 DEF AnswerUnrecorded, Followers
  <2>5. CASE Set(c)
    BY <2>5 DEF Set, Followers
  <2> QED
    BY <1>3, <2>1, <2>2, <2>3, <2>4, <2>5, <2>6, <2>7 DEF Request
<1> QED
  BY <1>1, <1>2, <1>3
     DEF Next, Withdraw, Change, Publish, Region!Withdraw, Region!Change, Region!Publish, Expire, vars

\* The records of a served region stand still, and a new revision has no
\* reader and no entry.
LEMMA NextServed == IInv /\ [Next]_vars => Served'
<1> SUFFICES ASSUME IInv, [Next]_vars
             PROVE  Served'
  OBVIOUS
<1> USE CacheAssumption DEF IInv, Served, TypeOK, Revision, Fills, regionVars, requestVars, Goto
<1>1. CASE Withdraw
  BY <1>1 DEF Withdraw, Region!Withdraw
<1>2. CASE Change
  BY <1>2 DEF Change, Region!Change
<1>3. CASE Publish
  <2>1. rev' = rev + 1 /\ rev + 1 \in Revision /\ UNCHANGED <<entries, pc, key, body, records>>
    BY <1>3 DEF Publish, Region!Publish
  <2>2. entries[rev + 1] = NoEntry /\ \A c \in Client : key[c] # rev + 1
    BY <2>1 DEF Keys
  <2> QED
    BY <2>1, <2>2
<1>4. ASSUME NEW c \in Client, RegionCacheRevision(c)
      PROVE  Served'
  BY <1>4 DEF RegionCacheRevision
<1>8. ASSUME NEW c \in Client, Bypass(c)
      PROVE  Served'
  BY <1>8 DEF Bypass
<1>5. ASSUME NEW c \in Client, Request(c)
      PROVE  Served'
  <2>1. CASE Hit(c)
    BY <2>1 DEF Hit
  <2>2. CASE Miss(c)
    BY <2>2 DEF Miss
  <2>7. CASE Answer(c)
    BY <2>7 DEF Answer
  <2>8. CASE AnswerAndRecord(c)
    BY <2>8 DEF AnswerAndRecord
  <2>3. CASE Join(c)
    BY <2>3 DEF Join, Progress
  <2>4. ASSUME NEW e \in Entity, Read(c, e)
        PROVE  Served'
    BY <2>4 DEF Read
  <2>5. CASE AnswerUnrecorded(c)
    BY <2>5 DEF AnswerUnrecorded
  <2>6. CASE Set(c)
    <3>1. body[c] \in Body /\ records \in Body
      BY <2>6 DEF Set, Progress, HasRead, Body
    <3>2. serving /\ key[c] = rev => body[c] = records
      BY <2>6, <3>1 DEF Set, Progress, HasRead, Body
    <3> QED
      BY <2>6, <3>2 DEF Set
  <2> QED
    BY <1>5, <2>1, <2>2, <2>3, <2>4, <2>5, <2>6, <2>7, <2>8 DEF Request
<1>6. ASSUME NEW r \in Revision, Expire(r)
      PROVE  Served'
  BY <1>6 DEF Expire
<1>7. CASE UNCHANGED vars
  BY <1>7 DEF vars
<1> QED
  BY <1>1, <1>2, <1>3, <1>4, <1>5, <1>6, <1>7, <1>8 DEF Next

\* A request that waits meets every value that is stored.
LEMMA NextWitnessed == IInv /\ [Next]_vars => Witnessed'
<1> SUFFICES ASSUME IInv, [Next]_vars
             PROVE  Witnessed'
  OBVIOUS
<1> USE CacheAssumption DEF IInv, Witnessed, TypeOK, Revision, regionVars, requestVars, Goto
<1>1. CASE Withdraw \/ Publish
  BY <1>1 DEF Withdraw, Publish, Region!Withdraw, Region!Publish, Waiting
<1>2. CASE Change
  <2>1. \A c \in Client, e \in Entity :
          /\ Waiting(c) => seen'[c][e] = seen[c][e] \cup {records'[e]}
          /\ ~Waiting(c) => seen'[c][e] = seen[c][e]
    BY <1>2 DEF Change, Witness
  <2>2. UNCHANGED <<pc, body>>
    BY <1>2 DEF Change
  <2> QED
    BY <2>1, <2>2 DEF Waiting
<1>3. ASSUME NEW c \in Client, RegionCacheRevision(c)
      PROVE  Witnessed'
  BY <1>3 DEF RegionCacheRevision, Waiting, Progress
<1>4. ASSUME NEW c \in Client, Bypass(c)
      PROVE  Witnessed'
  BY <1>4 DEF Bypass, Waiting, Progress
<1>5. ASSUME NEW c \in Client, Request(c)
      PROVE  Witnessed'
  <2>1. CASE Hit(c)
    BY <2>1 DEF Hit, Shared, ByCache, Waiting, Body
  <2>2. CASE Miss(c)
    BY <2>2 DEF Miss, Waiting
  <2>3. CASE Join(c)
    BY <2>3 DEF Join, Waiting
  <2>4. ASSUME NEW e \in Entity, Read(c, e)
        PROVE  Witnessed'
    BY <2>4 DEF Read, Waiting
  <2>5. CASE Answer(c)
    BY <2>5 DEF Answer, Waiting, HasRead
  <2>6. CASE AnswerAndRecord(c)
    BY <2>6 DEF AnswerAndRecord, Waiting
  <2>7. CASE AnswerUnrecorded(c)
    BY <2>7 DEF AnswerUnrecorded, Waiting, Followers, HasRead
  <2>8. CASE Set(c)
    <3>1. \A d \in Followers(c), e \in Entity : body[c][e] # Unread /\ body[c][e] \in seen[d][e]
      BY <2>8 DEF Set, Followers, Shared, ByCache, Fills, Progress, HasRead
    <3>2. \A e \in Entity : body[c][e] # Unread /\ body[c][e] \in seen[c][e]
      BY <2>8 DEF Set, Progress, HasRead
    <3>3. UNCHANGED <<records, seen>>
      BY <2>8 DEF Set
    <3>4. \A d \in Client :
            /\ d = c \/ d \in Followers(c) => pc'[d] = "answered" /\ body'[d] = body[c]
            /\ d # c /\ d \notin Followers(c) => pc'[d] = pc[d] /\ body'[d] = body[d]
      BY <2>8 DEF Set
    <3>5. ASSUME NEW d \in Client, NEW e \in Entity, d = c \/ d \in Followers(c)
          PROVE  pc'[d] = "answered" /\ body'[d][e] # Unread /\ body'[d][e] \in seen'[d][e]
      BY <3>1, <3>2, <3>3, <3>4, <3>5
    <3>6. ASSUME NEW d \in Client, d # c, d \notin Followers(c)
          PROVE  pc'[d] = pc[d] /\ body'[d] = body[d] /\ seen'[d] = seen[d] /\ records' = records
      BY <3>3, <3>4, <3>6
    <3> QED
      BY <3>5, <3>6 DEF Waiting
  <2> QED
    BY <1>5, <2>1, <2>2, <2>3, <2>4, <2>5, <2>6, <2>7, <2>8 DEF Request
<1>6. ASSUME NEW r \in Revision, Expire(r)
      PROVE  Witnessed'
  BY <1>6 DEF Expire, Waiting
<1>7. CASE UNCHANGED vars
  BY <1>7 DEF vars, Waiting
<1> QED
  BY <1>1, <1>2, <1>3, <1>4, <1>5, <1>6, <1>7 DEF Next

\* Requests that wait under one revision meet the same values.
LEMMA NextShared == IInv /\ [Next]_vars => Shared'
<1> SUFFICES ASSUME IInv, [Next]_vars
             PROVE  Shared'
  OBVIOUS
<1> USE CacheAssumption
    DEF IInv, Shared, TypeOK, Revision, ByCache, Fills, regionVars, requestVars, Goto
<1>1. CASE Withdraw \/ Publish
  BY <1>1 DEF Withdraw, Publish, Region!Withdraw, Region!Publish
<1>2. CASE Change
  <2>1. \A c \in Client, e \in Entity : seen[c][e] \subseteq seen'[c][e]
    BY <1>2 DEF Change, Witness
  <2>2. UNCHANGED <<pc, body, key, entries>>
    BY <1>2 DEF Change
  <2> QED
    BY <2>1, <2>2
<1>3. ASSUME NEW c \in Client, RegionCacheRevision(c)
      PROVE  Shared'
  <2>1. UNCHANGED <<records, rev, entries, body, serving>>
    BY <1>3 DEF RegionCacheRevision
  <2>2. /\ pc'[c] = IF serving THEN "get" ELSE "handle"
        /\ key'[c] = rev
        /\ \A e \in Entity : seen'[c][e] = {records[e]}
        /\ \A d \in Client \ {c} : pc'[d] = pc[d] /\ key'[d] = key[d] /\ seen'[d] = seen[d]
    BY <1>3 DEF RegionCacheRevision
  <2>3. serving => \A e \in Entity :
          /\ entries[rev] # NoEntry => entries[rev][e] = records[e]
          /\ \A d \in Client : Fills(d) /\ key[d] = rev /\ body[d][e] # Unread
                              => body[d][e] = records[e]
    BY DEF Served
  <2>4. ASSUME NEW d \in Client, NEW e \in Entity, ByCache(d)'
        PROVE  /\ entries'[key'[d]] # NoEntry => entries'[key'[d]][e] \in seen'[d][e]
               /\ \A f \in Client :
                    Fills(f)' /\ key'[f] = key'[d] /\ body'[f][e] # Unread
                      => body'[f][e] \in seen'[d][e]
    <3>1. CASE d = c
      <4>1. serving /\ key'[d] = rev /\ seen'[d][e] = {records[e]}
        BY <2>2, <2>4, <3>1
      <4>2. \A f \in Client : Fills(f)' => Fills(f) /\ key'[f] = key[f]
        BY <2>2
      <4> QED
        BY <2>1, <2>3, <4>1, <4>2
    <3>2. CASE d # c
      BY <2>1, <2>2, <2>4, <3>2
    <3> QED
      BY <3>1, <3>2
  <2> QED
    BY <2>4
<1>4. ASSUME NEW c \in Client, Bypass(c)
      PROVE  Shared'
  BY <1>4 DEF Bypass
<1>5. ASSUME NEW c \in Client, Request(c)
      PROVE  Shared'
  <2>1. CASE Hit(c)
    BY <2>1 DEF Hit
  <2>2. CASE Miss(c)
    BY <2>2 DEF Miss
  <2>3. CASE Join(c)
    BY <2>3 DEF Join, Progress
  <2>4. ASSUME NEW e \in Entity, Read(c, e)
        PROVE  Shared'
    <3>1. \A d \in Client : ByCache(d) => records[e] \in seen[d][e]
      BY DEF Witnessed, Waiting
    <3>2. /\ UNCHANGED <<records, entries, pc, key, seen>>
          /\ \A d \in Client, f \in Entity :
               body'[d][f] = IF d = c /\ f = e THEN records[e] ELSE body[d][f]
      BY <2>4 DEF Read
    <3> QED
      BY <3>1, <3>2
  <2>5. CASE Answer(c)
    BY <2>5 DEF Answer
  <2>6. CASE AnswerAndRecord(c)
    BY <2>6 DEF AnswerAndRecord
  <2>7. CASE AnswerUnrecorded(c)
    BY <2>7 DEF AnswerUnrecorded
  <2>8. CASE Set(c)
    <3>1. UNCHANGED <<key, seen>>
      BY <2>8 DEF Set
    <3>2. \A d \in Client : ByCache(d)' => ByCache(d) /\ pc'[d] = pc[d]
      BY <2>8 DEF Set
    <3>3. \A d \in Client : Fills(d)' => Fills(d) /\ body'[d] = body[d]
      BY <2>8 DEF Set, Followers
    <3>4. \A r \in Revision : entries'[r] = entries[r] \/ (r = key[c] /\ entries'[r] = body[c])
      BY <2>8 DEF Set
    <3>5. Fills(c) /\ \A e \in Entity : body[c][e] # Unread
      BY <2>8 DEF Set, Progress, HasRead
    <3>6. ASSUME NEW d \in Client, NEW e \in Entity, ByCache(d)'
          PROVE  /\ entries'[key'[d]] # NoEntry => entries'[key'[d]][e] \in seen'[d][e]
                 /\ \A f \in Client :
                      Fills(f)' /\ key'[f] = key'[d] /\ body'[f][e] # Unread
                        => body'[f][e] \in seen'[d][e]
      <4>1. ByCache(d) /\ key'[d] = key[d] /\ seen'[d] = seen[d] /\ key[d] \in Revision
        BY <3>1, <3>2, <3>6
      <4>2. /\ entries[key[d]] # NoEntry => entries[key[d]][e] \in seen[d][e]
            /\ \A f \in Client :
                 Fills(f) /\ key[f] = key[d] /\ body[f][e] # Unread => body[f][e] \in seen[d][e]
        BY <4>1
      <4>3. entries'[key[d]] # NoEntry => entries'[key[d]][e] \in seen[d][e]
        <5>1. CASE entries'[key[d]] = entries[key[d]]
          BY <4>2, <5>1
        <5>2. CASE key[d] = key[c] /\ entries'[key[d]] = body[c]
          BY <3>5, <4>2, <5>2
        <5> QED
          BY <3>4, <4>1, <5>1, <5>2
      <4>4. ASSUME NEW f \in Client, Fills(f)', key'[f] = key'[d], body'[f][e] # Unread
            PROVE  body'[f][e] \in seen'[d][e]
        BY <3>1, <3>3, <4>1, <4>2, <4>4
      <4> QED
        BY <4>1, <4>3, <4>4
    <3> QED
      BY <3>6
  <2> QED
    BY <1>5, <2>1, <2>2, <2>3, <2>4, <2>5, <2>6, <2>7, <2>8 DEF Request
<1>6. ASSUME NEW r \in Revision, Expire(r)
      PROVE  Shared'
  BY <1>6 DEF Expire
<1>7. CASE UNCHANGED vars
  BY <1>7 DEF vars
<1> QED
  BY <1>1, <1>2, <1>3, <1>4, <1>5, <1>6, <1>7 DEF Next

-----------------------------------------------------------------------------
\* Every variable of the cache and its requests keeps its type.
THEOREM CacheTypeCorrect == Spec => []TypeOK
<1>1. IInv /\ [Next]_vars => IInv'
  BY NextTypeOK, NextKeys, NextProgress, NextServed, NextWitnessed, NextShared DEF IInv
<1>2. IInv => TypeOK
  BY DEF IInv
<1> QED
  BY <1>1, <1>2, InitIInv, PTL DEF Spec

\* An answer holds, of each entity, a value stored between the arrival of the
\* request and the answer, whether it was read, found in the cache or taken
\* from the request that filled it (responsecache/middleware.go).
THEOREM AnswersStayCurrent == Spec => []AnswersAreCurrent
<1>1. IInv /\ [Next]_vars => IInv'
  BY NextTypeOK, NextKeys, NextProgress, NextServed, NextWitnessed, NextShared DEF IInv
<1>2. IInv => AnswersAreCurrent
  BY DEF IInv, Witnessed, Progress, HasRead, AnswersAreCurrent
<1> QED
  BY <1>1, <1>2, InitIInv, PTL DEF Spec

=============================================================================
