---------------------------- MODULE EntityStore ----------------------------
(***************************************************************************)
(* One entity of one region in the PostgreSQL store                        *)
(* (internal/storage/master_data_postgres_store.go): its row, its blocks,  *)
(* its index postings and its projection, written by the sync jobs of      *)
(* several pods and read by handlers one SQL statement at a time.          *)
(*                                                                         *)
(* A pod runs one build of the program, and builds define the relation     *)
(* index and the projection differently (a rolling upgrade), so the row    *)
(* names the definitions its derived data was built with.  A statement is  *)
(* one snapshot and a transaction is one step: what a transaction of a job *)
(* that lost the lease does in between is SyncLease's concern, and here it *)
(* leaves nothing behind.                                                  *)
(***************************************************************************)
EXTENDS RecordLayout

CONSTANTS
  Pods,        \* the pods that may run a sync
  Build,       \* the build each pod runs
  Builds,      \* the builds: definitions of the index and the projection
  Index,       \* the relation index of each build
  Field(_, _), \* the projected field of a record, for each build
  Readers,     \* requests being answered
  Sources,     \* the source files the entity may have
  Lookups,     \* the lookups a reader asks of the index
  Wanted,      \* the record keys a reader asks for
  PageSize,    \* the size of the pages a reader asks for
  MaxToken,    \* bound: syncs claimed in one behaviour
  MaxWrites    \* bound: transactions one claim starts

ASSUME StoreAssumption ==
  /\ Build \in [Pods -> Builds]
  /\ None \notin Builds
  /\ PageSize \in 1..100
  /\ MaxToken \in Nat /\ MaxWrites \in Nat

\* A file is a list of parsed records, and a projected value has a JSON type.
ASSUME FilesAssumption ==
  \A src \in Sources :
    /\ WellFormed(src)
    /\ \A b \in Builds, i \in DOMAIN src :
         Field(b, src[i]) = None \/ Field(b, src[i]).type \in ValueTypes

VARIABLES
  row,         \* the master_entities row, or NoRow
  blocks,      \* its master_blocks rows, by first key
  postings,    \* its master_record_index rows of the index
  projection,  \* its master_projections row, or NoProjection
  lease,       \* the current fencing token
  job,         \* the sync job of each pod
  read         \* the read of each reader

vars == <<row, blocks, postings, projection, lease, job, read>>
stored == <<row, blocks, postings, projection>>

NoRow == [present |-> FALSE, revision |-> <<>>, digest |-> None, order |-> <<>>,
          indexVersion |-> None, projectionVersion |-> None]
NoProjection == [version |-> None, body |-> None]
NoPostings == [k \in {} |-> <<>>]

IdleJob == [pc |-> "idle", token |-> 0, writes |-> 0, source |-> <<>>, tagged |-> FALSE,
            force |-> FALSE, staleIndex |-> FALSE, staleProjection |-> FALSE, loaded |-> <<>>]
\* A job between two transactions.
Ready(j) == [IdleJob EXCEPT !.pc = "ready", !.token = j.token, !.writes = j.writes]
\* A job that starts one more transaction.
Starting(j) == [j EXCEPT !.writes = @ + 1]
NoRead == [pc |-> "idle", kind |-> None, build |-> None, lookup |-> None,
           keys |-> <<>>, seen |-> {}, answer |-> None]

-----------------------------------------------------------------------------
(* Writes                                                                   *)

ProjectionFor(b, pairs) ==
  ProjectionOf([i \in DOMAIN pairs |-> pairs[i].key],
               [i \in DOMAIN pairs |-> Field(b, pairs[i].record)])

\* collectEntity: every occurrence of a key feeds the index and the
\* projection with its own record.
CollectedIndex(b, src) == PostingsOf(Index[b], Collected(src))
CollectedProjection(b, src) == [version |-> b, body |-> ProjectionFor(b, Collected(src))]

Content == [present |-> row.present, source |-> row.revision]
ContentAfter(r) == [present |-> r.present, source |-> r.revision]

\* Every open read now has one more version it may have met.
Publish(newRow) ==
  read' = [q \in Readers |->
             IF read[q].pc \in {"idle", "done"} THEN read[q]
             ELSE [read[q] EXCEPT !.seen = @ \cup {ContentAfter(newRow)}]]

\* A pod takes the lease, with the next token: the job of the last owner
\* goes on until it is fenced out.
Claim(p) ==
  /\ lease < MaxToken
  /\ lease' = lease + 1
  /\ job' = [job EXCEPT ![p] = [IdleJob EXCEPT !.pc = "ready", !.token = lease + 1]]
  /\ UNCHANGED <<stored, read>>

\* Mutant: transactions are not fenced.
Unfenced(p) == FALSE

\* inFencedTx refuses the transactions of this job.
Fenced(p) == job[p].token # lease

FencedOut(p) ==
  /\ job[p].pc \in {"write", "rebuild", "prune"}
  /\ Fenced(p)
  /\ job' = [job EXCEPT ![p] = IdleJob]
  /\ UNCHANGED <<stored, lease, read>>

SourceUnchanged(p, src) ==
  /\ row.present
  /\ row.digest = src
  /\ row.indexVersion = Build[p]
  /\ row.projectionVersion = Build[p]

\* storeEntityFile up to the transaction.  Without a digest (StoreRegion) or
\* with ForceFullStore nothing is skipped.
StoreEntityFile(p) ==
  /\ job[p].pc = "ready" /\ job[p].writes < MaxWrites
  /\ \E src \in Sources, tagged \in BOOLEAN, force \in BOOLEAN :
       LET j == Starting(job[p])
       IN  job' = [job EXCEPT ![p] =
                     IF ~force /\ tagged /\ SourceUnchanged(p, src) THEN Ready(j)
                     ELSE [j EXCEPT !.pc = "write", !.source = src,
                                    !.tagged = tagged, !.force = force]]
  /\ UNCHANGED <<stored, lease, read>>

\* Mutant: a file without a digest leaves the digest in the row.
WrittenRowKeepsDigest(p, changed) ==
  LET j == job[p]
  IN  [present |-> TRUE,
       revision |-> IF changed THEN j.source ELSE row.revision,
       order    |-> IF changed THEN KeysOf(j.source) ELSE row.order,
       digest   |-> IF j.tagged THEN j.source ELSE row.digest,
       indexVersion |-> Build[p],
       projectionVersion |-> Build[p]]

WrittenRow(p, changed) ==
  LET j == job[p]
  IN  [present |-> TRUE,
       revision |-> IF changed THEN j.source ELSE row.revision,
       order    |-> IF changed THEN KeysOf(j.source) ELSE row.order,
       digest   |-> IF j.tagged THEN j.source ELSE IF changed THEN None ELSE row.digest,
       indexVersion |-> Build[p],
       projectionVersion |-> Build[p]]

\* writeEntity: one transaction replaces what the revision and the versions
\* say is out of date.
WriteEntity(p) ==
  LET j == job[p]
      b == Build[p]
      changed == j.force \/ ~row.present \/ row.revision # j.source
  IN  /\ j.pc = "write" /\ ~Fenced(p)
      /\ row' = WrittenRow(p, changed)
      /\ blocks' = IF changed THEN BlocksOf(j.source) ELSE blocks
      /\ postings' = IF changed \/ row.indexVersion # b THEN CollectedIndex(b, j.source) ELSE postings
      /\ projection' = IF changed \/ row.projectionVersion # b
                         THEN CollectedProjection(b, j.source) ELSE projection
      /\ job' = [job EXCEPT ![p] = Ready(@)]
      /\ Publish(row')
      /\ UNCHANGED lease

\* EnsureDerivedEntityData reads the row, then the blocks, then writes.
EnsureDerived(p) ==
  /\ job[p].pc = "ready" /\ job[p].writes < MaxWrites
  /\ row.present /\ row.order # <<>>
  /\ row.indexVersion # Build[p] \/ row.projectionVersion # Build[p]
  /\ job' = [job EXCEPT ![p] =
               [Starting(@) EXCEPT !.pc = "load",
                                   !.staleIndex = row.indexVersion # Build[p],
                                   !.staleProjection = row.projectionVersion # Build[p]]]
  /\ UNCHANGED <<stored, lease, read>>

LoadForDerived(p) ==
  /\ job[p].pc = "load"
  /\ job' = [job EXCEPT ![p] = [@ EXCEPT !.pc = "rebuild", !.loaded = InOrder(blocks)]]
  /\ UNCHANGED <<stored, lease, read>>

RebuildDerived(p) ==
  LET j == job[p]
      b == Build[p]
  IN  /\ j.pc = "rebuild" /\ ~Fenced(p)
      /\ postings' = IF j.staleIndex THEN PostingsOf(Index[b], j.loaded) ELSE postings
      /\ projection' = IF j.staleProjection
                         THEN [version |-> b, body |-> ProjectionFor(b, j.loaded)]
                         ELSE projection
      \* the UPDATE finds no row when the entity was pruned
      /\ row' = IF row.present
                  THEN [row EXCEPT !.indexVersion = b, !.projectionVersion = b] ELSE row
      /\ job' = [job EXCEPT ![p] = Ready(@)]
      /\ UNCHANGED <<blocks, lease, read>>

\* The payload no longer names the entity.
DropEntity(p) ==
  /\ job[p].pc = "ready" /\ job[p].writes < MaxWrites
  /\ job' = [job EXCEPT ![p] = [Starting(@) EXCEPT !.pc = "prune"]]
  /\ UNCHANGED <<stored, lease, read>>

PruneEntity(p) ==
  /\ job[p].pc = "prune" /\ ~Fenced(p)
  /\ row' = NoRow
  /\ IF row.present
       THEN blocks' = <<>> /\ postings' = NoPostings /\ projection' = NoProjection
       ELSE UNCHANGED <<blocks, postings, projection>>
  /\ job' = [job EXCEPT ![p] = Ready(@)]
  /\ Publish(row')
  /\ UNCHANGED lease

-----------------------------------------------------------------------------
(* Reads.  A reader runs a build of its own.                                *)

Answer(q, a) == [read[q] EXCEPT !.pc = "done", !.keys = <<>>, !.answer = a]

Records(pairs) == [i \in DOMAIN pairs |-> pairs[i].record]

\* Requests start with the versions current now; the build matters to those
\* of the derived data.
Ask(q) ==
  /\ read[q].pc = "idle"
  /\ LET Open(kind, build, lookup) ==
           read' = [read EXCEPT ![q] = [NoRead EXCEPT !.pc = "open", !.kind = kind, !.build = build,
                                                      !.lookup = lookup, !.seen = {Content}]]
     IN  \/ \E k \in {"all", "page"} : Open(k, None, None)
         \/ \E k \in Wanted : Open("get", None, k)
         \/ \E b \in Builds : Open("projection", b, None)
         \/ \E b \in Builds, l \in Lookups : Open("index", b, l)
  /\ UNCHANGED <<stored, lease, job>>

\* A bare id names no record of a composite-key entity, and a set of key
\* fields none of an entity keyed by id.
Matches(k) == Composite <=> k[1] = 2

\* GetByID, GetByIDs and GetByCompositeKeys, one key of the batch.
GetByKey(q) ==
  /\ read[q].pc = "open" /\ read[q].kind = "get"
  /\ read' = [read EXCEPT ![q] =
                Answer(q, IF Matches(read[q].lookup) THEN Located(blocks, read[q].lookup) ELSE None)]
  /\ UNCHANGED <<stored, lease, job>>

ListAll(q) ==
  /\ read[q].pc = "open" /\ read[q].kind = "all"
  /\ read' = [read EXCEPT ![q] = Answer(q, Records(InOrder(blocks)))]
  /\ UNCHANGED <<stored, lease, job>>

\* fetchRecords: a key without a record is dropped.
Fetched(keys) ==
  LET hits == Picked(keys, {i \in DOMAIN keys : Located(blocks, keys[i]) # None})
  IN  [i \in DOMAIN hits |-> Located(blocks, hits[i])]

\* The postings of the lookup and the blocks that hold the posted records, in
\* one statement.
Posted(l) == Fetched(IF l \in DOMAIN postings THEN postings[l] ELSE <<>>)

Matching(b, l, pairs) ==
  Records(Picked(pairs, {i \in DOMAIN pairs : l \in IndexKeys(Index[b], pairs[i].record)}))

\* Mutant: the postings are used whatever build wrote them.
ListByIndexOfAnyBuild(q) ==
  /\ read[q].pc = "open" /\ read[q].kind = "index"
  /\ read' = [read EXCEPT ![q] =
       IF ~row.present \/ row.order = <<>> THEN Answer(q, <<>>)
       ELSE Answer(q, Posted(read[q].lookup))]
  /\ UNCHANGED <<stored, lease, job>>

\* An index built by another build is not used: the entity is scanned, in a
\* second statement.
ListByIndex(q) ==
  /\ read[q].pc = "open" /\ read[q].kind = "index"
  /\ read' = [read EXCEPT ![q] =
       IF ~row.present \/ row.order = <<>> THEN Answer(q, <<>>)
       ELSE IF row.indexVersion # read[q].build THEN [@ EXCEPT !.pc = "scan"]
       ELSE Answer(q, Posted(read[q].lookup))]
  /\ UNCHANGED <<stored, lease, job>>

ScanByIndex(q) ==
  /\ read[q].pc = "scan" /\ read[q].kind = "index"
  /\ read' = [read EXCEPT ![q] =
                Answer(q, Matching(read[q].build, read[q].lookup, InOrder(blocks)))]
  /\ UNCHANGED <<stored, lease, job>>

LoadProjection(q) ==
  /\ read[q].pc = "open" /\ read[q].kind = "projection"
  /\ read' = [read EXCEPT ![q] =
       IF ~row.present \/ row.order = <<>>
         THEN Answer(q, <<>>)
       ELSE IF projection.version # read[q].build
         THEN [@ EXCEPT !.pc = "scan"]
       ELSE Answer(q, RowsOf(projection.body))]
  /\ UNCHANGED <<stored, lease, job>>

BuildFromRecords(q) ==
  /\ read[q].pc = "scan" /\ read[q].kind = "projection"
  /\ read' = [read EXCEPT ![q] =
                Answer(q, RowsOf(ProjectionFor(read[q].build, InOrder(blocks))))]
  /\ UNCHANGED <<stored, lease, job>>

\* ListByPage reads the order keys, then the records of the page's keys.
ListByPage(q) ==
  /\ read[q].pc = "open" /\ read[q].kind = "page"
  /\ \E page \in 1..2 :
       LET start == (page - 1) * PageSize
           keys  == SubSeq(row.order, start + 1,
                           IF start + PageSize < Len(row.order) THEN start + PageSize ELSE Len(row.order))
       IN  read' = [read EXCEPT ![q] =
                      IF keys = <<>> THEN [Answer(q, <<>>) EXCEPT !.lookup = page]
                      ELSE [@ EXCEPT !.pc = "fetch", !.keys = keys, !.lookup = page]]
  /\ UNCHANGED <<stored, lease, job>>

FetchPage(q) ==
  /\ read[q].pc = "fetch"
  /\ read' = [read EXCEPT ![q] = Answer(q, Fetched(read[q].keys))]
  /\ UNCHANGED <<stored, lease, job>>

Finish(q) ==
  /\ read[q].pc = "done"
  /\ read' = [read EXCEPT ![q] = NoRead]
  /\ UNCHANGED <<stored, lease, job>>

-----------------------------------------------------------------------------
Init ==
  /\ row = NoRow /\ blocks = <<>> /\ postings = NoPostings /\ projection = NoProjection
  /\ lease = 0
  /\ job = [p \in Pods |-> IdleJob]
  /\ read = [q \in Readers |-> NoRead]

Sync(p) ==
  \/ Claim(p)
  \/ FencedOut(p)
  \/ StoreEntityFile(p)
  \/ WriteEntity(p)
  \/ EnsureDerived(p)
  \/ LoadForDerived(p)
  \/ RebuildDerived(p)
  \/ DropEntity(p)
  \/ PruneEntity(p)

Read(q) ==
  \/ Ask(q)
  \/ GetByKey(q)
  \/ ListAll(q)
  \/ ListByIndex(q)
  \/ ScanByIndex(q)
  \/ LoadProjection(q)
  \/ BuildFromRecords(q)
  \/ ListByPage(q)
  \/ FetchPage(q)
  \/ Finish(q)

Next == (\E p \in Pods : Sync(p)) \/ (\E q \in Readers : Read(q))

Spec == Init /\ [][Next]_vars

-----------------------------------------------------------------------------
(* Properties                                                               *)

\* Every key the row orders is found through the blocks, with the record the
\* source stored last under it, wherever the block boundaries fell.
BlocksHoldTheOrder ==
  /\ \A i \in DOMAIN row.order :
       Located(blocks, row.order[i]) = StoredForm(row.revision)[i].record
  /\ InOrder(blocks) = StoredForm(row.revision)

\* The postings and the projection were built from the stored records by the
\* build the row names: a rebuild from blocks read earlier never lands on
\* records written since (EnsureDerivedEntityData reads outside its
\* transaction and does not compare the revision again).
DerivedMatchesRecords ==
  /\ row.indexVersion # None =>
       postings = PostingsOf(Index[row.indexVersion], InOrder(blocks))
  /\ row.projectionVersion # None =>
       /\ projection.version = row.projectionVersion
       /\ projection.body = ProjectionFor(row.projectionVersion, InOrder(blocks))
  /\ ~row.present => postings = NoPostings /\ projection = NoProjection /\ blocks = <<>>

\* What the derived data rests on, of the files and the builds: the records a
\* file repeats under one key agree on the fields that are indexed and
\* projected, since collectEntity takes these from each of them and keeps the
\* last record.
RepeatsAgree ==
  \A src \in Sources, b \in Builds : \A i, j \in DOMAIN src :
    KeyAt(src, i) = KeyAt(src, j) =>
      /\ IndexKeys(Index[b], src[i]) = IndexKeys(Index[b], src[j])
      /\ Field(b, src[i]) = Field(b, src[j])

\* A digest in the row names the source the stored records came from: the
\* sync that skips an entity for its digest keeps what it would have written.
DigestNamesTheRecords == row.digest # None => row.digest = row.revision

\* What the read r must see of one version.
Expected(r, c) ==
  LET s == StoredForm(c.source)
      under == {i \in DOMAIN s : s[i].key = r.lookup}
  IN  CASE r.kind = "all" -> Records(s)
        [] r.kind = "get" -> IF under = {} \/ ~Matches(r.lookup) THEN None
                             ELSE s[CHOOSE i \in under : TRUE].record
        [] r.kind = "index" -> Matching(r.build, r.lookup, s)
        [] r.kind = "projection" -> [i \in DOMAIN s |-> [key |-> s[i].key,
                                                         value |-> Field(r.build, s[i].record)]]
        [] r.kind = "page" -> SubSeq(Records(s), (r.lookup - 1) * PageSize + 1,
                                     IF r.lookup * PageSize < Len(s) THEN r.lookup * PageSize ELSE Len(s))

\* Every answer is that of one version of the entity that was current while
\* the request ran, whatever build wrote the derived data.  A page is read in
\* two statements and promises it only while nothing is replaced between.
AnswersComeFromOneVersion ==
  \A q \in Readers :
    read[q].pc = "done" /\ (read[q].kind = "page" => Cardinality(read[q].seen) = 1)
      => \E c \in read[q].seen : read[q].answer = Expected(read[q], c)

=============================================================================
