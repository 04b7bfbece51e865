----------------------------- MODULE QueryBase -----------------------------
(***************************************************************************)
(* What the public handlers share (internal/transport/http/handlers/shared *)
(* and the reads of the sync usecase): records, joins by id and by index,  *)
(* spoiler filtering, sorting, paging, readiness.                          *)
(*                                                                         *)
(* A record is a function from field names to values, as in the JSON map:  *)
(* a field it lacks is outside its domain.  Ids and timestamps are         *)
(* positive integers.  db is the stored data of one region, a function     *)
(* from entity names to sequences of records; world holds, per region,     *)
(* [status, db].  An answer is [status, body, until]: until is the moment  *)
(* reported to the response cache, or 0.                                   *)
(***************************************************************************)
EXTENDS Positions, SequencesExt

CONSTANTS None,        \* null, or a missing field
          MaxPageSize  \* the page size the store and PaginateItems cap at

ASSUME QueryAssumption == MaxPageSize \in Nat \ {0} /\ None \notin Int

-----------------------------------------------------------------------------
(* Records and reads                                                        *)

MapSeq(s, op(_)) == [i \in DOMAIN s |-> op(s[i])]

\* A field of a record, and of one that may be missing: it has no fields.
Field(r, f) == IF f \in DOMAIN r THEN r[f] ELSE None
Get(r, f) == IF r = None THEN None ELSE Field(r, f)
Pick(r, fields) == IF r = None THEN <<>> ELSE [f \in fields \cap DOMAIN r |-> r[f]]
PickOrNull(r, fields) == IF r = None THEN None ELSE Pick(r, fields)
Without(r, fields) == [f \in DOMAIN r \ fields |-> r[f]]
Merge(r, more) ==
  [f \in DOMAIN r \cup DOMAIN more |-> IF f \in DOMAIN more THEN more[f] ELSE r[f]]
Only(field, value) == IF value = None THEN <<>> ELSE [f \in {field} |-> value]
Present(r) == [f \in {g \in DOMAIN r : r[g] # None} |-> r[f]]

\* Nothing is stored of an entity the file never had.
ListAll(db, entity) == IF entity \in DOMAIN db THEN db[entity] ELSE <<>>

FirstOf(s) == IF s = <<>> THEN None ELSE s[1]
LastOf(s)  == IF s = <<>> THEN None ELSE s[Len(s)]

\* The record stored last under the id; an id alone names none of an entity
\* that is keyed by several fields.
CompositeKeyEntities == {"resourceboxes", "resourceboxdetails", "charactermissionv2parametergroups"}

GetByID(db, entity, id) ==
  LET records == ListAll(db, entity)
      under   == {i \in DOMAIN records : /\ id # None /\ entity \notin CompositeKeyEntities
                                        /\ Get(records[i], "id") = id}
  IN  IF under = {} THEN None ELSE records[Max(under)]

GetByIDs(db, entity, ids) == [i \in DOMAIN ids |-> GetByID(db, entity, ids[i])]

ListByIndex(db, entity, field, value) ==
  Selected(ListAll(db, entity), LAMBDA r : value # None /\ Get(r, field) = value)

\* LoadProjection: the projected fields of every record, null ones dropped.
ProjectionRows(db, entity, fields) ==
  [i \in DOMAIN ListAll(db, entity) |->
     LET r == ListAll(db, entity)[i]
     IN  [f \in {g \in DOMAIN r \cap fields : r[g] # None} |-> r[f]]]

FirstOfEachID(rows) ==
  Picked(rows, {i \in DOMAIN rows :
                  /\ "id" \in DOMAIN rows[i]
                  /\ \A j \in 1..(i - 1) : Field(rows[j], "id") # rows[i].id})

\* The projected rows with an id, the first of each.
FirstRows(db, entity, fields) == FirstOfEachID(ProjectionRows(db, entity, fields))

\* An array field, empty when the record lacks it.
Items(r, field) == IF Get(r, field) = None THEN <<>> ELSE r[field]

ConcatAll(ss) ==
  LET upTo[n \in Nat] == IF n = 0 THEN <<>> ELSE upTo[n - 1] \o ss[n]
  IN  upTo[Len(ss)]

-----------------------------------------------------------------------------
(* Answers and readiness                                                    *)

Ok(body) == [status |-> 200, body |-> body, until |-> 0]
OkUntil(body, until) == [status |-> 200, body |-> body, until |-> until]
Fail(status) == [status |-> status, body |-> None, until |-> 0]

\* The answer about a record, or that there is none.
Found(r, answer(_)) == IF r = None THEN Fail(404) ELSE Ok(answer(r))

\* A moment ParseTimestampMillis makes out of a field.
IsTime(t) == t \in Int

\* The first of some moments, or 0.
Soonest(moments) == IF moments = {} THEN 0 ELSE Min(moments)

\* The earliest of two reported moments; 0 reports nothing.
Earliest(t, u) == IF t = 0 THEN u ELSE IF u = 0 \/ t < u THEN t ELSE u

HasEntityRecords(db, entity) == ListAll(db, entity) # <<>>
HasRegionData(db) == \E e \in DOMAIN db : db[e] # <<>>
HasSuccessfulSync(world, region) == world[region].status = "success"

RegionReadyForEntity(world, region, entity) ==
  /\ HasEntityRecords(world[region].db, entity) \/ HasRegionData(world[region].db)
  /\ HasSuccessfulSync(world, region)

\* Mutant: a region is named while its sync runs.
SuccessfulOrRunningRegions(world) == {r \in DOMAIN world : world[r].status # "failed"}
SuccessfulSyncRegions(world) == {r \in DOMAIN world : HasSuccessfulSync(world, r)}

AvailableRegionsByID(world, entity, id) ==
  {r \in SuccessfulSyncRegions(world) : GetByID(world[r].db, entity, id) # None}

-----------------------------------------------------------------------------
(* Spoilers: a record with a timestamp ahead of now.                        *)

SpoilerTimestampKeys == {"releaseAt", "releastAt", "publishedAt", "startAt"}
Ahead(r, now) ==
  {t \in {r[f] : f \in SpoilerTimestampKeys \cap DOMAIN r} : IsTime(t) /\ t > now}
IsSpoilerItem(r, now) == Ahead(r, now) # {}
SpoilerRevealAt(r, now) == Max(Ahead(r, now))

Spoilers(items, now) == {r \in Range(items) : IsSpoilerItem(r, now)}
FilterSpoilerItems(items, now) == Those(items, Range(items) \ Spoilers(items, now))

\* Mutant: the last reveal is reported.
LastReveal(items, now) ==
  LET reveals == {SpoilerRevealAt(r, now) : r \in Spoilers(items, now)}
  IN  IF reveals = {} THEN 0 ELSE Max(reveals)

\* What FilterSpoilerItemsContext reports: when the first dropped item shows.
NextReveal(items, now) == Soonest({SpoilerRevealAt(r, now) : r \in Spoilers(items, now)})

-----------------------------------------------------------------------------
(* Sorting, paging, filters                                                 *)

\* Ids compare as text, a missing one as the empty text.
IdText(id) ==
  CASE id = None -> <<-1, -1>>
    [] id # None /\ id < 10 -> <<id, -1>>
    [] OTHER -> <<id \div 10, id % 10>>
IdBefore(a, b) ==
  LET s == IdText(a)
      t == IdText(b)
  IN  s[1] < t[1] \/ (s[1] = t[1] /\ s[2] < t[2])

\* Missing values last whatever the direction, ties as the ids are.
ValueBefore(x, y, descending, tie) ==
  CASE (x = None) # (y = None) -> y = None
    [] x = y -> tie
    [] OTHER -> IF descending THEN x > y ELSE x < y

SortResponseItems(items, field, descending) ==
  StableSort(items, LAMBDA a, b :
    ValueBefore(Get(a, field), Get(b, field), descending, IdBefore(Get(a, "id"), Get(b, "id"))))

PagesFor(total, size) == (total + size - 1) \div size

PaginationOf(page, size, total) ==
  [page |-> page, size |-> size, total |-> total, totalPages |-> PagesFor(total, size),
   hasNext |-> page < PagesFor(total, size)]

\* Mutant: a page ends one item late.
SliceOneMore(items, page, size) ==
  LET from == (page - 1) * size
  IN  IF from >= Len(items) THEN <<>>
      ELSE SubSeq(items, from + 1, IF from + size >= Len(items) THEN Len(items) ELSE from + size + 1)

Slice(items, page, size) ==
  LET from == (page - 1) * size
      to   == IF from + size > Len(items) THEN Len(items) ELSE from + size
  IN  IF from >= Len(items) THEN <<>> ELSE SubSeq(items, from + 1, to)

AtMost(n, cap) == IF n > cap THEN cap ELSE n

PaginateItems(items, page, pageSize) ==
  LET size == AtMost(pageSize, MaxPageSize)
  IN  [items |-> Slice(items, page, size), pagination |-> PaginationOf(page, size, Len(items))]

\* The store caps the size; the handlers report the one they were asked for.
ListByPage(db, entity, page, pageSize) ==
  Slice(ListAll(db, entity), page, AtMost(pageSize, MaxPageSize))

StoredPage(db, entity, page, pageSize) ==
  [items |-> ListByPage(db, entity, page, pageSize),
   pagination |-> PaginationOf(page, pageSize, Len(ListAll(db, entity)))]

\* What a request that asks for no spoilers may see, and the order it asks for.
Visible(items, q, now) == IF q.spoiler THEN items ELSE FilterSpoilerItems(items, now)
Sorted(items, q) == IF q.sort = None THEN items ELSE SortResponseItems(items, q.sort, q.descending)

\* A page of the items that were chosen, or of what is stored when nothing was
\* filtered out nor sorted.
ListPage(db, entity, items, filtered, q) ==
  IF ~q.spoiler \/ filtered \/ q.sort # None THEN PaginateItems(items, q.page, q.size)
  ELSE StoredPage(db, entity, q.page, q.size)

\* The lists of typed items compare ids as numbers.
TypedSort(items, field, descending) ==
  StableSort(items, LAMBDA a, b : ValueBefore(Get(a, field), Get(b, field), descending, a.id < b.id))

TypedSorted(items, q) == IF q.sort = None THEN items ELSE TypedSort(items, q.sort, q.descending)

\* A page of typed items, by a size the request was allowed to ask.
TypedPage(items, q, project(_)) ==
  IF q.size > MaxPageSize THEN Fail(400)
  ELSE Ok([items |-> MapSeq(Slice(items, q.page, q.size), project),
           pagination |-> PaginationOf(q.page, q.size, Len(items))])

\* filters: field -> accepted numbers.
FilterRecordsByNumbers(items, filters) ==
  Selected(items, LAMBDA r : \A f \in DOMAIN filters : Get(r, f) \in filters[f])

-----------------------------------------------------------------------------
(* Joins every handler makes                                                *)

\* releaseConditionId is replaced by the condition, or by null.
WithReleaseCondition(db, r) ==
  IF "releaseConditionId" \notin DOMAIN r THEN r
  ELSE Merge(Without(r, {"releaseConditionId"}),
             [releaseCondition |-> GetByID(db, "releaseconditions", r.releaseConditionId)])

RewardItemEntities ==
  [honor |-> "honors", material |-> "materials", stamp |-> "stamps"]
RewardItemAssetbundleField == [stamp |-> "assetbundleName"]

\* A title's rarity, else its rewarded level's, else its first level's.
RewardTitleRarity(r, level) ==
  LET own   == IF Get(r, "honorRarity") # None THEN <<r>> ELSE <<>>
      rated == Selected(Items(r, "levels"), LAMBDA l : Get(l, "honorRarity") # None)
      same  == Selected(rated, LAMBDA l : level # None /\ Get(l, "level") = level)
  IN  Get(FirstOf(own \o same \o rated), "honorRarity")

ShownRewardItem(item, type, level) ==
  Present([resourceName |-> Get(item, "name"),
           resourceAssetbundleName |-> Get(item, Get(RewardItemAssetbundleField, type)),
           resourceRarity |-> RewardTitleRarity(item, level)])

RewardItemFields(db, detail) ==
  LET type == Get(detail, "resourceType")
  IN  IF type \notin DOMAIN RewardItemEntities THEN <<>>
      ELSE ShownRewardItem(GetByID(db, RewardItemEntities[type], Get(detail, "resourceId")),
                           type, Get(detail, "resourceLevel"))

=============================================================================
