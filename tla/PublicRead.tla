---------------------------- MODULE PublicRead ----------------------------
(***************************************************************************)
(* The public read API over time: regions that are synced, requests that   *)
(* are answered from what is stored, and the response cache that keeps some*)
(* of the answers until a moment their handler reports.                    *)
(*                                                                         *)
(* A request is answered in one step here; ResponseCache has the steps of  *)
(* a request and of a sync interleave.  A request q is a record: its       *)
(* family, route, region and the parameters the route reads.               *)
(***************************************************************************)
EXTENDS EventQueries, MusicQueries, CardQueries, GachaQueries, LookupQueries, MissionQueries,
        HonorQueries, VirtualLiveQueries, CostumeQueries, MysekaiQueries, StampQueries,
        GameNewsQueries, HealthQueries

CONSTANTS
  Region,      \* regions, among them "jp" and the one of every request
  Content,     \* names of what a region can hold
  Db,          \* content -> its records
  Version,     \* content -> its version payload
  Request,     \* the requests that are made
  Watched,     \* bound: those whose cached answers are followed
  TTL,         \* lifetime of a cached answer, unless its handler says less
  MaxNow,      \* bound: the clock
  MaxRev,      \* bound: success rows of a region
  MaxEntries   \* bound: cached answers; the cache evicts

ASSUME PublicReadAssumption ==
  /\ Region # {} /\ TTL \in Nat \ {0} /\ MaxNow \in Nat \ {0} /\ MaxRev \in Nat /\ MaxEntries \in Nat
  /\ Watched \subseteq Request /\ \A q \in Request : q.region \in Region

\* The router hands each route to one family of handlers.
Routes ==
  [events       |-> {"events/list", "events/current", "events/id", "events/detail", "events/break-times",
                     "events/rewards", "events/cards", "events/musics", "events/bonuses",
                     "events/honor-bonuses"},
   musics       |-> {"musics/list", "musics/id", "musics/detail", "musics/difficulties", "musics/vocals"},
   cards        |-> {"cards/list", "cards/batch", "cards/id", "cards/params", "cards/episodes",
                     "cards/events", "cards/gachas", "cards/detail"},
   gachas       |-> {"gachas/list", "gachas/id", "gachas/wishes"},
   lookups      |-> {"lookups/list", "lookups/id", "lookups/unit", "lookups/members",
                     "lookups/unit-regions", "lookups/profile", "lookups/character2ds",
                     "lookups/character3ds", "lookups/comics", "lookups/comic", "lookups/photos",
                     "lookups/photo"},
   missions     |-> {"missions/list", "missions/id", "missions/levels", "missions/ranks"},
   honors       |-> {"honors/list", "honors/id", "honors/groups", "bonds/list", "bonds/id"},
   virtuallives |-> {"virtuallives/list", "virtuallives/id", "virtuallives/array"},
   costumes     |-> {"costumes/list", "costumes/id"},
   mysekai      |-> {"fixtures/list", "fixtures/filters", "fixtures/id", "materials/list",
                     "materials/id", "musicrecords/list", "musicrecords/filters", "shops/list"},
   stamps       |-> {"stamps/list"},
   gamenews     |-> {"gamenews/list"}]

\* Those that are asked for several ids.
BatchRoutes == {"cards/batch", "lookups/character2ds", "lookups/character3ds"}

\* Those that are asked for a page, and what else the answer depends on.
Sorting == {"sort", "descending"}
Parameters(route) ==
  CASE route = "events/list" -> {"spoiler", "fields", "units"} \cup Sorting
    [] route = "musics/list" ->
         {"spoiler", "name", "categories", "composers", "tags", "level", "append"} \cup Sorting
    [] route = "cards/list" ->
         {"spoiler", "cutIn"} \cup CardFilters \cup Sorting
    [] route = "gachas/list" -> {"spoiler", "ongoing"} \cup Sorting
    [] route = "virtuallives/list" -> {"spoiler", "name", "id", "types"} \cup Sorting
    [] route = "lookups/list" -> {"spoiler", "numbers"} \cup Sorting
    [] route = "stamps/list" -> {"spoiler", "categories", "characters", "name", "sources"} \cup Sorting
    [] route = "musicrecords/list" -> {"spoiler", "types", "trackCategories", "name"}
    [] route = "fixtures/list" -> {"tagIds", "mainGenres", "subGenres", "name"} \cup Sorting
    [] route = "missions/list" -> {"kind", "numbers"} \cup Sorting
    [] route = "bonds/list" -> {"bondsGroup", "unit1", "unit2", "pair", "name"} \cup Sorting
    [] route = "costumes/list" -> {"numbers", "name"} \cup Sorting
    [] route = "honors/groups" -> {"honorType", "name", "descending"}
    [] route \in {"materials/list", "shops/list"} -> {"types"}
    [] route \in {"missions/levels", "missions/ranks"} -> {"id"}
    [] OTHER -> {}
PagedRoutes ==
  {"events/list", "musics/list", "cards/list", "gachas/list", "virtuallives/list", "lookups/list",
   "stamps/list", "musicrecords/list", "fixtures/list", "missions/list", "bonds/list",
   "costumes/list", "honors/groups", "materials/list", "shops/list", "missions/levels",
   "missions/ranks", "honors/list", "lookups/comics", "lookups/photos"}

ASSUME RequestAssumption ==
  \A q \in Request :
    /\ {"family", "route", "region", "entity"} \subseteq DOMAIN q
    /\ q.family \in DOMAIN Routes /\ q.route \in Routes[q.family]
    /\ q.route = "cards/id" => q.entity = "cards"
    /\ q.route = "honors/id" => q.entity = "honors"
    /\ q.route \in BatchRoutes => q.ids \in Seq(Range(q.ids))
    /\ q.route = "missions/list" => q.kind \in DOMAIN KindEntity
    /\ "page" \in DOMAIN q <=> q.route \in PagedRoutes
    /\ q.route \in PagedRoutes => /\ {"page", "size"} \cup Parameters(q.route) \subseteq DOMAIN q
                                  /\ q.page \in Nat \ {0} /\ q.size \in Nat \ {0}

\* The records of an entity are a list, and a null would be read as an empty
\* record; the rewards of an event are a list, or read as one.
HoldsLists(db) ==
  /\ \A entity \in DOMAIN db : db[entity] \in Seq(Range(db[entity])) /\ None \notin Range(db[entity])
  /\ \A e \in Range(ListAll(db, "events")) : RewardRanges(e) \in Seq(Range(RewardRanges(e)))

ASSUME ContentAssumption == \A c \in Content : HoldsLists(Db[c])

\* Ids are positive numbers.  A list reads of an id what is read under it, the
\* record stored last with the key (StoredForm of RecordLayout).
HoldsIDs(db) ==
  \A entity \in DOMAIN db \ CompositeKeyEntities : \A r \in Range(db[entity]) :
    Get(r, "id") # None => r.id \in Nat \ {0} /\ GetByID(db, entity, r.id) = r

ASSUME IDAssumption == \A c \in Content : HoldsIDs(Db[c])

VARIABLES
  now,      \* the clock, the same for every pod
  status,   \* the latest sync status of each region
  stored,   \* the content of each region
  rev,      \* the success rows of each region so far: its revision
  entries   \* the cached answers that have not expired

vars == <<now, status, stored, rev, entries>>

World == [r \in Region |-> [status |-> status[r], db |-> Db[stored[r]], version |-> Version[stored[r]]]]

Init ==
  /\ now = 1 /\ entries = {}
  /\ status \in [Region -> {"success", "failed"}]
  /\ stored \in [Region -> Content]
  /\ rev = [r \in Region |-> 0]

-----------------------------------------------------------------------------
(* Answers                                                                  *)

FamilyAnswer(world, q, t) ==
  CASE q.family = "events" -> EventAnswer(world, q, t)
    [] q.family = "musics" -> MusicAnswer(world, q, t)
    [] q.family = "cards" -> CardAnswer(world, q, t)
    [] q.family = "gachas" -> GachaAnswer(world, q, t)
    [] q.family = "lookups" -> LookupAnswer(world, q, t)
    [] q.family = "missions" -> MissionAnswer(world, q, t)
    [] q.family = "honors" -> HonorAnswer(world, q, t)
    [] q.family = "virtuallives" -> VirtualLiveAnswer(world, q, t)
    [] q.family = "costumes" -> CostumeAnswer(world, q, t)
    [] q.family = "mysekai" -> MysekaiAnswer(world, q, t)
    [] q.family = "stamps" -> StampAnswer(world, q, t)
    [] q.family = "gamenews" -> GameNewsAnswer(world, q, t)

\* The handlers answer 503 for a region that is not ready for the entity they
\* read first.
RegionNotReady(q) == ~RegionReadyForEntity(World, q.region, q.entity)
Answer(q) == IF RegionNotReady(q) THEN Fail(503) ELSE FamilyAnswer(World, q, now)

\* /:entity/regions/:id/availability needs no region.
Availability(entity, id) == AvailableRegionsByID(World, entity, id)

-----------------------------------------------------------------------------
(* The response cache                                                       *)

CachedRoutes ==
  {"costumes/list", "events/list", "events/detail", "virtuallives/list", "honors/groups",
   "gachas/list", "fixtures/list", "fixtures/filters", "fixtures/id", "materials/list",
   "materials/id", "musicrecords/list", "musicrecords/filters", "shops/list", "stamps/list"}
CachedLists == {"cardepisodes", "actionsets"}
IsCached(q) == q.route \in CachedRoutes \/ (q.route = "lookups/list" /\ q.entity \in CachedLists)

HasRevision(r) == status[r] = "success"
Hits(q) == {e \in entries : e.request = q /\ HasRevision(q.region) /\ e.rev = rev[q.region]}

\* An answer is kept for TTL, or until the moment its handler reported.
Lifetime(answer) ==
  IF answer.until # 0 /\ answer.until - now < TTL THEN answer.until - now ELSE TTL

-----------------------------------------------------------------------------
(* Actions                                                                  *)

Tick ==
  /\ now < MaxNow
  /\ now' = now + 1
  /\ entries' = {e \in entries : e.expires > now'}
  /\ UNCHANGED <<status, stored, rev>>

\* A sync withdraws the region, stores what it loaded, and ends.
BeginSync(r) ==
  /\ status[r] # "running"
  /\ status' = [status EXCEPT ![r] = "running"]
  /\ UNCHANGED <<now, stored, rev, entries>>

Store(r, c) ==
  /\ status[r] = "running" /\ stored[r] # c
  /\ stored' = [stored EXCEPT ![r] = c]
  /\ UNCHANGED <<now, status, rev, entries>>

EndSync(r) ==
  /\ status[r] = "running"
  /\ \/ /\ rev[r] < MaxRev
        /\ status' = [status EXCEPT ![r] = "success"]
        /\ rev' = [rev EXCEPT ![r] = @ + 1]
     \/ status' = [status EXCEPT ![r] = "failed"] /\ UNCHANGED rev
  /\ UNCHANGED <<now, stored, entries>>

\* A request of a cached route that misses; its answer may be kept.
Fill(q) ==
  /\ IsCached(q) /\ HasRevision(q.region) /\ Hits(q) = {}
  /\ \E answer \in {Answer(q)} :
     LET kept == [request |-> q, rev |-> rev[q.region], body |-> answer.body,
                  expires |-> now + Lifetime(answer)]
     IN  /\ answer.status = 200 /\ kept.expires > now
         /\ \E others \in SUBSET entries :
              /\ Cardinality(others) < MaxEntries
              /\ entries' = others \cup {kept}
  /\ UNCHANGED <<now, status, stored, rev>>

Next ==
  \/ Tick
  \/ \E r \in Region :
       \/ BeginSync(r) \/ EndSync(r)
       \/ \E c \in Content : Store(r, c)
  \/ \E q \in Watched : Fill(q)

Spec == Init /\ [][Next]_vars

=============================================================================
