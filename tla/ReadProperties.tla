--------------------------- MODULE ReadProperties ---------------------------
(***************************************************************************)
(* What the public read API promises: that answers of different handlers   *)
(* about the same stored data agree, and that cached answers are current.  *)
(*                                                                         *)
(* A property of the stored data alone is stated as a function of the      *)
(* content (...In), whatever the time; it holds of a state when it holds of*)
(* what the regions that are served store.                                 *)
(***************************************************************************)
EXTENDS PublicRead

Moment == 1 .. MaxNow
Served == {stored[r] : r \in SuccessfulSyncRegions(World)}

\* A world in which every region stores c and is served.
WorldOf(c) ==
  [r \in Region |-> [status |-> "success", db |-> Db[c], version |-> Version[c]]]

Replied(c, t, q) == FamilyAnswer(WorldOf(c), q, t)

\* A request for one thing by id, with the parameters of q.
ByID(q, route, id) == Merge(q, [route |-> route, id |-> id])

OfRoute(route) == {q \in Request : q.route = route}

-----------------------------------------------------------------------------
(* Pages                                                                    *)

Paged == {q \in Request : "page" \in DOMAIN q /\ q.size <= MaxPageSize}
PageOf(q, k) == [q EXCEPT !.page = k]
Sized(q, s) == [q EXCEPT !.size = s]

\* The pages there are to ask for, and what they hold together.
PagesOf(Reply(_), q) == [k \in Nat \ {0} |-> Reply(PageOf(q, k)).body]
AllOf(pages) == ConcatAll([k \in 1 .. pages[1].pagination.totalPages |-> pages[k].items])
AllItems(Reply(_), q) == AllOf(PagesOf(Reply, q))

\* What an item, and a page, shows by itself: the levels of a listed mission's
\* group come out of a lookup for all the missions of its page.
OfItself(q, item) == IF q.route = "missions/list" THEN Without(item, {"parameterGroup"}) ELSE item
ItemsThemselves(q, items) == MapSeq(items, LAMBDA item : OfItself(q, item))
PageItself(q, page) == [items |-> ItemsThemselves(q, page.items), pagination |-> page.pagination]

AreWhole(pages, first) ==
  /\ Len(AllOf(pages)) = first.total
  /\ \A k \in 1 .. first.totalPages + 1 :
       /\ pages[k].items # <<>> <=> k <= first.totalPages
       /\ pages[k].pagination.hasNext <=> k < first.totalPages

\* The pages of one list, by their size.
CutOneList(lists) ==
  /\ \A s \in DOMAIN lists : AreWhole(lists[s], lists[s][1].pagination)
  /\ \A s, u \in DOMAIN lists : AllOf(lists[s]) = AllOf(lists[u])

PagesPartition(Reply(_)) ==
  \A q \in Paged :
    LET accepted == {s \in 1 .. MaxPageSize : Reply(Sized(q, s)).status = 200}
    IN  CutOneList([s \in accepted |->
          [k \in Nat \ {0} |-> PageItself(q, PagesOf(Reply, Sized(q, s))[k])]])

PagesPartitionListsIn[c \in Content] ==
  \A t \in Moment : PagesPartition(LAMBDA q : Replied(c, t, q))

\* The pages of a list, put together, are as many items as it counts, the same
\* ones in the same order whatever the size of a page; a page says whether
\* another follows, and only what is past the last is empty.  (PaginateItems,
\* ListByPage and the typed lists.)  The levels of a listed mission's group are
\* left out: they depend on the page (ListedMissionsPreviewTheirGroup).
PagesPartitionLists == \A c \in Served : PagesPartitionListsIn[c]

-----------------------------------------------------------------------------
(* A list and the answer about one of its items                             *)

DetailOf ==
  ("cards/list" :> "cards/id") @@ ("costumes/list" :> "costumes/id") @@ ("honors/list" :> "honors/id")
  @@ ("fixtures/list" :> "fixtures/id") @@ ("materials/list" :> "materials/id")
  @@ ("missions/list" :> "missions/id") @@ ("musics/list" :> "musics/id")
  @@ ("lookups/comics" :> "lookups/comic") @@ ("lookups/photos" :> "lookups/photo")
  @@ ("bonds/list" :> "bonds/id")

\* What a list adds to the item, or the answer about one item says in a form
\* of its own.
OwnFields == {"difficulties", "tags", "mainGenreId", "subGenreId", "tagIds"}

IsShown(item, one) ==
  one.status = 200 /\ \A f \in DOMAIN item \ OwnFields : Get(one.body, f) = item[f]

\* No other item of the page has the group of this one.
Alone(items, i) ==
  \A j \in DOMAIN items :
    Field(items[j], "parameterGroupId") = Field(items[i], "parameterGroupId") => j = i

\* What the page shows of the item that does not come from another's lookup.
ShownAt(q, items, i) == IF Alone(items, i) THEN items[i] ELSE OfItself(q, items[i])

PageIsShown(Reply(_), q, items) ==
  \A i \in DOMAIN items :
    IsShown(ShownAt(q, items, i), Reply(ByID(q, DetailOf[q.route], items[i].id)))

AllAreShown(Reply(_), q, pages) ==
  /\ Cardinality(Range(AllOf(pages))) = Len(AllOf(pages))
  /\ q.route \in DOMAIN DetailOf =>
       \A k \in 1 .. pages[1].pagination.totalPages : PageIsShown(Reply, q, pages[k].items)

ItemsAgree(Reply(_)) ==
  \A q \in {p \in Paged : Reply(p).status = 200} : AllAreShown(Reply, q, PagesOf(Reply, q))

ListsShowTheItemsIn[c \in Content] ==
  \A t \in Moment : ItemsAgree(LAMBDA q : Replied(c, t, q))

\* A list shows each item once; the item is found by its id, and the list says
\* of it what the answer about it says, though the one is made from projections
\* or pages and the other from the record and the index.  For the levels of a
\* mission this is so when no other mission of the page has its group.
ListsShowTheItems == \A c \in Served : ListsShowTheItemsIn[c]

-----------------------------------------------------------------------------
(* Filters                                                                  *)

NoLevel == [equals |-> {}, min |-> None, max |-> None, minInclusive |-> FALSE, maxInclusive |-> FALSE]
Neutral ==
  [fields |-> <<>>, numbers |-> <<>>, level |-> NoLevel, append |-> None, ongoing |-> FALSE,
   honorType |-> None]
  @@ [f \in {"units", "categories", "composers", "tags", "characters", "skills", "types", "supplies",
             "attrs", "rarities", "supportUnits", "tagIds", "mainGenres", "trackCategories"} |-> {}]
Unfiltered(q) == [f \in DOMAIN q |-> IF f \in DOMAIN Neutral THEN Neutral[f] ELSE q[f]]

Among(value, wanted) == wanted = {} \/ value \in wanted
Meets(shown, wanted) == wanted = {} \/ shown \cap wanted # {}
Inner(item, field, inner) == IF Get(item, field) = None THEN None ELSE Get(item[field], inner)

\* What the item itself shows satisfies the filters.
Shows(q, item, t) ==
  CASE q.route = "events/list" ->
         Among(Get(item, "unit"), q.units) /\ \A f \in DOMAIN q.fields : Get(item, f) \in q.fields[f]
    [] q.route = "musics/list" ->
         LET levels == Range(item.difficulties)
         IN  /\ Meets(Range(item.categories), q.categories) /\ Meets(Range(item.tags), q.tags)
             /\ Among(Get(item, "composer"), q.composers)
             /\ q.append # None => q.append = (\E d \in levels : d.musicDifficulty = "append")
             /\ q.level # NoLevel => \E d \in levels : LevelMatches(q.level, d.playLevel)
    [] q.route = "cards/list" ->
         /\ Among(Inner(item, "character", "unit"), q.units)
         /\ Among(Inner(item, "skill", "descriptionSpriteName"), q.skills)
         /\ Among(Get(item, "attr"), q.attrs) /\ Among(Get(item, "supportUnit"), q.supportUnits)
         /\ q.rarities = {} \/ Inner(item, "cardRarity", "cardRarityType")
                                \in q.rarities \cup {type \in DOMAIN RarityNumber : RarityNumber[type] \in q.rarities}
         /\ \/ q.types = {} /\ q.supplies = {}
            \/ Inner(item, "cardSupply", "cardSupplyType") \in q.types
            \/ Inner(item, "cardSupply", "id") \in q.supplies
    [] q.route = "gachas/list" -> q.ongoing => item.startAt <= t /\ t <= item.endAt
    [] q.route = "stamps/list" ->
         Among(item.category, q.categories) /\ q.characters \subseteq Range(item.characterIds)
    [] q.route = "fixtures/list" ->
         q.tagIds \subseteq Range(item.tagIds) /\ Among(item.mainGenreId, q.mainGenres)
    [] q.route = "musicrecords/list" -> Among(Inner(item, "soundTrack", "musicSoundTrackCategoryId"),
                                              q.trackCategories)
    [] q.route = "honors/groups" -> q.honorType # None => Get(item, "honorType") = q.honorType
    [] OTHER -> \A f \in DOMAIN q.numbers : Get(item, f) \in q.numbers[f]

Filtered ==
  {q \in Paged : /\ Unfiltered(q) # q
                 /\ "numbers" \in DOMAIN q \/ q.route \in
                      {"events/list", "musics/list", "cards/list", "gachas/list", "stamps/list",
                       "fixtures/list", "musicrecords/list", "honors/groups"}}

FiltersMatch(Reply(_), t) ==
  \A q \in {p \in Filtered : Reply(p).status = 200} :
    ItemsThemselves(q, AllItems(Reply, q))
      = Selected(ItemsThemselves(q, AllItems(Reply, Unfiltered(q))), LAMBDA item : Shows(q, item, t))

\* The lists that are narrowed by what an answer offers.
OfferedBy ==
  ("fixtures/list" :> "fixtures/filters") @@ ("musicrecords/list" :> "musicrecords/filters")
  @@ ("honors/groups" :> "honors/groups")

Offered(route, body) ==
  CASE route = "fixtures/filters" ->
         UNION {{[mainGenres |-> {g.id}, subGenres |-> {s.id}] : s \in Range(g.subGenres)}
                  : g \in Range(body.mainGenres)}
         \cup {[tagIds |-> {tag.id}] : tag \in Range(body.tags)}
    [] route = "musicrecords/filters" -> {[trackCategories |-> {x.id}] : x \in Range(body)}
    [] route = "honors/groups" -> {[honorType |-> type] : type \in body.types}

FiltersLead(Reply(_)) ==
  \A q \in {p \in Request : p.route \in DOMAIN OfferedBy} : \A f \in OfRoute(OfferedBy[q.route]) :
    \A choice \in Offered(f.route, Reply(f).body) : AllItems(Reply, choice @@ Unfiltered(q)) # <<>>

FiltersAreTrue(Reply(_), t) == FiltersMatch(Reply, t) /\ FiltersLead(Reply)
FiltersAgreeIn[c \in Content] ==
  \A t \in Moment : FiltersAreTrue(LAMBDA q : Replied(c, t, q), t)

\* Filters agree with the lists they narrow.  A filtered list holds exactly the
\* items of the whole list that show what was asked for: the filter reads the
\* stored fields and their joins, the item is assembled from others.  (The unit and
\* the type of an event are compared as a whole, by eventMatchesUnitFilter and
\* eventFieldRequiresExactMatch, although docs/api.md calls both partial matches.)
\* And every value a filter offers, a sub-genre under its main genre included,
\* leads to a list with an item in it.
FiltersAgree == \A c \in Served : FiltersAgreeIn[c]

-----------------------------------------------------------------------------
(* Two sides of a relation                                                  *)

\* The records that are found by an id.
Identified(db, entity) == {r \in Range(ListAll(db, entity)) : Get(r, "id") # None}

Shown(items, field) == {Field(items[i], field) : i \in DOMAIN items}

CardsAndEventsAgreeIn[c \in Content] ==
  LET db == Db[c]
  IN  /\ \A e \in Identified(db, "events"), r \in Identified(db, "cards") :
           e.id \in Shown(CardEvents(db, r), "eventId") <=> r.id \in Shown(EventCards(db, e), "cardId")
      /\ \A g \in Identified(db, "gachas"), r \in Identified(db, "cards") :
           g.id \in Shown(CardGachas(db, r.id), "id")
             <=> \E h \in Identified(db, "gachas") :
                   LET detail == BuildGachaDetail(db, h)
                   IN  /\ h.id = g.id /\ "gachaPickups" \in DOMAIN detail
                       /\ r.id \in Shown(detail.gachaPickups, "cardId")

\* An event lists a card exactly when the card lists the event, and a card is
\* listed by the gachas that pick it up, whichever pickup it is.
CardsAndEventsAgree == \A c \in Served : CardsAndEventsAgreeIn[c]

EventUnitsAgreeIn[c \in Content] ==
  LET db == Db[c]
  IN  \A e \in Range(ListAll(db, "events")) :
        LET shown  == Field(EventListItem(db, e), "unit")
            detail == EventUnit(db, e)
            banner == BannerCharacter(db, e)
        IN  /\ detail # None => detail.unit = shown
            /\ banner # None => Field(EventListItem(db, e), "bannerGameCharacterId")
                                  = Field(banner, "gameCharacterId")

\* The list and the detail of an event name the same unit, the one of its
\* story rather than its own field, and the same banner character.
EventUnitsAgree == \A c \in Served : EventUnitsAgreeIn[c]

IsPreviewOf(preview, all, chosen) ==
  /\ Range(preview) \subseteq Range(all)
  /\ Len(preview) = Cardinality(Range(chosen)) /\ Len(chosen) = Len(preview)
  /\ \A i, j \in DOMAIN preview : i < j => preview[i].fromRank <= preview[j].fromRank

RewardPreviewIsOfTheRewardsIn[c \in Content] ==
  \A d \in Content, r \in Region :
    LET world == [WorldOf(c) EXCEPT !["jp"].db = Db[d]]
    IN  \A e \in Range(ListAll(world[r].db, "events")) :
          IsPreviewOf(RewardPreview(world, r, e), EventRewards(world, r, e).body,
                      PreviewIndices(world, r, RewardRanges(e)))

\* The preview of an event's rewards holds ranges of the full answer, each
\* once, by rank, with the boxes the full answer shows, whether they come from
\* the region or from jp.
RewardPreviewIsOfTheRewards == \A c \in Served : RewardPreviewIsOfTheRewardsIn[c]

\* The views of an event agree: its list item, its detail, its preview, and
\* what the cards and the gachas say of it.
EventViewsAgree == CardsAndEventsAgree /\ EventUnitsAgree /\ RewardPreviewIsOfTheRewards

NoneBelowZero(rows) == \A r \in Range(rows) : Quantity(r) >= 0

MaterialUsesMatchBlueprintsIn[c \in Content] ==
  LET db == Db[c]
      Costs(f) == FixtureBlueprint(db, f.id).blueprint.materialCosts
  IN  \A m \in Identified(db, "mysekaimaterials"), f \in Identified(db, "mysekaifixtures") :
        LET used == {u \in Range(MaterialUses(db, m.id)) : u.fixture.id = f.id}
            cost == IF FixtureBlueprint(db, f.id) = <<>> THEN {}
                    ELSE {x \in Range(Costs(f)) : x.material.id = m.id}
        IN  /\ cost # {} => used # {}
            /\ NoneBelowZero(ListAll(db, "mysekaiblueprintmaterialcosts"))
                 => \A x \in cost, u \in used : x.quantity <= u.quantity
            /\ used # {} => FixtureBlueprints(db, f.id) # <<>>

\* A material a fixture's blueprint asks for says that the fixture uses it, as
\* much of it at least when no cost is negative, and only fixtures that can be
\* crafted are named.
MaterialUsesMatchBlueprints == \A c \in Served : MaterialUsesMatchBlueprintsIn[c]

\* What a mission shows of its levels, of which there are none when they are
\* refused.
Previews(mission, outcome, all) ==
  IF outcome # 200 THEN "parameterGroup" \notin DOMAIN mission
  ELSE /\ "parameterGroup" \in DOMAIN mission
       /\ IsPrefix(mission.parameterGroup.previewLevels, all)
       /\ mission.parameterGroup.totalLevels = Len(all)
       /\ mission.parameterGroup.lastLevel = Last(all)

\* A mission previews the levels of its group as the list of the levels, asked
\* for as l asks, shows them.
LevelsShown(Reply(_), l, mission) ==
  LET levels == [l EXCEPT !.id = Field(mission, "parameterGroupId")]
  IN  Previews(mission, Reply(levels).status, AllItems(Reply, levels))

MissionLists(Reply(_)) ==
  {q \in Paged : /\ q.route = "missions/list" /\ q.kind = "characterMissionV2s"
                 /\ Reply(q).status = 200}
LevelLists == {l \in Paged : l.route = "missions/levels"}
TotalPages(Reply(_), q) == PagesOf(Reply, q)[1].pagination.totalPages

MissionsPreview(Reply(_), c) ==
  \A q \in MissionLists(Reply), l \in LevelLists :
    /\ \A r \in Identified(Db[c], "charactermissionv2s") :
         LevelsShown(Reply, l, Reply(ByID(q, "missions/id", r.id)).body)
    /\ \A k \in 1 .. TotalPages(Reply, q) :
         LET items == PagesOf(Reply, q)[k].items
         IN  \A i \in DOMAIN items : Alone(items, i) => LevelsShown(Reply, l, items[i])

ListedMissionsPreview(Reply(_)) ==
  \A q \in MissionLists(Reply), l \in LevelLists :
    \A item \in Range(AllItems(Reply, q)) : LevelsShown(Reply, l, item)
ListedMissionsPreviewIn[c \in Content] ==
  \A t \in Moment : ListedMissionsPreview(LAMBDA q : Replied(c, t, q))

\* Every mission of a list previews the levels of its group as the list of the
\* levels shows them, whichever missions are on its page.  It is what the test
\* of the preview expects of a page with one mission; a page with two missions
\* of a group shows the levels twice (resolveMissionParameterGroups asks for the
\* group twice).
ListedMissionsPreviewTheirGroup == \A c \in Served : ListedMissionsPreviewIn[c]

\* all is split into two.
IsSplit(all, part, rest) == all = part \cup rest /\ part \cap rest = {}

\* The requests of a stamp list that differ in the sources only, in no order.
FromSources(q, sources) == [q EXCEPT !.sources = sources, !.sort = None]
NamedSources == {StampPurposeSources[p] : p \in DOMAIN StampPurposeSources}

SourcesCover(Reply(_)) ==
  \A q \in {p \in Paged : p.route = "stamps/list"} :
    IsSplit(Range(AllItems(Reply, FromSources(q, {}))),
            Range(AllItems(Reply, FromSources(q, NamedSources))),
            Range(AllItems(Reply, FromSources(q, {"other"}))))

PreviewsAndSourcesAgree(Reply(_), c) == MissionsPreview(Reply, c) /\ SourcesCover(Reply)
PreviewsAndSourcesAgreeIn[c \in Content] ==
  \A t \in Moment : PreviewsAndSourcesAgree(LAMBDA q : Replied(c, t, q), c)

\* What an answer sums up or previews is what the answers it draws on show: a
\* material its uses; a mission the levels of its parameter group as the list
\* of the levels shows them, rewards included, and none the list refuses, asked
\* for by id or listed on a page where no other mission has the group; and
\* every stamp is found under a source, under "other" exactly when no named
\* source has it.
AggregatesMatchTheirParts ==
  MaterialUsesMatchBlueprints /\ \A c \in Served : PreviewsAndSourcesAgreeIn[c]

IDsOf(items) == [i \in DOMAIN items |-> Field(items[i], "id")]

AnswersEach(q, answer) ==
  LET asked == Distinct(q.ids)
      found == IDsOf(IF q.route = "cards/batch" THEN answer ELSE answer.items)
  IN  /\ found = Those(asked, Range(found))
      /\ Cardinality(Range(found)) = Len(found)
      /\ q.route # "cards/batch" => answer.missingIds = Those(asked, Range(asked) \ Range(found))

IsAnsweredEach(q, answer) == answer.status = 200 => AnswersEach(q, answer.body)
BatchesAnswerEveryIdIn[c \in Content] ==
  \A t \in Moment : \A q \in {p \in Request : p.route \in BatchRoutes} :
    IsAnsweredEach(q, Replied(c, t, q))

\* A batch answers for each id once, in the order asked: with the record, or as
\* missing.
BatchesAnswerEveryId == \A c \in Served : BatchesAnswerEveryIdIn[c]

-----------------------------------------------------------------------------
(* Regions                                                                  *)

\* The regions said to have a record are those that answer for it by id.
AvailabilityMatchesReads ==
  \A q \in OfRoute("cards/id") \cup OfRoute("honors/id") \cup OfRoute("lookups/id"), r \in Region :
    r \in Availability(q.entity, q.id) <=> Answer([q EXCEPT !.region = r]).status = 200

\* While the pod is ready, a region without a pending sync is served: no
\* handler refuses it as not ready, and its version is listed.
ReadyMeansServed ==
  Ready(World).status = 200 =>
    \A r \in Region \ Ready(World).body.pendingSync :
      /\ \A q \in Request : ~RegionNotReady([q EXCEPT !.region = r])
      /\ r \in DOMAIN Versions(World).body /\ VersionByRegion(World, r).status = 200

-----------------------------------------------------------------------------
(* The cache                                                                *)

TypeOK ==
  /\ now \in Moment
  /\ status \in [Region -> {"running", "success", "failed"}]
  /\ stored \in [Region -> Content] /\ rev \in [Region -> 0 .. MaxRev]
  /\ Cardinality(entries) <= MaxEntries
  /\ \A e \in entries : e.expires > now /\ e.expires <= now + TTL /\ e.rev <= rev[e.request.region]

\* What the detail of an event takes from other regions: who else has the
\* event, and the boxes jp lends.
Borrowed == {"availableRegions", "previewRanges", "hasMore"}
OwnPart(q, body) == IF q.route = "events/detail" THEN Without(body, Borrowed) ELSE body

\* A cached answer that would be served is the one the handler would give now,
\* but for what an event's detail borrows: no event has started or ended, and
\* no item come out, that the lifetime it reported did not foresee.
CachedAnswersAreCurrent ==
  \A e \in entries :
    e \in Hits(e.request) =>
      OwnPart(e.request, e.body) = OwnPart(e.request, Answer(e.request).body)

=============================================================================
