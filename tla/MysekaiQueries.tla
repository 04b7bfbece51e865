---------------------------- MODULE MysekaiQueries ----------------------------
(***************************************************************************)
(* The MySekai handlers (lookups/mysekai_*.go): fixtures and their filters,*)
(* materials and what they are used by, music records, shops.              *)
(***************************************************************************)
EXTENDS QueryBase

\* The present values of a field, first of each.
DistinctField(items, field) ==
  Distinct(Selected(MapSeq(items, LAMBDA r : Get(r, field)), LAMBDA value : value # None))

\* A field that lookupInt64 reads, or None.
NumberOf(r, field) == IF Get(r, field) \in Int THEN r[field] ELSE None

SeqThenId(a, b) ==
  ValueBefore(NumberOf(a, "seq"), NumberOf(b, "seq"), FALSE, IdBefore(Get(a, "id"), Get(b, "id")))
BySeqThenId(items) == StableSort(items, SeqThenId)

Ascending(ids) == StableSort(Distinct(ids), LAMBDA a, b : a < b)

\* The rows whose type is asked for.
ProjectionRowsByType(db, entity, fields, type, types) ==
  Selected(FirstRows(db, entity, fields), LAMBDA r : types = {} \/ Get(r, type) \in types)

\* The stored ones of the ids, in their order.
JoinedRecords(db, entity, ids) == Selected(GetByIDs(db, entity, ids), LAMBDA r : r # None)

-----------------------------------------------------------------------------
(* Fixtures                                                                 *)

FixtureFields == {"id", "seq", "name", "mainGenreId", "subGenreId", "tagGroup"}

\* The tag group holds numbered slots.
FixtureTagIDs(r) ==
  LET group == Items(r, "tagGroup")
  IN  Distinct(Selected(MapSeq(SetToSortSeq(DOMAIN group, <), LAMBDA s : group[s]), LAMBDA id : id # None))

\* A fixture without a name has the empty one, the least of all.
EmptyName == 0

FixtureItem(r) ==
  [f \in {"tagIds"} \cup (FixtureFields \ {"tagGroup"}) |->
     CASE f = "tagIds" -> FixtureTagIDs(r)
       [] f = "name" -> IF Get(r, "name") = None THEN EmptyName ELSE r.name
       [] OTHER -> Get(r, f)]

FixtureItems(db) == MapSeq(FirstRows(db, "mysekaifixtures", FixtureFields), FixtureItem)

\* q.tagIds must all be there; q.mainGenres and q.subGenres are alternatives.
FixtureMatches(item, q) ==
  /\ q.tagIds \subseteq Range(item.tagIds)
  /\ q.mainGenres = {} \/ item.mainGenreId \in q.mainGenres
  /\ q.subGenres = {} \/ item.subGenreId \in q.subGenres
  /\ q.name = {} \/ item.name \in q.name

FixturesList(db, q) ==
  LET matched == Selected(FixtureItems(db), LAMBDA item : FixtureMatches(item, q))
  IN  TypedPage(TypedSorted(matched, q), q, LAMBDA item : item)

Genre(r) == Pick(r, {"id", "name"})

\* By externalId when both tags have one and they differ, else by id.
ExternalBefore(x, y, tie) == IF x # None /\ y # None /\ x # y THEN x < y ELSE tie
TagBefore(a, b) == ExternalBefore(Get(a, "externalId"), Get(b, "externalId"), a.id < b.id)

FixtureFilterTagTypes == <<"series", "unit", "game_character">>

FixtureFilters(db) ==
  LET items == FixtureItems(db)
      main  == Ascending(DistinctField(items, "mainGenreId"))
      used  == UNION {Range(items[i].tagIds) : i \in DOMAIN items}
      Subs(id) == JoinedRecords(db, "mysekaifixturesubgenres",
                    Ascending(DistinctField(Selected(items, LAMBDA r : r.mainGenreId = id), "subGenreId")))
      TagsOf(type) ==
        StableSort(Selected(ListByIndex(db, "mysekaifixturetags", "mysekaiFixtureTagType", type),
                             LAMBDA t : t.id \in used), TagBefore)
  IN  [mainGenres |-> MapSeq(JoinedRecords(db, "mysekaifixturemaingenres", main),
         LAMBDA g : Merge(Genre(g), [subGenres |-> MapSeq(Subs(g.id), Genre)])),
       tags |-> ConcatAll(MapSeq(FixtureFilterTagTypes, TagsOf))]

\* How much; nothing when no number says so.
Quantity(r) == IF NumberOf(r, "quantity") = None THEN 0 ELSE r.quantity

\* Costs and yields: those whose material is stored.
MaterialQuantities(db, items) ==
  Selected(MapSeq(items, LAMBDA r :
              [material |-> PickOrNull(GetByID(db, "mysekaimaterials", Get(r, "mysekaiMaterialId")), {"id", "name"}),
               quantity |-> Quantity(r)]),
            LAMBDA m : m.material # None)

FixtureBlueprints(db, id) ==
  Selected(ListByIndex(db, "mysekaiblueprints", "craftTargetId", id),
            LAMBDA b : Get(b, "mysekaiCraftType") = "mysekai_fixture")

\* The first blueprint that makes the fixture.
ShownBlueprint(db, b) ==
  IF Get(b, "id") = None THEN <<>>
  ELSE [blueprint |-> [id |-> b.id, materialCosts |->
         MaterialQuantities(db, BySeqThenId(
           ListByIndex(db, "mysekaiblueprintmaterialcosts", "mysekaiBlueprintId", b.id)))]]

FixtureBlueprint(db, id) == ShownBlueprint(db, FirstOf(FixtureBlueprints(db, id)))

ShownBonus(db, bonus) ==
  IF bonus = None THEN <<>>
  ELSE [characterBonus |-> [bonusRate |-> Get(bonus, "bonusRate"),
         gameCharacterIds |->
           DistinctField(ListByIndex(db, "mysekaifixturecharactergroups", "groupId", Get(bonus, "groupId")),
                         "gameCharacterId")]]

CharacterBonus(db, r) ==
  ShownBonus(db, GetByID(db, "mysekaifixturecharacterbonuses", Get(r, "characterBonusId")))

FixtureDetail(db, r, item) ==
  LET GenreOf(field, entity) == PickOrNull(GetByID(db, entity, Get(r, field)), {"id", "name"})
  IN  Merge(Merge(item, Merge(FixtureBlueprint(db, r.id), CharacterBonus(db, r))),
        [mainGenre |-> GenreOf("mainGenreId", "mysekaifixturemaingenres"),
         subGenre  |-> GenreOf("subGenreId", "mysekaifixturesubgenres"),
         tags      |-> JoinedRecords(db, "mysekaifixturetags", item.tagIds),
         disassembleMaterials |-> MaterialQuantities(db, BySeqThenId(
           ListByIndex(db, "mysekaifixturedisassemblematerials", "mysekaiFixtureId", r.id)))])

-----------------------------------------------------------------------------
(* Materials                                                                *)

MaterialFields == {"id", "seq", "name", "mysekaiMaterialType", "mysekaiSiteIds"}

Material(db, r) ==
  Merge(Pick(r, MaterialFields \ {"mysekaiSiteIds"}),
        [sites |-> MapSeq(JoinedRecords(db, "mysekaisites", Distinct(Items(r, "mysekaiSiteIds"))), Genre),
         gameCharacterIds |-> DistinctField(
           ListByIndex(db, "mysekaimaterialgamecharacterrelations", "mysekaiMaterialId", r.id), "gameCharacterId")])

MaterialsList(db, q) ==
  TypedPage(ProjectionRowsByType(db, "mysekaimaterials", MaterialFields, "mysekaiMaterialType", q.types), q,
       LAMBDA r : Material(db, r))

\* The fixture that a cost goes into, if its blueprint makes one.
CostTarget(db, c) ==
  LET b == GetByID(db, "mysekaiblueprints", Get(c, "mysekaiBlueprintId"))
  IN  IF Get(b, "mysekaiCraftType") = "mysekai_fixture" /\ Get(b, "craftTargetId") \in Nat \ {0}
        THEN b.craftTargetId ELSE None

\* What some costs come to for a fixture, over all of its blueprints.
SumAll(ns) ==
  LET upTo[n \in Nat] == IF n = 0 THEN 0 ELSE upTo[n - 1] + ns[n]
  IN  upTo[Len(ns)]
UsedFor(db, costs, fixture) ==
  SumAll([i \in DOMAIN costs |-> IF CostTarget(db, costs[i]) = fixture THEN Quantity(costs[i]) ELSE 0])

\* The fixtures a material makes, over every blueprint, with the summed quantity.
MaterialUses(db, id) ==
  LET costs   == ListByIndex(db, "mysekaiblueprintmaterialcosts", "mysekaiMaterialId", id)
      targets == Selected([i \in DOMAIN costs |-> CostTarget(db, costs[i])], LAMBDA target : target # None)
  IN  MapSeq(JoinedRecords(db, "mysekaifixtures", Ascending(targets)),
             LAMBDA f : [fixture |-> Pick(f, {"id", "name"}), quantity |-> UsedFor(db, costs, f.id)])

MaterialDetail(db, r) == Merge(Material(db, r), [usedBy |-> MaterialUses(db, r.id)])

-----------------------------------------------------------------------------
(* Music records                                                            *)

RecordFields == {"id", "externalId", "mysekaiMusicTrackType"}
TrackFields  == {"id", "title", "musicSoundTrackCategoryId"}
MusicFields  == {"id", "title"} \cup SpoilerTimestampKeys

RowOf(rows, id) == FirstOf(Selected(rows, LAMBDA r : r.id = id))

\* A record shows what it names: a song of songs, or a sound track.
RecordsOfSongs(db, songs) ==
  LET Shown(r) ==
        CASE Get(r, "mysekaiMusicTrackType") = "music" ->
               Only("music", PickOrNull(RowOf(songs, Get(r, "externalId")), {"id", "title"}))
          [] Get(r, "mysekaiMusicTrackType") = "music_sound_track" ->
               Only("soundTrack", RowOf(FirstRows(db, "musicsoundtracks", TrackFields), Get(r, "externalId")))
          [] OTHER -> <<>>
      records == MapSeq(ProjectionRows(db, "mysekaimusicrecords", RecordFields), LAMBDA r : Merge(r, Shown(r)))
      named   == Selected(records, LAMBDA r : "id" \in DOMAIN r /\ DOMAIN r \cap {"music", "soundTrack"} # {})
  IN  FirstOfEachID(named)

\* The songs that are out.
MysekaiMusicRecords(db, spoiler, now) ==
  LET songs == FirstRows(db, "musics", MusicFields)
  IN  RecordsOfSongs(db, IF spoiler THEN songs ELSE FilterSpoilerItems(songs, now))

TrackCategory(r) == Get(Get(r, "soundTrack"), "musicSoundTrackCategoryId")

MusicRecordMatches(r, q) ==
  /\ q.types = {} \/ r.mysekaiMusicTrackType \in q.types
  /\ q.trackCategories = {} \/ TrackCategory(r) \in q.trackCategories
  /\ q.name = {} \/ Get(IF "music" \in DOMAIN r THEN r.music ELSE r.soundTrack, "title") \in q.name

MusicRecordsList(db, q, now) ==
  LET songs   == FirstRows(db, "musics", MusicFields)
      matched == Selected(MysekaiMusicRecords(db, q.spoiler, now), LAMBDA r : MusicRecordMatches(r, q))
  IN  [TypedPage(matched, q, LAMBDA r : r) EXCEPT
         !.until = IF q.spoiler \/ q.size > MaxPageSize THEN 0 ELSE NextReveal(songs, now)]

\* Every category a sound track of some record has, unreleased songs or not.
MusicRecordFilters(db, now) ==
  LET all == MysekaiMusicRecords(db, TRUE, now)
      ids == Selected(MapSeq(all, TrackCategory), LAMBDA c : c # None)
  IN  MapSeq(JoinedRecords(db, "musicsoundtrackcategories", Ascending(ids)), Genre)

-----------------------------------------------------------------------------
(* Shops                                                                    *)

ShopFields == {"id", "seq", "mysekaiShopType", "resourceBoxId"}
ShopResourceEntities == [mysekai_material |-> "mysekaimaterials", mysekai_tool |-> "mysekaitools"]

ShopResource(db, detail) ==
  LET type == Get(detail, "resourceType")
  IN  Merge(Pick(detail, {"resourceType", "resourceId", "resourceQuantity"}),
            IF type \notin DOMAIN ShopResourceEntities THEN <<>>
            ELSE Pick(GetByID(db, ShopResourceEntities[type], Get(detail, "resourceId")), {"name"}))

ShopItem(db, r) ==
  LET boxes == Selected(ListByIndex(db, "resourceboxes", "id", Get(r, "resourceBoxId")),
                         LAMBDA b : Get(b, "resourceBoxPurpose") = "mysekai_shop")
      details == Items(LastOf(boxes), "details")
      Cost(c) == Pick(c, {"resourceType", "resourceId", "quantity"})
      BySeqOnly == StableSort(details,
        LAMBDA a, b : Get(a, "seq") # None /\ (Get(b, "seq") = None \/ a.seq < b.seq))
  IN  Merge(Pick(r, ShopFields \ {"resourceBoxId"}),
        [costs     |-> MapSeq(BySeqThenId(ListByIndex(db, "mysekaishopcosts", "mysekaiShopId", r.id)), Cost),
         resources |-> MapSeq(BySeqOnly, LAMBDA d : ShopResource(db, d))])

ShopsList(db, q) ==
  TypedPage(ProjectionRowsByType(db, "mysekaishops", ShopFields, "mysekaiShopType", q.types), q,
       LAMBDA r : ShopItem(db, r))

MysekaiAnswer(world, q, now) ==
  LET db == world[q.region].db
  IN  CASE q.route = "fixtures/list" -> FixturesList(db, q)
        [] q.route = "fixtures/filters" -> Ok(FixtureFilters(db))
        [] q.route = "fixtures/id" -> Found(GetByID(db, "mysekaifixtures", q.id), LAMBDA r : FixtureDetail(db, r, FixtureItem(r)))
        [] q.route = "materials/list" -> MaterialsList(db, q)
        [] q.route = "materials/id" -> Found(GetByID(db, "mysekaimaterials", q.id), LAMBDA r : MaterialDetail(db, r))
        [] q.route = "musicrecords/list" -> MusicRecordsList(db, q, now)
        [] q.route = "musicrecords/filters" -> Ok(MusicRecordFilters(db, now))
        [] q.route = "shops/list" -> ShopsList(db, q)

=============================================================================
