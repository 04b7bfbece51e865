---------------------------- MODULE LookupQueries ----------------------------
(***************************************************************************)
(* The plain lookups (internal/transport/http/handlers/lookups): a list, a *)
(* record by id, units and their members, batches of characters, comics    *)
(* and photo decorations.  q.entity names the collection of a plain lookup.*)
(***************************************************************************)
EXTENDS QueryBase

-----------------------------------------------------------------------------
(* Lists                                                                    *)

LookupEntities ==
  {"unitprofiles", "gamecharacterunits", "gamecharacters", "worldblooms", "unitstories",
   "eventstories", "characterprofiles", "cardepisodes", "actionsets", "specialstories",
   "character2ds", "mobcharacters", "subgamecharacters", "unitstoryepisodegroups", "areas"}
WithConditions == {"cardepisodes", "actionsets"}
Filterable == [eventstories |-> {"eventId"}, cardepisodes |-> {"cardId"}]

Expanded(db, entity, items) ==
  IF entity \in WithConditions THEN MapSeq(items, LAMBDA r : WithReleaseCondition(db, r)) ELSE items

\* q.numbers: field -> accepted numbers, for the fields that are filterable.
LookupList(db, q, now) ==
  LET all     == ListAll(db, q.entity)
      matched == FilterRecordsByNumbers(Sorted(Visible(all, q, now), q), q.numbers)
      paged   == ListPage(db, q.entity, matched, DOMAIN q.numbers # {}, q)
  IN  IF q.size > MaxPageSize THEN Fail(400)
      ELSE OkUntil([paged EXCEPT !.items = Expanded(db, q.entity, @)],
                   IF q.spoiler THEN 0 ELSE NextReveal(all, now))

LookupByID(db, q) ==
  LET r == GetByID(db, q.entity, q.id) IN IF r = None THEN Fail(404) ELSE Ok(r)

-----------------------------------------------------------------------------
(* Units and characters                                                     *)

UnitProfile(db, unit) ==
  LET hits == Selected(ListAll(db, "unitprofiles"), LAMBDA r : Get(r, "unit") = unit)
  IN  IF hits = <<>> THEN None ELSE hits[1]

UnitProfileMembers(db, unit) ==
  LET members == Selected(ListAll(db, "gamecharacterunits"),
        LAMBDA r : Get(r, "unit") = unit /\ GetByID(db, "gamecharacters", Get(r, "gameCharacterId")) # None)
      Member(r) == Merge(Pick(r, {"id", "gameCharacterId", "unit", "colorCode"}),
                         Pick(GetByID(db, "gamecharacters", r.gameCharacterId), {"firstName", "givenName"}))
  IN  MapSeq(StableSort(members, LAMBDA a, b : a.gameCharacterId < b.gameCharacterId), Member)

UnitProfileRegions(world, unit) ==
  {r \in SuccessfulSyncRegions(world) : UnitProfile(world[r].db, unit) # None}

\* The first profile of the character.
CharacterProfile(db, id) ==
  LET hits == ListByIndex(db, "characterprofiles", "characterId", id)
  IN  IF hits = <<>> THEN Fail(404) ELSE Ok(Pick(hits[1], {"birthday", "hobby"}))

CharacterTypeEntity(type) ==
  CASE type \in {None, "game_character"} -> "gamecharacters"
    [] type = "mob" -> "mobcharacters"
    [] type = "sub_game_character" -> "subgamecharacters"
    [] OTHER -> None

DisplayName(db, type, id) ==
  LET entity == CharacterTypeEntity(type)
      r == IF entity = None THEN None ELSE GetByID(db, entity, id)
  IN  CASE r = None -> <<>>
        [] r # None /\ entity = "gamecharacters" ->
             Present([displayName |->
               IF Get(r, "firstName") = None THEN Get(r, "givenName")
               ELSE IF Get(r, "givenName") = None THEN r.firstName ELSE <<r.firstName, r.givenName>>])
        [] OTHER -> Present([displayName |-> Get(r, "name")])

\* Distinct ids in the order asked; one that is not stored, or is about no
\* character, is reported as missing.
CharacterBatch(db, entity, ids, limit, build(_)) ==
  LET asked == Distinct(ids)
      Shown(id) == LET r == GetByID(db, entity, id) IN r # None /\ Get(r, "characterId") # None
  IN  IF ids = <<>> \/ Len(ids) > limit THEN Fail(400)
      ELSE Ok([items      |-> MapSeq(Selected(asked, Shown), LAMBDA id : build(GetByID(db, entity, id))),
               missingIds |-> Selected(asked, LAMBDA id : ~Shown(id))])

Character2D(db, r) ==
  Merge(Pick(r, {"id", "characterId", "characterType", "unit", "assetName"}),
        DisplayName(db, Get(r, "characterType"), r.characterId))
Character3D(r) == Pick(r, {"id", "characterId", "unit", "name"})

Character2Ds(db, ids) ==
  CharacterBatch(db, "character2ds", ids, MaxPageSize, LAMBDA r : Character2D(db, r))
Character3Ds(db, ids) == CharacterBatch(db, "character3ds", ids, MaxPageSize, Character3D)

-----------------------------------------------------------------------------
(* Comics and photo decorations                                             *)

IsComic(r) == Get(r, "assetbundleName") # None
ProjectComic(r) == Pick(r, {"id", "title", "assetbundleName", "fromUserRank", "toUserRank"})
ComicProjection == {"id", "title", "assetbundleName", "fromUserRank", "toUserRank"}

ComicsByID(db, id) ==
  LET r == GetByID(db, "tips", id)
  IN  IF r = None \/ ~IsComic(r) THEN Fail(404) ELSE Ok(ProjectComic(r))

ComicsList(db, q) ==
  LET comics == Selected(ProjectionRows(db, "tips", ComicProjection), IsComic)
  IN  TypedPage(StableSort(comics, LAMBDA a, b : a.id < b.id), q, ProjectComic)

PhotoDecoration(r) == Pick(r, {"id", "seq", "name", "assetbundleName"})
PhotoDecorationsList(db, q) == TypedPage(ListAll(db, "mysekaiphotodecorations"), q, PhotoDecoration)
PhotoDecorationsByID(db, id) ==
  LET r == GetByID(db, "mysekaiphotodecorations", id)
  IN  IF r = None THEN Fail(404) ELSE Ok(PhotoDecoration(r))

LookupAnswer(world, q, now) ==
  LET db == world[q.region].db
  IN  CASE q.route = "lookups/list" -> LookupList(db, q, now)
        [] q.route = "lookups/id" -> LookupByID(db, q)
        [] q.route = "lookups/unit" ->
             IF UnitProfile(db, q.unit) = None THEN Fail(404) ELSE Ok(UnitProfile(db, q.unit))
        [] q.route = "lookups/members" ->
             IF UnitProfile(db, q.unit) = None THEN Fail(404) ELSE Ok(UnitProfileMembers(db, q.unit))
        [] q.route = "lookups/unit-regions" -> Ok(UnitProfileRegions(world, q.unit))
        [] q.route = "lookups/profile" -> CharacterProfile(db, q.id)
        [] q.route = "lookups/character2ds" -> Character2Ds(db, q.ids)
        [] q.route = "lookups/character3ds" -> Character3Ds(db, q.ids)
        [] q.route = "lookups/comics" -> ComicsList(db, q)
        [] q.route = "lookups/comic" -> ComicsByID(db, q.id)
        [] q.route = "lookups/photos" -> PhotoDecorationsList(db, q)
        [] q.route = "lookups/photo" -> PhotoDecorationsByID(db, q.id)

=============================================================================
