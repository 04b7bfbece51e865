---------------------------- MODULE CardQueries ----------------------------
(***************************************************************************)
(* The card handlers (internal/transport/http/handlers/cards).  Bonus      *)
(* rates are in tenths of a percent, as the smallest rate is 0.5.          *)
(***************************************************************************)
EXTENDS QueryBase

-----------------------------------------------------------------------------
(* Cards and their joins                                                    *)

CardProjection ==
  {"id", "seq", "characterId", "cardRarityType", "attr", "supportUnit", "skillId",
   "cardSupplyId", "prefix", "releaseAt", "archivePublishedAt"}

\* A reference the record has becomes the record it names, or null.
Joined(db, r, idField, field, entity) ==
  IF idField \notin DOMAIN r THEN <<>>
  ELSE [f \in {field} |-> GetByID(db, entity, r[idField])]

\* The first rarity of the card's type.
CardRarity(db, r) ==
  IF "cardRarityType" \notin DOMAIN r THEN <<>>
  ELSE [cardRarity |-> FirstOf(ListByIndex(db, "cardrarities", "cardRarityType", r.cardRarityType))]

SanitizedCharacter(db, r) ==
  LET Sanitized(c) == IF c = None THEN None ELSE Without(c, {"figure", "modelName"})
  IN  IF "characterId" \notin DOMAIN r THEN <<>>
      ELSE [character |-> Sanitized(GetByID(db, "gamecharacters", r.characterId))]

BuildCardBase(db, r) ==
  Merge(Pick(r, {"id", "seq", "attr", "supportUnit", "prefix", "releaseAt", "archivePublishedAt"}),
    Merge(Joined(db, r, "cardSupplyId", "cardSupply", "cardsupplies"),
    Merge(Joined(db, r, "skillId", "skill", "skills"),
    Merge(SanitizedCharacter(db, r), CardRarity(db, r)))))

CardParams(r) == Pick(r, {"id", "specialTrainingPower1BonusFixed", "cardParameters"})

-----------------------------------------------------------------------------
(* Lists                                                                    *)

\* A filter value never matches a missing field.
InSet(value, wanted) == value # None /\ value \in wanted

FieldOf(db, entity, id, field) == Get(GetByID(db, entity, id), field)

CardFilters == {"name", "units", "characters", "attrs", "rarities", "supportUnits", "skills", "types", "supplies"}
CardFiltered(q) == q.cutIn \/ \E f \in CardFilters : q[f] # {}

\* A rarity may be asked for without the word.
RarityNumber ==
  [rarity_1 |-> "1", rarity_2 |-> "2", rarity_3 |-> "3", rarity_4 |-> "4", rarity_birthday |-> "birthday"]

\* q.name holds the prefixes that a text asked for is part of, q.supplies the
\* supply ids among the types asked for.
CardMatches(db, r, q) ==
  /\ q.name = {} \/ InSet(Get(r, "prefix"), q.name)
  /\ q.characters = {} \/ InSet(Get(r, "characterId"), q.characters)
  /\ q.units = {} \/ InSet(FieldOf(db, "gamecharacters", Get(r, "characterId"), "unit"), q.units)
  /\ q.attrs = {} \/ InSet(Get(r, "attr"), q.attrs)
  /\ \/ q.rarities = {}
     \/ InSet(Get(r, "cardRarityType"), q.rarities)
     \/ InSet(Get(RarityNumber, Get(r, "cardRarityType")), q.rarities)
  /\ q.supportUnits = {} \/ InSet(Get(r, "supportUnit"), q.supportUnits)
  /\ q.skills = {} \/ InSet(FieldOf(db, "skills", Get(r, "skillId"), "descriptionSpriteName"), q.skills)
  /\ \/ q.types = {} /\ q.supplies = {}
     \/ InSet(Get(r, "cardSupplyId"), q.supplies)
     \/ InSet(FieldOf(db, "cardsupplies", Get(r, "cardSupplyId"), "cardSupplyType"), q.types)
  /\ q.cutIn => ListByIndex(db, "another3dmvcutins", "cardId", r.id) # <<>>

\* Filtered, sorted and spoiler-free lists are made from the projection,
\* plain pages from the records.
CardList(db, q, now) ==
  LET rows    == ProjectionRows(db, "cards", CardProjection)
      matched == Selected(Visible(rows, q, now), LAMBDA r : CardMatches(db, r, q))
      paged   == ListPage(db, "cards", Sorted(matched, q), CardFiltered(q), q)
  IN  OkUntil([paged EXCEPT !.items = MapSeq(@, LAMBDA r : BuildCardBase(db, r))],
              IF q.spoiler THEN 0 ELSE NextReveal(rows, now))

CardBrief(r) == Pick(r, {"id", "prefix", "attr", "cardRarityType"})

\* Mutant: an id asked twice is answered twice.
CardBatchRepeats(db, ids) ==
  Ok(MapSeq(Selected(GetByIDs(db, "cards", ids), LAMBDA r : r # None), CardBrief))

\* Batch: distinct ids in the order asked, missing cards left out.
CardBatch(db, ids) ==
  IF Cardinality(Range(ids)) > MaxPageSize THEN Fail(400)
  ELSE Ok(MapSeq(Selected(GetByIDs(db, "cards", Distinct(ids)), LAMBDA r : r # None), CardBrief))

-----------------------------------------------------------------------------
(* The bonus a card brings in an event                                      *)

FirstVirtualSinger == 21
RaisedSpecialBonus == 135

\* The unit of the deck bonus row, when the row is about this character.
RowUnit(db, row, characterId) ==
  LET unit == GetByID(db, "gamecharacterunits", Get(row, "gameCharacterUnitId"))
  IN  IF Get(unit, "gameCharacterId") # characterId THEN None ELSE Get(unit, "unit")

UnitMatches(unit, card) ==
  /\ unit # None
  /\ card.characterId < FirstVirtualSinger \/ unit = "piapro" \/ Get(card, "supportUnit") = unit

\* A row names an attribute, a character, or both.
RowMatches(db, row, card) ==
  /\ {"gameCharacterUnitId", "cardAttr"} \cap DOMAIN row # {}
  /\ "cardAttr" \in DOMAIN row => row.cardAttr = Get(card, "attr")
  /\ "gameCharacterUnitId" \in DOMAIN row => UnitMatches(RowUnit(db, row, card.characterId), card)

\* The first matching row counts.
DeckBonus(rows, db, card) ==
  LET row == FirstOf(Selected(rows, LAMBDA r : RowMatches(db, r, card)))
  IN  IF row = None THEN 0 ELSE row.bonusRate

SpecialUnit(unit, card) == unit # None /\ (unit = "piapro" \/ Get(card, "supportUnit") = "none")

SpecialBonus(rows, db, eventId, card) ==
  IF /\ card.characterId >= FirstVirtualSinger
     /\ \E row \in Range(rows) : SpecialUnit(RowUnit(db, row, card.characterId), card)
    THEN IF eventId >= RaisedSpecialBonus THEN 250 ELSE 150
    ELSE 0

\* Bonus ranges of the master ranks, by the last event they apply to.
MasterRankBonus ==
  <<[upTo |-> 35,  rarity_1 |-> <<0, 0>>, rarity_2 |-> <<0, 0>>,  rarity_3 |-> <<0, 0>>,
     rarity_4 |-> <<0, 0>>,     rarity_birthday |-> <<0, 0>>],
    [upTo |-> 53,  rarity_1 |-> <<0, 5>>, rarity_2 |-> <<0, 10>>, rarity_3 |-> <<0, 50>>,
     rarity_4 |-> <<0, 100>>,   rarity_birthday |-> <<0, 75>>],
    [upTo |-> 107, rarity_1 |-> <<0, 5>>, rarity_2 |-> <<0, 10>>, rarity_3 |-> <<0, 50>>,
     rarity_4 |-> <<0, 150>>,   rarity_birthday |-> <<0, 100>>],
    [upTo |-> 999, rarity_1 |-> <<0, 5>>, rarity_2 |-> <<0, 10>>, rarity_3 |-> <<0, 50>>,
     rarity_4 |-> <<100, 250>>, rarity_birthday |-> <<50, 150>>]>>

MasterRankRange(eventId, rarity) ==
  Get(FirstOf(Selected(MasterRankBonus, LAMBDA v : eventId <= v.upTo)), rarity)

RangeOver(base, ranks) ==
  IF ranks = None THEN <<>>
  ELSE [finalBonusRateMin |-> base + ranks[1], finalBonusRateMax |-> base + ranks[2]]

\* buildCardEventBonusRange: no range without a character or a known rarity.
BonusRange(db, card, row) ==
  LET Base(rows) == row.bonusRate + DeckBonus(rows, db, card) + SpecialBonus(rows, db, row.eventId, card)
  IN  IF Get(card, "characterId") = None THEN <<>>
      ELSE RangeOver(Base(ListByIndex(db, "eventdeckbonuses", "eventId", row.eventId)),
                     MasterRankRange(row.eventId, Get(card, "cardRarityType")))

CardEvents(db, card) ==
  LET Item(row) ==
        Merge(WithReleaseCondition(db, row),
          Merge(Only("event", PickOrNull(GetByID(db, "events", row.eventId), {"id", "name", "startAt"})),
                BonusRange(db, card, row)))
  IN  MapSeq(ListByIndex(db, "eventcards", "cardId", card.id), Item)

-----------------------------------------------------------------------------
(* One card                                                                 *)

CardEpisodes(db, id) ==
  MapSeq(ListByIndex(db, "cardepisodes", "cardId", id), LAMBDA r : WithReleaseCondition(db, r))

\* The gachas that pick the card up, through the gachaPickups.cardId index.
PicksUp(gacha, id) == \E i \in DOMAIN Items(gacha, "gachaPickups") : Get(gacha.gachaPickups[i], "cardId") = id
CardGachas(db, id) ==
  MapSeq(Selected(ListAll(db, "gachas"), LAMBDA g : PicksUp(g, id)),
         LAMBDA g : Pick(g, {"id", "name", "startAt"}))

CardDetail(db, card) ==
  Ok([card |-> BuildCardBase(db, card), params |-> CardParams(card),
      episodes |-> CardEpisodes(db, card.id), events |-> CardEvents(db, card),
      gachas |-> CardGachas(db, card.id)])

CardAnswer(world, q, now) ==
  LET db   == world[q.region].db
      card == GetByID(db, "cards", q.id)
  IN  IF q.route = "cards/list" THEN CardList(db, q, now)
      ELSE IF q.route = "cards/batch" THEN CardBatch(db, q.ids)
      ELSE IF card = None THEN Fail(404)
      ELSE CASE q.route = "cards/id" -> Ok(BuildCardBase(db, card))
             [] q.route = "cards/params" -> Ok(CardParams(card))
             [] q.route = "cards/episodes" -> Ok(CardEpisodes(db, card.id))
             [] q.route = "cards/events" -> Ok(CardEvents(db, card))
             [] q.route = "cards/gachas" -> Ok(CardGachas(db, card.id))
             [] q.route = "cards/detail" -> CardDetail(db, card)

=============================================================================
