---------------------------- MODULE EventQueries ----------------------------
(***************************************************************************)
(* The event handlers (internal/transport/http/handlers/events) and the    *)
(* current event of the sync usecase, as functions of the stored data.     *)
(***************************************************************************)
EXTENDS QueryBase

-----------------------------------------------------------------------------
(* The current event                                                        *)

HasEventWindow(e) ==
  /\ IsTime(Get(e, "startAt")) /\ IsTime(Get(e, "closedAt"))
  /\ 0 < e.startAt /\ e.startAt <= e.closedAt
InWindow(e, now) == e.startAt <= now /\ now <= e.closedAt

\* CurrentEventUntil: the latest start among the open windows (the first of
\* equal starts), and when that can change.
CurrentEventUntil(db, now) ==
  LET events == {e \in Range(ListAll(db, "events")) : HasEventWindow(e)}
      ahead  == {e \in events : now < e.startAt}
      open   == {e \in events : InWindow(e, now)}
      Later(best, e) == IF best = None \/ e.startAt > best.startAt THEN e ELSE best
  IN  [record |-> FoldLeft(Later, None, Those(ListAll(db, "events"), open)),
       until  |-> Soonest({e.startAt : e \in ahead} \cup {e.closedAt + 1 : e \in open})]

IsCurrentEvent(db, id, now) ==
  LET current == CurrentEventUntil(db, now).record
  IN  current # None /\ current.id = id

-----------------------------------------------------------------------------
(* The unit and the banner character of an event                            *)

\* loadEventUnitLookup and findEventStory: the last story of the event.
StoryOf(db, e) ==
  LastOf(ListByIndex(db, "eventstories", "eventId", e.id))

\* A "main" unit of the story, else its first.
PrimaryStoryUnit(db, story) ==
  LET named == Selected(ListByIndex(db, "eventstoryunits", "eventStoryId", Get(story, "id")),
                         LAMBDA u : Get(u, "unit") # None)
      main  == Selected(named, LAMBDA u : Get(u, "eventStoryUnitRelation") = "main")
  IN  FirstOf(main \o named)

EventUnitCode(db, e) ==
  Get(Merge(Pick(e, {"unit"}), Pick(PrimaryStoryUnit(db, StoryOf(db, e)), {"unit"})), "unit")

\* Mutant: the detail names the event's own unit.
EventOwnUnit(db, e) ==
  PickOrNull(LastOf(ListByIndex(db, "unitprofiles", "unit", Get(e, "unit"))), {"unit", "unitName"})

\* The detail names a unit only when it has a profile.
EventUnit(db, e) ==
  PickOrNull(LastOf(ListByIndex(db, "unitprofiles", "unit", EventUnitCode(db, e))), {"unit", "unitName"})

BannerUnit(db, e) == GetByID(db, "gamecharacterunits", Get(StoryOf(db, e), "bannerGameCharacterUnitId"))

CharacterOfUnit(db, unit) ==
  Merge(Pick(unit, {"gameCharacterId", "unit"}),
        Pick(GetByID(db, "gamecharacters", Get(unit, "gameCharacterId")), {"givenName"}))

ShownBanner(db, unit) ==
  IF unit = None THEN None
  ELSE Merge(CharacterOfUnit(db, unit), [gameCharacterUnitId |-> unit.id])

BannerCharacter(db, e) == ShownBanner(db, BannerUnit(db, e))

-----------------------------------------------------------------------------
(* Lists                                                                    *)

EventListItem(db, e) ==
  Merge(Pick(e, {"id", "name", "eventType", "startAt", "closedAt"}),
        Present([unit |-> EventUnitCode(db, e),
                 bannerGameCharacterId |-> Get(BannerUnit(db, e), "gameCharacterId")]))

\* Mutant: the event's own unit is filtered by.
EventMatchesOwnUnit(db, e, q) ==
  /\ \A f \in DOMAIN q.fields : Get(e, f) \in q.fields[f]
  /\ q.units = {} \/ Get(e, "unit") \in q.units

\* q.fields: field -> accepted values (ids and types compare exactly); q.units.
EventMatches(db, e, q) ==
  /\ \A f \in DOMAIN q.fields : Get(e, f) \in q.fields[f]
  /\ q.units = {} \/ EventUnitCode(db, e) \in q.units

EventsFiltered(q) == DOMAIN q.fields # {} \/ q.units # {}

EventList(db, q, now) ==
  LET all     == Selected(ListAll(db, "events"), LAMBDA e : EventMatches(db, e, q))
      paged   == ListPage(db, "events", Sorted(Visible(all, q, now), q), EventsFiltered(q), q)
  IN  OkUntil([paged EXCEPT !.items = MapSeq(@, LAMBDA e : EventListItem(db, e))],
              IF q.spoiler THEN 0 ELSE NextReveal(all, now))

-----------------------------------------------------------------------------
(* One event                                                                *)

EventDetail(db, e) ==
  Merge(Without(e, {"eventRankingRewardRanges", "virtualLiveId"}),
    Merge(Present([unit |-> EventUnit(db, e), bannerGameCharacter |-> BannerCharacter(db, e)]),
          IF "virtualLiveId" \notin DOMAIN e THEN <<>>
          ELSE [virtualLive |-> PickOrNull(GetByID(db, "virtuallives", e.virtualLiveId), {"id", "startAt"})]))

CurrentEvent(db, now) ==
  LET e == CurrentEventUntil(db, now).record
  IN  IF e = None THEN Fail(404)
      ELSE Ok(Pick(e, {"id", "name", "startAt", "closedAt", "eventType", "unit"}))

BreakTimes(db, e) ==
  LET times == GetByID(db, "eventbreaktimes", Get(e, "eventBreakTimeId"))
  IN  IF times = None THEN Fail(404) ELSE Ok(times)

-----------------------------------------------------------------------------
(* Rewards                                                                  *)

UsableBox(box) == box # None /\ Items(box, "details") # <<>>

\* loadEventRewardLookups: a box the region lacks is taken from jp.
RewardBox(world, region, id) ==
  LET In(r) == [record |-> LastOf(Selected(ListByIndex(world[r].db, "resourceboxes", "id", id),
                                    LAMBDA b : b.resourceBoxPurpose = "event_ranking_reward")),
                region |-> r]
      HasUsable(r) == r \in DOMAIN world /\ UsableBox(In(r).record)
      from == Selected(<<region, "jp">>, HasUsable)
  IN  IF from = <<>> THEN None ELSE In(from[1])

ShownHonor(db, honor) ==
  IF honor = None THEN None
  ELSE Merge(Pick(honor, {"id", "groupId", "honorRarity", "name", "levels"}),
             Only("group", PickOrNull(GetByID(db, "honorgroups", Get(honor, "groupId")), {"id", "name"})))

RewardHonor(db, detail) ==
  IF Get(detail, "resourceType") # "honor" THEN <<>>
  ELSE Only("honor", ShownHonor(db, GetByID(db, "honors", Get(detail, "resourceId"))))

EnrichedDetail(db, detail) ==
  Merge(Merge(detail, RewardHonor(db, detail)), RewardItemFields(db, detail))

\* A box is enriched from the region it came from.
EnrichedBox(world, box) ==
  IF box = None THEN None
  ELSE [box.record EXCEPT !.details = MapSeq(@, LAMBDA d : EnrichedDetail(world[box.region].db, d))]

EnrichedReward(world, region, reward) ==
  Merge(reward, Only("resourceBox",
                     EnrichedBox(world, RewardBox(world, region, Get(reward, "resourceBoxId")))))

RewardRanges(e) == Items(e, "eventRankingRewardRanges")

EnrichedRange(world, region, range) ==
  IF "eventRankingRewards" \notin DOMAIN range THEN range
  ELSE [range EXCEPT !.eventRankingRewards = MapSeq(@, LAMBDA w : EnrichedReward(world, region, w))]

EventRewards(world, region, e) ==
  Ok(MapSeq(RewardRanges(e), LAMBDA r : EnrichedRange(world, region, r)))

HasDegree(world, region, range) ==
  \E w \in Range(Items(range, "eventRankingRewards")) :
    LET box == Get(RewardBox(world, region, Get(w, "resourceBoxId")), "record")
    IN  \E detail \in Range(Items(box, "details")) : Get(detail, "resourceType") = "honor"

\* numericRank: a rank is a number, or counts as 0.
IsRank(rank) == rank \in Int
RankOr0(rank) == IF IsRank(rank) THEN rank ELSE 0
IsAround(range, rank) ==
  LET from == Get(range, "fromRank")
      to   == Get(range, "toRank")
  IN  IsRank(from) /\ IsRank(to) /\ from <= rank /\ rank <= to

\* Which ranges have a rank, and which of two comes first.
RankedRanges(ranges) == {i \in DOMAIN ranges : IsRank(Get(ranges[i], "fromRank"))}
ComesFirst(ranges, i, j) ==
  LET from(k) == RankOr0(Get(ranges[k], "fromRank"))
      to(k)   == RankOr0(Get(ranges[k], "toRank"))
  IN  \/ from(i) < from(j)
      \/ from(i) = from(j) /\ to(i) < to(j)
      \/ from(i) = from(j) /\ to(i) = to(j) /\ i < j
RankOrder(ranges) ==
  {p \in RankedRanges(ranges) \X RankedRanges(ranges) : ComesFirst(ranges, p[1], p[2])}

\* Indices of the ranges by rank; then the first unused range around each
\* preview rank, and the last unused one that grants a title.
RangesByRank(ranges) == Ordered(RankedRanges(ranges), RankOrder(ranges))

TakeAround(ranges, order, chosen, rank) ==
  LET hits == {n \in DOMAIN order : order[n] \notin Range(chosen) /\ IsAround(ranges[order[n]], rank)}
  IN  IF hits = {} THEN chosen ELSE Append(chosen, order[Min(hits)])

TakeTitled(world, region, ranges, order, chosen) ==
  LET hits == {n \in DOMAIN order : order[n] \notin Range(chosen) /\ HasDegree(world, region, ranges[order[n]])}
  IN  IF hits = {} THEN chosen ELSE Append(chosen, order[Max(hits)])

TakeEach(world, region, ranges, order) ==
  TakeTitled(world, region, ranges, order,
    TakeAround(ranges, order, TakeAround(ranges, order, TakeAround(ranges, order, <<>>, 1), 100), 1000))
PreviewIndices(world, region, ranges) == TakeEach(world, region, ranges, RangesByRank(ranges))

RewardPreview(world, region, e) ==
  LET ranges == RewardRanges(e)
      picked == MapSeq(PreviewIndices(world, region, ranges), LAMBDA i : ranges[i])
  IN  MapSeq(StableSort(picked, LAMBDA a, b : a.fromRank < b.fromRank),
             LAMBDA r : EnrichedRange(world, region, r))

CountRewards(ranges) ==
  FoldLeft(LAMBDA n, r : n + Len(Items(r, "eventRankingRewards")), 0, ranges)

-----------------------------------------------------------------------------
(* Relations of an event                                                    *)

EventItems(db, e, entity) ==
  MapSeq(ListByIndex(db, entity, "eventId", e.id), LAMBDA r : WithReleaseCondition(db, r))

\* enrichEventRelationItems: the joined record's fields win.
Related(db, items, idField, entity, fields) ==
  MapSeq(items, LAMBDA r : Merge(r, Pick(GetByID(db, entity, Get(r, idField)), fields)))

EventCards(db, e) ==
  Related(db, EventItems(db, e, "eventcards"), "cardId", "cards", {"prefix", "attr", "cardRarityType"})
EventMusics(db, e) == Related(db, EventItems(db, e, "eventmusics"), "musicId", "musics", {"title"})

EnrichedDeckBonus(db, bonus) ==
  Merge(bonus, CharacterOfUnit(db, GetByID(db, "gamecharacterunits", Get(bonus, "gameCharacterUnitId"))))

EventBonuses(db, e) ==
  [eventCardBonusLimits  |-> EventItems(db, e, "eventcardbonuslimits"),
   eventDeckBonuses      |-> MapSeq(EventItems(db, e, "eventdeckbonuses"),
                                    LAMBDA b : EnrichedDeckBonus(db, b)),
   eventHonorBonuses     |-> EventItems(db, e, "eventhonorbonuses"),
   fixtureBonusLimits    |->
     EventItems(db, e, "eventmysekaifixturegamecharacterperformancebonuslimits"),
   eventRarityBonusRates |-> ListAll(db, "eventraritybonusrates")]

\* Missing joins stay null.
BonusHonor(db, h) ==
  LET Named(x) == [id |-> x.id, name |-> Get(x, "name")]
      group == GetByID(db, "honorgroups", Get(h, "groupId"))
  IN  IF h = None THEN None
      ELSE Merge(Named(h), [group |-> IF group = None THEN None ELSE Named(group)])

HonorBonus(db, r) ==
  [id |-> Get(r, "id"), honorId |-> Get(r, "honorId"),
   honor |-> BonusHonor(db, GetByID(db, "honors", Get(r, "honorId"))),
   leader |-> GetByID(db, "gamecharacterunits", Get(r, "leaderGameCharacterId"))]

HonorBonuses(db, e) ==
  LET Before(a, b) == a.id # None /\ (b.id = None \/ a.id < b.id)
  IN  StableSort(MapSeq(ListByIndex(db, "eventhonorbonuses", "eventId", e.id),
                        LAMBDA r : HonorBonus(db, r)), Before)

EventAggregate(world, region, e, now, preview) ==
  LET db == world[region].db
  IN  OkUntil([event            |-> EventDetail(db, e),
               availableRegions |-> AvailableRegionsByID(world, "events", e.id),
               isCurrentEvent   |-> IsCurrentEvent(db, e.id, now),
               bonuses          |-> EventBonuses(db, e),
               cards            |-> EventCards(db, e),
               musics           |-> EventMusics(db, e),
               rangeCount       |-> Len(RewardRanges(e)),
               rewardCount      |-> CountRewards(RewardRanges(e)),
               hasMore          |-> Len(RewardRanges(e)) > Len(preview),
               previewRanges    |-> preview],
              CurrentEventUntil(db, now).until)

\* The answer to a request about one event.
EventByID(world, q, e, now) ==
  LET db == world[q.region].db
  IN  CASE q.route = "events/id" -> Ok(EventDetail(db, e))
        [] q.route = "events/detail" -> EventAggregate(world, q.region, e, now, RewardPreview(world, q.region, e))
        [] q.route = "events/break-times" -> BreakTimes(db, e)
        [] q.route = "events/rewards" -> EventRewards(world, q.region, e)
        [] q.route = "events/cards" -> Ok(EventCards(db, e))
        [] q.route = "events/musics" -> Ok(EventMusics(db, e))
        [] q.route = "events/bonuses" -> Ok(EventBonuses(db, e))
        [] q.route = "events/honor-bonuses" -> Ok(HonorBonuses(db, e))

EventAnswer(world, q, now) ==
  LET db == world[q.region].db
      e  == GetByID(db, "events", q.id)
  IN  CASE q.route = "events/list" -> EventList(db, q, now)
        [] q.route = "events/current" -> CurrentEvent(db, now)
        [] q.route \notin {"events/list", "events/current"} /\ e = None -> Fail(404)
        [] OTHER -> EventByID(world, q, e, now)

=============================================================================
