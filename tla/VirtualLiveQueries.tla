---------------------------- MODULE VirtualLiveQueries ----------------------------
(***************************************************************************)
(* The virtual live handlers (internal/transport/http/handlers/            *)
(* virtuallives): lists, one live with its rewards, pamphlet and ticket.   *)
(***************************************************************************)
EXTENDS QueryBase

VirtualLiveFiltered(q) == q.name # {} \/ q.id # None \/ q.types # {}

VirtualLiveMatches(r, q) ==
  /\ q.name = {} \/ Get(r, "name") \in q.name
  /\ q.id = None \/ r.id = q.id
  /\ q.types = {} \/ Get(r, "virtualLiveType") \in q.types

VirtualLiveItem(db, r) ==
  Merge(Pick(r, {"id", "name", "virtualLiveType", "assetbundleName", "startAt", "endAt"}),
        Only("virtualLiveGroup",
             PickOrNull(GetByID(db, "virtuallivegroups", Get(r, "virtualLiveGroupId")), {"id", "name"})))

VirtualLiveList(db, q, now) ==
  LET all     == ListAll(db, "virtuallives")
      matched == Selected(Visible(all, q, now), LAMBDA r : VirtualLiveMatches(r, q))
      paged   == ListPage(db, "virtuallives", Sorted(matched, q), VirtualLiveFiltered(q), q)
  IN  OkUntil([paged EXCEPT !.items = MapSeq(@, LAMBDA r : VirtualLiveItem(db, r))],
              IF q.spoiler THEN 0 ELSE NextReveal(all, now))

-----------------------------------------------------------------------------
(* One live                                                                 *)

\* The box of an id and a purpose, when it has details.
VirtualLiveBox(db, reward, purpose) ==
  LastOf(Selected(ListByIndex(db, "resourceboxes", "id", Get(reward, "resourceBoxId")),
                   LAMBDA b : Get(b, "resourceBoxPurpose") = purpose))

ShownLiveHonor(db, honor) ==
  IF honor = None THEN None
  ELSE Merge(Pick(honor, {"id", "groupId", "honorRarity", "name", "levels"}),
             Only("group", PickOrNull(GetByID(db, "honorgroups", Get(honor, "groupId")), {"id", "name"})))

VirtualLiveHonor(db, detail) ==
  IF Get(detail, "resourceType") # "honor" THEN <<>>
  ELSE Only("honor", ShownLiveHonor(db, GetByID(db, "honors", Get(detail, "resourceId"))))

ShownBox(db, box) ==
  LET Detail(d) == Merge(Merge(Pick(d, {"resourceType", "resourceId", "resourceLevel", "seq"}),
                               VirtualLiveHonor(db, d)), RewardItemFields(db, d))
  IN  IF Items(box, "details") = <<>> THEN None
      ELSE Merge(Pick(box, {"id", "resourceBoxPurpose"}), [details |-> MapSeq(box.details, Detail)])

VirtualLiveReward(db, reward, purpose) ==
  Merge(reward, Only("resourceBox", ShownBox(db, VirtualLiveBox(db, reward, purpose))))

\* The rewards of the live, each kind from boxes of its own purpose.
RewardPurposes ==
  [virtualLiveRewards |-> "virtual_live_reward",
   virtualLiveTotalCheerPointRewards |-> "virtual_live_total_cheer_point_reward",
   virtualLiveTotalCheerPointSurplusReward |-> "virtual_live_total_cheer_point_surplus_reward"]
SingleReward == "virtualLiveTotalCheerPointSurplusReward"

VirtualLiveRewards(db, r) ==
  LET Each(f) == MapSeq(IF f = SingleReward THEN <<r[f]>> ELSE r[f],
                        LAMBDA w : VirtualLiveReward(db, w, RewardPurposes[f]))
  IN  [f \in DOMAIN RewardPurposes \cap DOMAIN r |-> IF f = SingleReward THEN Each(f)[1] ELSE Each(f)]

ShownCost(cost, item) ==
  Merge(cost, Present([costResourceName |-> Get(item, "resourceName"),
                       costResourceAssetbundleName |-> Get(item, "resourceAssetbundleName")]))

OverrideCost(db, r) ==
  LET cost == r.virtualLiveVirtualItemOverrideCost
  IN  IF "virtualLiveVirtualItemOverrideCost" \notin DOMAIN r THEN <<>>
      ELSE [virtualLiveVirtualItemOverrideCost |->
              ShownCost(cost, RewardItemFields(db, [resourceType |-> Get(cost, "costResourceType"),
                                                    resourceId |-> Get(cost, "costResourceId")]))]

\* An id the record has becomes the record, or null.
Resolved(db, r, idField, field, entity) ==
  IF idField \notin DOMAIN r THEN <<>>
  ELSE [f \in {field} |-> GetByID(db, entity, r[idField])]

\* The first record about the live.
FirstAbout(db, entity, id) ==
  LET Shown(r) == IF r = None THEN None ELSE Without(r, {"virtualLiveId"})
  IN  Shown(FirstOf(ListByIndex(db, entity, "virtualLiveId", id)))

VirtualLive(db, r) ==
  Merge(Without(r, {"virtualItems", "virtualLiveSchedules", "virtualLiveSetlists",
                    "virtualLiveGroupId", "screenMvMusicVocalId"}),
    Merge(VirtualLiveRewards(db, r),
    Merge(OverrideCost(db, r),
    Merge(Resolved(db, r, "virtualLiveGroupId", "virtualLiveGroup", "virtuallivegroups"),
    Merge(Resolved(db, r, "screenMvMusicVocalId", "screenMvMusicVocal", "musicvocals"),
          [pamphlet |-> FirstAbout(db, "virtuallivepamphlets", r.id),
           ticket   |-> FirstAbout(db, "virtuallivetickets", r.id)])))))

ArrayField ==
  [items |-> "virtualItems", schedules |-> "virtualLiveSchedules", setlists |-> "virtualLiveSetlists"]

VirtualLiveAnswer(world, q, now) ==
  LET db == world[q.region].db
      r  == GetByID(db, "virtuallives", q.id)
  IN  IF q.route = "virtuallives/list" THEN VirtualLiveList(db, q, now)
      ELSE IF r = None THEN Fail(404)
      ELSE CASE q.route = "virtuallives/id" -> Ok(VirtualLive(db, r))
             [] q.route = "virtuallives/array" -> Ok(Items(r, ArrayField[q.array]))

=============================================================================
