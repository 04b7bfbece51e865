---------------------------- MODULE MissionQueries ----------------------------
(***************************************************************************)
(* Missions, their rewards and parameter groups, and character ranks       *)
(* (internal/transport/http/handlers/lookups/mission_handler.go).  A       *)
(* reward given as a number or an array of numbers is [ids |-> ...] here.  *)
(***************************************************************************)
EXTENDS QueryBase

\* Members without the field come last, in their own order.
SeqBefore(s, t) == s # None /\ (t = None \/ s < t)
BySeq(items) == StableSort(items, LAMBDA a, b : SeqBefore(Get(a, "seq"), Get(b, "seq")))

-----------------------------------------------------------------------------
(* Resource boxes                                                           *)

BoxDetail(db, d) ==
  Merge(Pick(d, {"resourceBoxPurpose", "resourceBoxId", "seq", "resourceType", "resourceId",
                 "resourceLevel", "resourceQuantity"}),
        RewardItemFields(db, d))

\* A box carries its details, or they are the rows of its id and purpose.
BoxDetails(db, box) ==
  IF "details" \in DOMAIN box THEN box.details
  ELSE Selected(ListByIndex(db, "resourceboxdetails", "resourceBoxId", box.id),
                 LAMBDA d : /\ Get(box, "resourceBoxPurpose") # None
                            /\ Get(d, "resourceBoxPurpose") = box.resourceBoxPurpose)

ResourceBox(db, box) ==
  IF box = None THEN None
  ELSE Merge(Pick(box, {"id", "resourceBoxPurpose", "resourceBoxType"}),
        [details |-> MapSeq(BySeq(BoxDetails(db, box)), LAMBDA d : BoxDetail(db, d))])

\* An id names a box when exactly one has it and the purpose asked for.
BoxOf(db, id, purpose) ==
  LET hits == Selected(ListByIndex(db, "resourceboxes", "id", id),
                        LAMBDA b : purpose = None \/ Get(b, "resourceBoxPurpose") = purpose)
  IN  IF Len(hits) = 1 THEN hits[1] ELSE None

-----------------------------------------------------------------------------
(* Rewards                                                                  *)

\* What a reward entry refers to, the box it embeds, and the purpose to look
\* its box up with when it names none.
RefFields == {"missionType", "missionId", "seq", "resourceBoxPurpose", "resourceBoxId",
              "resourceType", "resourceId", "resourceLevel", "resourceQuantity"}

\* The types that end in _mission: a reward of one is kept in the boxes of
\* missions.
MissionTypes == {"normal_mission", "story_mission", "character_mission"}

EntryRef(entry, isBox) ==
  [fields  |-> Merge(IF isBox THEN Only("resourceBoxId", Get(entry, "id")) ELSE Pick(entry, {"id"}),
                     Pick(entry, RefFields)),
   box     |-> IF isBox THEN entry ELSE Get(entry, "resourceBox"),
   purpose |-> IF Get(entry, "missionType") \in MissionTypes /\ Get(entry, "resourceBoxPurpose") = None
                 THEN "mission_reward" ELSE None]

RewardRef(entry) ==
  IF "ids" \in DOMAIN entry
    THEN [fields |-> IF Len(entry.ids) = 1 THEN [resourceBoxId |-> entry.ids[1]]
                     ELSE [resourceBoxIds |-> entry.ids],
          box |-> None, purpose |-> None]
    ELSE EntryRef(entry, Get(entry, "details") # None \/ Get(entry, "resourceBoxType") # None)

\* A mission without rewards but with a box of its own refers to that box.
RewardRefs(kind, r) ==
  LET Purposed(ref) == IF kind = "normalMissions" /\ ref.purpose = None
                         THEN [ref EXCEPT !.purpose = "mission_reward"] ELSE ref
  IN  CASE "rewards" \in DOMAIN r -> MapSeq(MapSeq(r.rewards, RewardRef), Purposed)
        [] "rewards" \notin DOMAIN r /\ Get(r, "resourceBoxId") # None ->
             <<[fields |-> Pick(r, {"resourceBoxId"}), box |-> None,
                purpose |-> IF kind = "storyMissions" THEN "story_mission" ELSE None]>>
        [] OTHER -> <<>>

\* The embedded box, else the box of the reference's own purpose, else of the
\* purpose to look it up with, else the only one of that id.
RewardBoxOf(db, ref) ==
  LET named    == Get(ref.fields, "resourceBoxPurpose")
      purposes == Selected(<<ref.purpose>>, LAMBDA p : named = None /\ p # None) \o <<named>>
      boxes    == MapSeq(purposes, LAMBDA p : BoxOf(db, Get(ref.fields, "resourceBoxId"), p))
  IN  IF ref.box # None
        THEN Merge(Pick(ref.box, {"id", "resourceBoxPurpose", "resourceBoxType"}),
                   [details |-> BySeq(Items(ref.box, "details"))])
      ELSE ResourceBox(db, FirstOf(Selected(boxes, LAMBDA b : b # None)))

\* A box fills in what the reference leaves out, its id and its purpose.
RewardWith(fields, box) ==
  LET filled == Merge(Only("resourceBoxId", Get(box, "id")), Pick(box, {"resourceBoxPurpose"}))
  IN  IF box = None THEN Merge(fields, [status |-> "unresolved"])
      ELSE Merge(Merge(filled, fields), [status |-> "resolved", resourceBox |-> box])

ResolvedReward(db, ref) == RewardWith(ref.fields, RewardBoxOf(db, ref))

-----------------------------------------------------------------------------
(* Parameter groups                                                         *)

\* The last mission of a group whose type has a resource says what its levels
\* grant, the last record of that type which resource it is.
GroupResource(db, id) ==
  LET TypesOf(type) ==
        Selected(ListAll(db, "charactermissionv2exjsons"),
                  LAMBDA x : type # None /\ Get(x, "characterMissionExType") = type /\ Get(x, "resourceType") # None)
      granting == Selected(ListByIndex(db, "charactermissionv2s", "parameterGroupId", id),
                            LAMBDA m : TypesOf(Get(m, "characterMissionType")) # <<>>)
  IN  Get(LastOf(TypesOf(Get(LastOf(granting), "characterMissionType"))), "resourceType")

Level(type, r) ==
  Merge(Pick(r, {"seq", "requirement", "exp", "quantity"}),
        IF type = None \/ Get(r, "quantity") = None \/ r.quantity <= 0 THEN <<>>
        ELSE [reward |-> [resourceType |-> type, resourceQuantity |-> r.quantity]])

\* The levels of a group, by seq, where one lookup asks for several groups:
\* each time the group is asked for answers it again, and the answers are put
\* together.
GroupLevels(db, asked, id) ==
  LET answers == MapSeq(Selected(asked, LAMBDA other : other = id),
                        LAMBDA key : ListByIndex(db, "charactermissionv2parametergroups", "id", key))
      levels  == Selected(ConcatAll(answers),
                           LAMBDA r : Get(r, "seq") # None /\ Get(r, "requirement") # None)
  IN  MapSeq(BySeq(levels), LAMBDA r : Level(GroupResource(db, id), r))

PreviewOf(id, levels) ==
  IF levels = <<>> THEN <<>>
  ELSE [parameterGroup |-> [id |-> id, totalLevels |-> Len(levels),
                            previewLevels |-> SubSeq(levels, 1, AtMost(Len(levels), 3)),
                            lastLevel |-> Last(levels)]]

\* Mutant: the levels of the mission's own id.
ParameterGroupByMission(db, shown, r) ==
  PreviewOf(r.parameterGroupId, GroupLevels(db, <<r.id>>, r.id))

\* A mission shows how many levels its group has, the first three and the last,
\* out of a lookup for the groups of all the missions that are shown with it.
ParameterGroup(db, shown, r) ==
  LET id == Get(r, "parameterGroupId")
  IN  PreviewOf(id, GroupLevels(db, MapSeq(shown, LAMBDA m : Get(m, "parameterGroupId")), id))

PageOfItems(q, items) ==
  [items |-> Slice(items, q.page, q.size), pagination |-> PaginationOf(q.page, q.size, Len(items))]

LevelsPage(q, levels) == IF levels = <<>> THEN Fail(404) ELSE Ok(PageOfItems(q, levels))
ParameterGroupLevels(db, q) == LevelsPage(q, GroupLevels(db, <<q.id>>, q.id))

-----------------------------------------------------------------------------
(* Missions                                                                 *)

KindEntity ==
  [storyMissions |-> "storymissions", normalMissions |-> "normalmissions",
   characterMissionV2s |-> "charactermissionv2s"]
KindFields ==
  [storyMissions |-> {"storyMissionType"}, normalMissions |-> {"normalMissionType"},
   characterMissionV2s |->
     {"characterMissionType", "characterId", "parameterGroupId", "isAchievementMission"}]
KindFilters ==
  [storyMissions |-> {"id", "eventId"}, normalMissions |-> {"id", "eventId"},
   characterMissionV2s |-> {"id", "characterId", "eventId"}]

MissionWithRewards(db, kind, r) ==
  Merge(Pick(r, {"id", "seq", "sentence", "requirement", "eventId", "resourceBoxId"}
                \cup KindFields[kind]),
        IF "rewards" \in DOMAIN r \/ Get(r, "resourceBoxId") # None
          THEN [rewards |-> MapSeq(RewardRefs(kind, r), LAMBDA ref : ResolvedReward(db, ref))]
          ELSE <<>>)

\* A mission as it is shown together with others.
MissionItem(db, kind, shown, r) ==
  Merge(MissionWithRewards(db, kind, r),
        IF kind = "characterMissionV2s" THEN ParameterGroup(db, shown, r) ELSE <<>>)

MissionBefore(x, y, tie) ==
  CASE x # y /\ (x = None \/ y = None) -> x = None
    [] x # y /\ x # None /\ y # None -> x < y
    [] OTHER -> tie

\* Missing values first, then ids, then seq; descending turns all of it.
SortMissions(items, field, descending) ==
  LET Less(a, b) ==
        MissionBefore(Get(a, field), Get(b, field),
                      a.id < b.id \/ (a.id = b.id /\ SeqBefore(Get(a, "seq"), Get(b, "seq"))))
  IN  StableSort(items, LAMBDA a, b : IF descending THEN Less(b, a) ELSE Less(a, b))

MissionsList(db, q) ==
  LET matched == FilterRecordsByNumbers(ListAll(db, KindEntity[q.kind]), q.numbers)
      ordered == IF q.sort = None THEN matched ELSE SortMissions(matched, q.sort, q.descending)
      page    == Slice(ordered, q.page, q.size)
  IN  IF ~(DOMAIN q.numbers \subseteq KindFilters[q.kind]) THEN Fail(400)
      ELSE TypedPage(ordered, q, LAMBDA r : MissionItem(db, q.kind, page, r))

MissionByID(db, q) ==
  Found(GetByID(db, KindEntity[q.kind], q.id), LAMBDA r : MissionItem(db, q.kind, <<r>>, r))

\* The ranks of a character with the boxes granted at each.
CharacterRanks(db, q) ==
  LET ranks == Selected(ListByIndex(db, "characterranks", "characterId", q.id),
                         LAMBDA r : Get(r, "characterRank") # None)
      BoxesOf(id) == MapSeq(Selected(ListByIndex(db, "resourceboxes", "id", id),
                              LAMBDA b : Get(b, "resourceBoxPurpose") = "character_rank_reward"),
                            LAMBDA b : ResourceBox(db, b))
      Exp(rank) == Selected(ListByIndex(db, "levels", "levelType", "character"),
                             LAMBDA l : Get(l, "level") = rank /\ Get(l, "totalExp") # None)
      Item(r) == Merge(Pick(r, {"id", "characterId", "characterRank", "power1BonusRate"}),
                   Merge(Pick(LastOf(Exp(r.characterRank)), {"totalExp"}),
                         [rewardResourceBoxes |-> ConcatAll(MapSeq(Items(r, "rewardResourceBoxIds"), BoxesOf))]))
  IN  Ok(PageOfItems(q, MapSeq(StableSort(ranks, LAMBDA a, b : a.characterRank < b.characterRank), Item)))

MissionAnswer(world, q, now) ==
  LET db == world[q.region].db
  IN  CASE q.route = "missions/list" -> MissionsList(db, q)
        [] q.route = "missions/id" -> MissionByID(db, q)
        [] q.route = "missions/levels" -> ParameterGroupLevels(db, q)
        [] q.route = "missions/ranks" -> CharacterRanks(db, q)

=============================================================================
