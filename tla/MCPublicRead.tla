---------------------------- MODULE MCPublicRead ----------------------------
(* Two regions that hold a full set of records, the base records alone in   *)
(* another order, or nothing.  Ids, names, times and ranks are small numbers.*)
EXTENDS ReadProperties

Pub == "event_ranking_reward"
Box(id, purpose, details) == [id |-> id, resourceBoxPurpose |-> purpose, details |-> details]
Prize(type, id) == [resourceType |-> type, resourceId |-> id, resourceLevel |-> 1, seq |-> 1]
Rank(from, to, box) ==
  [fromRank |-> from, toRank |-> to, eventRankingRewards |-> <<[id |-> from, resourceBoxId |-> box]>>]

\* Records that stand without others.
Base ==
  [events |->
     <<[id |-> 1, name |-> 1, eventType |-> "marathon", startAt |-> 1, closedAt |-> 2, unit |-> "idol",
        virtualLiveId |-> 1, eventBreakTimeId |-> 1,
        eventRankingRewardRanges |-> <<Rank(1001, 2000, 1), Rank(1, 100, 1), Rank(10, 20, 2), Rank(50, 1000, 9)>>],
       [id |-> 2, name |-> 2, eventType |-> "carnival", startAt |-> 2, closedAt |-> 3, unit |-> "street"],
       [id |-> 3, name |-> 3, eventType |-> "marathon", startAt |-> 4, closedAt |-> 5]>>,
   musics |->
     <<[id |-> 1, title |-> 1, composer |-> 1, publishedAt |-> 1, releaseConditionId |-> 1,
        creatorArtistId |-> 1, categories |-> <<[musicCategoryName |-> "image"]>>],
       [id |-> 2, title |-> 2, composer |-> 2, publishedAt |-> 3,
        categories |-> <<[musicCategoryName |-> "original"], [musicCategoryName |-> "image"]>>],
       [id |-> 3, title |-> 3, composer |-> 1, publishedAt |-> 1]>>,
   cards |->
     <<[id |-> 1, seq |-> 3, characterId |-> 1, cardRarityType |-> "rarity_4", attr |-> "cute",
        supportUnit |-> "none", skillId |-> 1, cardSupplyId |-> 1, prefix |-> 1, releaseAt |-> 1,
        archivePublishedAt |-> 1],
       [id |-> 2, seq |-> 2, characterId |-> 21, cardRarityType |-> "rarity_3", attr |-> "cool",
        supportUnit |-> "idol", skillId |-> 2, cardSupplyId |-> 2, prefix |-> 2, releaseAt |-> 3,
        archivePublishedAt |-> 4],
       [id |-> 3, seq |-> 1, characterId |-> 1, cardRarityType |-> "rarity_3", attr |-> "cute",
        prefix |-> 3, releaseAt |-> 1]>>,
   cardrarities |-> <<[id |-> 1, cardRarityType |-> "rarity_4"], [id |-> 2, cardRarityType |-> "rarity_3"]>>,
   cardsupplies |-> <<[id |-> 1, cardSupplyType |-> "permanent"], [id |-> 2, cardSupplyType |-> "limited"]>>,
   gachas |->
     <<[id |-> 1, gachaType |-> "normal", name |-> 1, startAt |-> 1, endAt |-> 2,
        rateChoiceGachaWishGroupId |-> 1,
        gachaPickups |-> <<[id |-> 1, cardId |-> 2], [id |-> 2, cardId |-> 1]>>,
        gachaBehaviors |-> <<[costResourceType |-> "gacha_ticket", costResourceId |-> 1]>>],
       [id |-> 2, gachaType |-> "normal", name |-> 2, startAt |-> 2, endAt |-> 4,
        gachaPickups |-> <<[id |-> 3, cardId |-> 1]>>],
       [id |-> 3, gachaType |-> "normal", name |-> 3, startAt |-> 3, endAt |-> 3]>>,
   virtuallives |->
     <<[id |-> 1, name |-> 1, virtualLiveType |-> "normal", startAt |-> 3, endAt |-> 5,
        virtualLiveGroupId |-> 1, virtualItems |-> <<[id |-> 1]>>,
        virtualLiveRewards |-> <<[id |-> 1, resourceBoxId |-> 4]>>],
       [id |-> 2, name |-> 2, virtualLiveType |-> "cheer", startAt |-> 1, endAt |-> 2]>>,
   cardepisodes |-> <<[id |-> 1, cardId |-> 1, releaseConditionId |-> 1], [id |-> 2, cardId |-> 2]>>,
   honors |->
     <<[id |-> 1, seq |-> 1, groupId |-> 1, name |-> 1, levels |-> <<[level |-> 1, honorRarity |-> "low"]>>],
       [id |-> 2, seq |-> 2, groupId |-> 2, name |-> 2, honorRarity |-> "high"],
       [id |-> 3, seq |-> 3, groupId |-> 9, name |-> 3]>>,
   mysekaifixtures |->
     <<[id |-> 1, seq |-> 2, name |-> 1, mainGenreId |-> 1, subGenreId |-> 1, tagGroup |-> <<1, 2>>,
        characterBonusId |-> 1],
       [id |-> 2, seq |-> 1, name |-> 2, mainGenreId |-> 2, subGenreId |-> 2, tagGroup |-> <<2>>],
       [id |-> 3, seq |-> 3, mainGenreId |-> 2]>>,
   mysekaimaterials |->
     <<[id |-> 1, seq |-> 1, name |-> 1, mysekaiMaterialType |-> "wood", mysekaiSiteIds |-> <<1, 9, 1>>],
       [id |-> 2, seq |-> 2, name |-> 2, mysekaiMaterialType |-> "stone"]>>,
   mysekaimusicrecords |->
     <<[id |-> 1, externalId |-> 2, mysekaiMusicTrackType |-> "music"],
       [id |-> 2, externalId |-> 1, mysekaiMusicTrackType |-> "music_sound_track"],
       [id |-> 3, externalId |-> 1, mysekaiMusicTrackType |-> "music"]>>,
   mysekaishops |-> <<[id |-> 1, seq |-> 1, mysekaiShopType |-> "daily", resourceBoxId |-> 3]>>,
   stamps |->
     <<[id |-> 1, seq |-> 1, name |-> 1, stampType |-> "illustration", characterId1 |-> 1,
        characterId2 |-> 0],
       [id |-> 2, seq |-> 2, name |-> 2, stampType |-> "text", gameCharacterUnitId |-> 2],
       [id |-> 3, seq |-> 3, name |-> 3, stampType |-> "illustration", characterId1 |-> 1,
        characterId2 |-> 2, archivePublishedAt |-> 3],
       [id |-> 4, seq |-> 4, name |-> 4, stampType |-> "illustration"]>>,
   storymissions |->
     <<[id |-> 1, seq |-> 2, eventId |-> 1, resourceBoxId |-> 7], [id |-> 2, seq |-> 1, eventId |-> 2]>>,
   normalmissions |->
     <<[id |-> 1, seq |-> 1,
        rewards |-> <<[missionType |-> "normal_mission", missionId |-> 1, seq |-> 1, resourceBoxId |-> 2],
                      [missionType |-> "normal", missionId |-> 1, seq |-> 2, resourceBoxId |-> 7],
                      [ids |-> <<8>>], Box(9, "mission_reward", <<Prize("material", 1)>>)>>]>>,
   charactermissionv2s |->
     <<[id |-> 1, seq |-> 1, characterId |-> 1, characterMissionType |-> "play", parameterGroupId |-> 1],
       [id |-> 3, seq |-> 3, characterId |-> 21, characterMissionType |-> "wait", parameterGroupId |-> 9],
       [id |-> 2, seq |-> 2, characterId |-> 1, characterMissionType |-> "wait", parameterGroupId |-> 1]>>,
   costume3ds |->
     <<[id |-> 1, costume3dGroupId |-> 1, groupId |-> 2, costume3dColorId |-> 1],
       [id |-> 2, groupId |-> 2, name |-> 3, partType |-> "head"],
       [id |-> 3, name |-> 4]>>,
   character2ds |->
     <<[id |-> 1, characterId |-> 1, characterType |-> "game_character"],
       [id |-> 2, characterId |-> 2, characterType |-> "mob"], [id |-> 3]>>,
   tips |-> <<[id |-> 2, assetbundleName |-> "b", title |-> 2], [id |-> 1, title |-> 1],
              [id |-> 3, assetbundleName |-> "c", title |-> 3]>>,
   mysekaiphotodecorations |-> <<[id |-> 1, seq |-> 1, name |-> 1], [id |-> 2, seq |-> 2, name |-> 2]>>,
   userinformations |-> <<[id |-> 1, startAt |-> 1, endAt |-> 3], [id |-> 2, startAt |-> 2]>>]

\* What they refer to.
Joins ==
  [eventstories |-> <<[id |-> 1, eventId |-> 2, bannerGameCharacterUnitId |-> 1]>>,
   eventstoryunits |->
     <<[eventStoryId |-> 1, unit |-> "street", eventStoryUnitRelation |-> "sub"],
       [eventStoryId |-> 1, unit |-> "idol", eventStoryUnitRelation |-> "main"]>>,
   unitprofiles |-> <<[unit |-> "idol", unitName |-> "i"], [unit |-> "street", unitName |-> "s"]>>,
   gamecharacterunits |->
     <<[id |-> 1, gameCharacterId |-> 1, unit |-> "idol"], [id |-> 2, gameCharacterId |-> 21, unit |-> "piapro"],
       [id |-> 3, gameCharacterId |-> 21, unit |-> "idol"]>>,
   gamecharacters |->
     <<[id |-> 1, firstName |-> "a", givenName |-> "b", unit |-> "idol", figure |-> "f"],
       [id |-> 21, givenName |-> "m", unit |-> "piapro"]>>,
   mobcharacters |-> <<[id |-> 2, name |-> "mob"]>>,
   eventcards |->
     <<[id |-> 1, eventId |-> 1, cardId |-> 1, bonusRate |-> 200, releaseConditionId |-> 1],
       [id |-> 2, eventId |-> 1, cardId |-> 2, bonusRate |-> 100], [id |-> 3, eventId |-> 2, cardId |-> 1, bonusRate |-> 0]>>,
   eventmusics |-> <<[id |-> 1, eventId |-> 1, musicId |-> 1]>>,
   eventdeckbonuses |->
     <<[id |-> 1, eventId |-> 1, gameCharacterUnitId |-> 3, cardAttr |-> "cool", bonusRate |-> 500],
       [id |-> 2, eventId |-> 1, gameCharacterUnitId |-> 1, bonusRate |-> 250],
       [id |-> 3, eventId |-> 1, cardAttr |-> "cute", bonusRate |-> 100]>>,
   eventhonorbonuses |-> <<[id |-> 2, eventId |-> 1, honorId |-> 1, leaderGameCharacterId |-> 1],
                           [id |-> 1, eventId |-> 1, honorId |-> 9, leaderGameCharacterId |-> 2]>>,
   eventbreaktimes |-> <<[id |-> 1, startAt |-> 1]>>,
   releaseconditions |-> <<[id |-> 1, sentence |-> "always"]>>,
   honorgroups |-> <<[id |-> 1, name |-> 1, honorType |-> "event"], [id |-> 2, name |-> 2, honorType |-> "rank"],
                     [id |-> 3, name |-> 3, honorType |-> "none"]>>,
   bondshonors |-> <<[id |-> 1, seq |-> 2, bondsGroupId |-> 1, gameCharacterUnitId1 |-> 1, gameCharacterUnitId2 |-> 2, name |-> 1],
                     [id |-> 2, bondsGroupId |-> 1, gameCharacterUnitId1 |-> 1, gameCharacterUnitId2 |-> 9, name |-> 2]>>,
   bondshonorwords |-> <<[id |-> 2, bondsGroupId |-> 1, name |-> 3], [id |-> 1, bondsGroupId |-> 1, seq |-> 1, name |-> 4]>>,
   bonds |-> <<[id |-> 1, groupId |-> 1]>>,
   skills |-> <<[id |-> 1, descriptionSpriteName |-> "score"], [id |-> 2, descriptionSpriteName |-> "life"]>>,
   another3dmvcutins |-> <<[id |-> 1, cardId |-> 1]>>,
   gachatickets |-> <<[id |-> 1, assetbundleName |-> "t"]>>,
   ratechoicegachawishes |-> <<[groupId |-> 1, lotteryType |-> "l", selectCount |-> 1, seq |-> 1],
                               [id |-> 1, groupId |-> 1, lotteryType |-> "l", selectCount |-> 1, seq |-> 1]>>,
   musiccategories |-> <<[id |-> 1, musicId |-> 1, musicCategoryName |-> "original"],
                         [id |-> 2, musicId |-> 1, musicCategoryName |-> "mv_2d", musicAssetVariantId |-> 1]>>,
   musicdifficulties |-> <<[id |-> 1, musicId |-> 1, musicDifficulty |-> "easy", playLevel |-> 1],
                           [id |-> 2, musicId |-> 1, musicDifficulty |-> "append", playLevel |-> 3],
                           [id |-> 3, musicId |-> 2, musicDifficulty |-> "easy", playLevel |-> 2]>>,
   musictags |-> <<[id |-> 1, musicId |-> 1, musicTag |-> "idol"], [id |-> 2, musicId |-> 3, musicTag |-> "other"]>>,
   musicvocals |-> <<[id |-> 1, musicId |-> 1, characters |-> <<[characterId |-> 1], [characterType |-> "outside_character", characterId |-> 1]>>]>>,
   outsidecharacters |-> <<[id |-> 1, name |-> "o"]>>,
   musicassetvariants |-> <<[id |-> 1, musicAssetType |-> "mv", assetbundleName |-> "v", musicVocalId |-> 1]>>,
   musicoriginals |-> <<[id |-> 1, musicId |-> 1, videoLink |-> "w"]>>,
   musicartists |-> <<[id |-> 1, name |-> "x"]>>,
   resourceboxes |->
     <<Box(1, Pub, <<Prize("material", 1)>>), Box(2, Pub, <<Prize("honor", 1)>>),
       Box(2, "mission_reward", <<Prize("stamp", 1)>>), Box(3, "mysekai_shop", <<Prize("mysekai_material", 1)>>),
       Box(4, "virtual_live_reward", <<Prize("honor", 2)>>), Box(5, "character_rank_reward", <<Prize("stamp", 2)>>),
       Box(6, "shop_item", <<Prize("stamp", 2)>>), [id |-> 7, resourceBoxPurpose |-> "story_mission"]>>,
   resourceboxdetails |-> <<[resourceBoxId |-> 7, resourceBoxPurpose |-> "story_mission", resourceType |-> "stamp", resourceId |-> 3, seq |-> 1]>>,
   materials |-> <<[id |-> 1, name |-> 7]>>,
   charactermissionv2exjsons |-> <<[characterMissionExType |-> "play", resourceType |-> "material"]>>,
   charactermissionv2parametergroups |->
     <<[id |-> 1, seq |-> 2, requirement |-> 2, quantity |-> 1], [id |-> 1, seq |-> 1, requirement |-> 1, quantity |-> 0],
       [id |-> 1, seq |-> 3, requirement |-> 3, quantity |-> 1], [id |-> 1, seq |-> 5, requirement |-> 9, quantity |-> 2],
       [id |-> 1, seq |-> 4, requirement |-> 4, quantity |-> 1]>>,
   characterranks |-> <<[id |-> 2, characterId |-> 1, characterRank |-> 2, rewardResourceBoxIds |-> <<5>>],
                        [id |-> 1, characterId |-> 1, characterRank |-> 1]>>,
   levels |-> <<[levelType |-> "character", level |-> 1, totalExp |-> 0], [levelType |-> "character", level |-> 2, totalExp |-> 5]>>,
   costume3dgroups |-> <<[id |-> 1, groupId |-> 1, name |-> 1, characterId |-> 1, partType |-> "body"],
                         [id |-> 2, groupId |-> 1, name |-> 2, characterId |-> 2, seq |-> 4],
                         [id |-> 3, groupId |-> 2, name |-> 9, characterId |-> 3]>>,
   mysekaifixturemaingenres |-> <<[id |-> 1, name |-> 1], [id |-> 2, name |-> 2]>>,
   mysekaifixturesubgenres |-> <<[id |-> 1, name |-> 1], [id |-> 2, name |-> 2]>>,
   mysekaifixturetags |-> <<[id |-> 1, mysekaiFixtureTagType |-> "unit"], [id |-> 2, mysekaiFixtureTagType |-> "series", externalId |-> 1],
                            [id |-> 3, mysekaiFixtureTagType |-> "unit"]>>,
   mysekaiblueprints |->
     <<[id |-> 1, mysekaiCraftType |-> "mysekai_tool", craftTargetId |-> 1],
       [id |-> 2, mysekaiCraftType |-> "mysekai_fixture", craftTargetId |-> 1],
       [id |-> 3, mysekaiCraftType |-> "mysekai_fixture", craftTargetId |-> 1],
       [id |-> 4, mysekaiCraftType |-> "mysekai_fixture", craftTargetId |-> 2]>>,
   mysekaiblueprintmaterialcosts |->
     <<[id |-> 1, seq |-> 1, mysekaiBlueprintId |-> 1, mysekaiMaterialId |-> 2, quantity |-> 1],
       [id |-> 2, seq |-> 2, mysekaiBlueprintId |-> 2, mysekaiMaterialId |-> 1, quantity |-> 2],
       [id |-> 3, seq |-> 1, mysekaiBlueprintId |-> 3, mysekaiMaterialId |-> 1, quantity |-> 3],
       [id |-> 4, seq |-> 1, mysekaiBlueprintId |-> 4, mysekaiMaterialId |-> 2, quantity |-> 1]>>,
   mysekaifixturecharacterbonuses |-> <<[id |-> 1, groupId |-> 1, bonusRate |-> 5]>>,
   mysekaifixturecharactergroups |-> <<[groupId |-> 1, gameCharacterId |-> 1]>>,
   mysekaifixturedisassemblematerials |-> <<[id |-> 1, seq |-> 1, mysekaiFixtureId |-> 1, mysekaiMaterialId |-> 1, quantity |-> 1]>>,
   mysekaisites |-> <<[id |-> 1, name |-> 1]>>,
   mysekaimaterialgamecharacterrelations |-> <<[mysekaiMaterialId |-> 1, gameCharacterId |-> 1]>>,
   musicsoundtracks |-> <<[id |-> 1, title |-> 1, musicSoundTrackCategoryId |-> 1]>>,
   musicsoundtrackcategories |-> <<[id |-> 1, name |-> 1]>>,
   mysekaishopcosts |-> <<[id |-> 1, seq |-> 1, mysekaiShopId |-> 1, resourceType |-> "coin", quantity |-> 1]>>]

Full == Joins @@ Base
Names == DOMAIN Full \cup
  {"livestages", "characterprofiles", "character3ds", "mysekaitools", "virtuallivegroups",
   "virtuallivepamphlets", "virtuallivetickets", "eventcardbonuslimits", "eventraritybonusrates",
   "eventmysekaifixturegamecharacterperformancebonuslimits", "subgamecharacters"}
MCDb ==
  [full  |-> [e \in Names |-> IF e \in DOMAIN Full THEN Full[e] ELSE <<>>],
   bare  |-> [e \in Names |-> IF e \in DOMAIN Base THEN Reverse(Base[e]) ELSE <<>>],
   empty |-> [e \in Names |-> <<>>]]
MCVersion == [full |-> [dataVersion |-> 1], bare |-> [dataVersion |-> Bad], empty |-> None]

-----------------------------------------------------------------------------
(* Requests                                                                 *)

At(family, route, entity, more) ==
  more @@ [family |-> family, route |-> route, region |-> "jp", entity |-> entity]
One(family, route, entity, id) == At(family, route, entity, [id |-> id])
List(family, route, entity, more) ==
  At(family, route, entity,
     more @@ [page |-> 1, size |-> 2, sort |-> None, descending |-> FALSE, spoiler |-> FALSE])

Events(more) == List("events", "events/list", "events", more @@ [fields |-> <<>>, units |-> {}])
Musics(more) ==
  List("musics", "musics/list", "musics",
       more @@ [name |-> {}, categories |-> {}, composers |-> {}, tags |-> {}, level |-> NoLevel, append |-> None])
Cards(more) ==
  List("cards", "cards/list", "cards",
       more @@ [f \in CardFilters |-> {}] @@ [cutIn |-> FALSE])
Gachas(more) == List("gachas", "gachas/list", "gachas", more @@ [ongoing |-> FALSE])
Stamps(more) ==
  List("stamps", "stamps/list", "stamps",
       more @@ [categories |-> {}, characters |-> {}, name |-> {}, sources |-> {}])
Fixtures(more) ==
  List("mysekai", "fixtures/list", "mysekaifixtures",
       more @@ [tagIds |-> {}, mainGenres |-> {}, subGenres |-> {}, name |-> {}])
MusicRecords(more) ==
  List("mysekai", "musicrecords/list", "mysekaimusicrecords", more @@ [types |-> {}, trackCategories |-> {}, name |-> {}])
Groups(more) == List("honors", "honors/groups", "honors", more @@ [honorType |-> None, name |-> {}])
Missions(kind, entity, numbers) ==
  List("missions", "missions/list", entity, [kind |-> kind, numbers |-> numbers])
Lives(more) == List("virtuallives", "virtuallives/list", "virtuallives", more @@ [name |-> {}, id |-> None, types |-> {}])

Lists ==
  {Events(<<>>), Events([spoiler |-> TRUE]), Events([units |-> {"idol"}]), Events([units |-> {"ido"}]),
   Events([spoiler |-> TRUE, sort |-> "startAt", descending |-> TRUE, fields |-> [eventType |-> {"marathon"}]]),
   Musics([spoiler |-> TRUE]), Musics([categories |-> {"image"}, spoiler |-> TRUE]), Musics([append |-> FALSE]),
   Musics([tags |-> {"idol"}]), Musics([level |-> [NoLevel EXCEPT !.min = 1, !.max = 3, !.maxInclusive = TRUE]]),
   Cards([spoiler |-> TRUE]), Cards([sort |-> "seq"]), Cards([units |-> {"piapro"}, spoiler |-> TRUE]),
   Cards([skills |-> {"score"}, types |-> {"permanent"}]), Cards([types |-> {"limited"}, supplies |-> {1}, spoiler |-> TRUE]),
   Cards([rarities |-> {"rarity_4", "3"}, attrs |-> {"cute"}]),
   Gachas(<<>>), Gachas([ongoing |-> TRUE]), Gachas([ongoing |-> TRUE, spoiler |-> TRUE]),
   Stamps(<<>>), Stamps([characters |-> {21}]), Stamps([categories |-> {"character", "bond"}, sort |-> "seq", descending |-> TRUE]),
   Fixtures(<<>>), Fixtures([tagIds |-> {1, 2}]), Fixtures([mainGenres |-> {2}, sort |-> "name"]),
   MusicRecords(<<>>), MusicRecords([trackCategories |-> {1}]),
   Groups(<<>>), Groups([honorType |-> "rank", descending |-> TRUE]),
   Missions("storyMissions", "storymissions", <<>>), Missions("normalMissions", "normalmissions", <<>>),
   Missions("characterMissionV2s", "charactermissionv2s", <<>>),
   Missions("characterMissionV2s", "charactermissionv2s", [characterId |-> {1}]),
   Lives(<<>>), Lives([spoiler |-> TRUE]),
   List("honors", "honors/list", "honors", <<>>),
   List("honors", "bonds/list", "bondshonors", [bondsGroup |-> 1, unit1 |-> None, unit2 |-> None, pair |-> {}, name |-> {}]),
   List("mysekai", "materials/list", "mysekaimaterials", [types |-> {}]),
   List("mysekai", "shops/list", "mysekaishops", [types |-> {}]),
   List("costumes", "costumes/list", "costume3ds", [numbers |-> <<>>, name |-> {}]),
   List("costumes", "costumes/list", "costume3ds", [numbers |-> [characterId |-> {1}], name |-> {}, sort |-> "characterId"]),
   List("lookups", "lookups/list", "cardepisodes", [numbers |-> <<>>]),
   List("lookups", "lookups/list", "cardepisodes", [numbers |-> [cardId |-> {2}], size |-> 4]),
   List("lookups", "lookups/comics", "tips", <<>>), List("lookups", "lookups/photos", "mysekaiphotodecorations", <<>>)}

Ones ==
  {One("events", route, "events", 1) :
     route \in {"events/id", "events/detail", "events/break-times", "events/rewards", "events/cards",
                "events/musics", "events/bonuses", "events/honor-bonuses"}}
  \cup {One("events", "events/detail", "events", 2), At("events", "events/current", "events", [id |-> None])}
  \cup {One("musics", route, "musics", 1) :
          route \in {"musics/id", "musics/detail", "musics/difficulties", "musics/vocals"}}
  \cup {One("cards", route, "cards", 2) :
          route \in {"cards/id", "cards/params", "cards/episodes", "cards/events", "cards/gachas", "cards/detail"}}
  \cup {One("gachas", route, "gachas", 1) : route \in {"gachas/id", "gachas/wishes"}}
  \cup {One("virtuallives", "virtuallives/id", "virtuallives", 1),
        At("virtuallives", "virtuallives/array", "virtuallives", [id |-> 1, array |-> "items"]),
        One("honors", "honors/id", "honors", 3), One("honors", "bonds/id", "bondshonors", 1),
        One("lookups", "lookups/id", "gamecharacters", 21), One("lookups", "lookups/profile", "characterprofiles", 1),
        One("mysekai", "fixtures/id", "mysekaifixtures", 1), One("mysekai", "materials/id", "mysekaimaterials", 1),
        At("mysekai", "fixtures/filters", "mysekaifixtures", <<>>),
        At("mysekai", "musicrecords/filters", "mysekaimusicrecords", <<>>),
        At("missions", "missions/levels", "charactermissionv2parametergroups", [id |-> 1, page |-> 1, size |-> 2]),
        At("missions", "missions/ranks", "characterranks", [id |-> 1, page |-> 1, size |-> 1]),
        At("cards", "cards/batch", "cards", [id |-> None, ids |-> <<3, 1, 3>>]),
        At("lookups", "lookups/character2ds", "character2ds", [ids |-> <<2, 3, 2>>]),
        At("lookups", "lookups/character3ds", "character3ds", [ids |-> <<1, 1, 1, 1>>]),
        At("lookups", "lookups/members", "unitprofiles", [unit |-> "idol"]),
        At("lookups", "lookups/unit", "unitprofiles", [unit |-> "street"]),
        At("gamenews", "gamenews/list", "userinformations", [includeAll |-> FALSE])}

MCRequest == Lists \cup Ones
MCWatched ==
  {Events(<<>>), Gachas([ongoing |-> TRUE]), Gachas([ongoing |-> TRUE, spoiler |-> TRUE]), Stamps(<<>>),
   MusicRecords(<<>>), One("events", "events/detail", "events", 2)}
=============================================================================
