---------------------------- MODULE StampQueries ----------------------------
(***************************************************************************)
(* The stamp list (lookups/stamp_handler.go): category, characters, and    *)
(* the sources a stamp can be got from.                                    *)
(***************************************************************************)
EXTENDS QueryBase

StampCharacterFields == <<"characterId1", "characterId2", "characterId3", "characterId4", "characterId5">>
StampFields == {"id", "seq", "name", "stampType", "gameCharacterUnitId", "archivePublishedAt"}
                 \cup Range(StampCharacterFields)

StampCharacterIDs(r) ==
  Distinct(MapSeq(Selected(StampCharacterFields, LAMBDA f : Get(r, f) # None /\ r[f] > 0), LAMBDA f : r[f]))

StampCategory(type, characters) ==
  CASE type \in {"text", "cheerful_carnival_message"} -> "text"
    [] type \notin {"text", "cheerful_carnival_message"} /\ characters >= 2 -> "bond"
    [] type \notin {"text", "cheerful_carnival_message"} /\ characters = 1 -> "character"
    [] OTHER -> "other"

HiddenStamps(rows, now) ==
  {r \in Range(rows) : IsTime(Get(r, "archivePublishedAt")) /\ r.archivePublishedAt > now}

\* A stamp that names no character has the one of its unit.
StampItem(db, r) ==
  LET unit == Pick(GetByID(db, "gamecharacterunits", Get(r, "gameCharacterUnitId")), {"gameCharacterId"})
      Shown(own) ==
        LET characters == IF own = <<>> THEN MapSeq(SetToSeq(DOMAIN unit), LAMBDA f : unit[f]) ELSE own
        IN  [characterIds |-> characters, category |-> StampCategory(Get(r, "stampType"), Len(characters))]
  IN  Merge(Pick(r, {"id", "seq", "name", "stampType", "gameCharacterUnitId"}), Shown(StampCharacterIDs(r)))

StampItems(db, spoiler, now) ==
  LET rows  == FirstRows(db, "stamps", StampFields)
      shown == IF spoiler THEN rows ELSE Those(rows, Range(rows) \ HiddenStamps(rows, now))
  IN  MapSeq(shown, LAMBDA r : StampItem(db, r))

FirstStampReveal(db, now) ==
  Soonest({r.archivePublishedAt : r \in HiddenStamps(FirstRows(db, "stamps", StampFields), now)})

\* q.characters must all be on the stamp.
StampMatches(item, q) ==
  /\ q.categories = {} \/ item.category \in q.categories
  /\ q.characters \subseteq Range(item.characterIds)
  /\ q.name = {} \/ Get(item, "name") \in q.name

-----------------------------------------------------------------------------
(* Sources                                                                  *)

StampPurposeSources ==
  [shop_item |-> "shop", material_exchange |-> "exchange", virtual_live_reward |-> "live",
   character_rank_reward |-> "rank", bonds_reward |-> "bond", billing_shop_item |-> "crystal"]

\* The purposes of the boxes that hold the stamp, in either of two layouts.
StampPurposes(db, id) ==
  LET Is(d) == Get(d, "resourceType") = "stamp" /\ Get(d, "resourceId") = id
      boxes == Selected(ListAll(db, "resourceboxes"), LAMBDA b : \E i \in DOMAIN Items(b, "details") : Is(b.details[i]))
      rows  == Selected(ListAll(db, "resourceboxdetails"), Is)
  IN  {Get(r, "resourceBoxPurpose") : r \in Range(boxes \o rows)} \ {None}

StampComesFrom(purposes, sources) ==
  LET named == {StampPurposeSources[p] : p \in purposes \cap DOMAIN StampPurposeSources}
  IN  named \cap sources # {} \/ (named = {} /\ "other" \in sources)

FilterStampItemsBySource(db, items, sources) ==
  IF sources = {} THEN items
  ELSE Selected(items, LAMBDA item : StampComesFrom(StampPurposes(db, item.id), sources))

StampsList(db, q, now) ==
  LET matched == Selected(StampItems(db, q.spoiler, now), LAMBDA item : StampMatches(item, q))
      sourced == FilterStampItemsBySource(db, matched, q.sources)
  IN  [TypedPage(TypedSorted(sourced, q), q, LAMBDA item : item) EXCEPT
         !.until = IF q.spoiler \/ q.size > MaxPageSize THEN 0 ELSE FirstStampReveal(db, now)]

StampAnswer(world, q, now) == StampsList(world[q.region].db, q, now)

=============================================================================
