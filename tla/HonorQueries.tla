---------------------------- MODULE HonorQueries ----------------------------
(***************************************************************************)
(* Honors, their groups, and bonds honors (lookups/honor_handler.go and    *)
(* bonds_honor_handler.go).  A text filter is the set of texts that contain*)
(* what was asked.                                                         *)
(***************************************************************************)
EXTENDS QueryBase

MaxGroupPage == AtMost(24, MaxPageSize)  \* honorGroupsMaximumPageSize

-----------------------------------------------------------------------------
(* Honors                                                                   *)

ProjectHonorGroup(r) == Pick(r, {"id", "name", "honorType", "backgroundAssetbundleName", "frameName"})
ProjectHonor(r) == Pick(r, {"id", "seq", "groupId", "name", "honorRarity", "honorType", "levels"})

HonorItem(db, r) ==
  LET group == GetByID(db, "honorgroups", Get(r, "groupId"))
  IN  Merge(ProjectHonor(r), IF group = None THEN <<>> ELSE [group |-> ProjectHonorGroup(group)])

HonorsList(db, q) ==
  IF q.size > MaxPageSize THEN Fail(400)
  ELSE LET paged == StoredPage(db, "honors", q.page, q.size)
       IN  Ok([paged EXCEPT !.items = MapSeq(@, LAMBDA r : HonorItem(db, r))])

\* A group is shown with its honors, and only when it has any.
HonorGroups(db) ==
  LET Honors(g) == ListByIndex(db, "honors", "groupId", g.id)
      Item(g) == Merge(ProjectHonorGroup(g),
                       [honors |-> MapSeq(Honors(g), LAMBDA h :
                                     Merge(ProjectHonor(h), [group |-> ProjectHonorGroup(g)]))])
  IN  MapSeq(Selected(ListAll(db, "honorgroups"), LAMBDA g : Honors(g) # <<>>), Item)

HonorTypes(items) == {Get(items[i], "honorType") : i \in DOMAIN items} \ {None}

HonorGroupMatches(item, q) ==
  /\ q.honorType # None => Get(item, "honorType") = q.honorType
  /\ \/ q.name = {} \/ Get(item, "name") \in q.name
     \/ \E i \in DOMAIN item.honors : Get(item.honors[i], "name") \in q.name

\* The types offered are those of every group, whatever is asked for.
HonorGroupsList(db, q) ==
  LET all   == HonorGroups(db)
      items == StableSort(Selected(all, LAMBDA g : HonorGroupMatches(g, q)),
                          LAMBDA a, b : IF q.descending THEN a.id > b.id ELSE a.id < b.id)
  IN  IF q.size > MaxGroupPage THEN Fail(400)
      ELSE Ok([items |-> Slice(items, q.page, q.size), types |-> HonorTypes(all),
               pagination |-> PaginationOf(q.page, q.size, Len(items))])

-----------------------------------------------------------------------------
(* Bonds honors                                                             *)

BondsWords(db, group) ==
  StableSort(ListByIndex(db, "bondshonorwords", "bondsGroupId", group),
    LAMBDA a, b :
      LET Before(f) == Get(a, f) # None /\ (Get(b, f) = None \/ a[f] < b[f])
      IN  Before("seq") \/ (Get(a, "seq") = Get(b, "seq") /\ Before("id")))

CharacterOf(db, unit) ==
  LET r == GetByID(db, "gamecharacterunits", unit)
  IN  IF r = None THEN None ELSE Get(r, "gameCharacterId")

BondsHonorMatches(db, r, q) ==
  LET chars == <<CharacterOf(db, Get(r, "gameCharacterUnitId1")),
                 CharacterOf(db, Get(r, "gameCharacterUnitId2"))>>
      words == BondsWords(db, Get(r, "bondsGroupId"))
  IN  /\ q.bondsGroup = None \/ Get(r, "bondsGroupId") = q.bondsGroup
      /\ q.unit1 = None \/ Get(r, "gameCharacterUnitId1") = q.unit1
      /\ q.unit2 = None \/ Get(r, "gameCharacterUnitId2") = q.unit2
      /\ q.pair = {} \/ (None \notin Range(chars) /\ Range(chars) = q.pair)
      /\ \/ q.name = {} \/ Get(r, "name") \in q.name
         \/ \E i \in DOMAIN words : Get(words[i], "name") \in q.name

BondsHonor(db, r) ==
  LET groups == ListByIndex(db, "bonds", "groupId", Get(r, "bondsGroupId"))
      words  == BondsWords(db, Get(r, "bondsGroupId"))
      Unit(f) == GetByID(db, "gamecharacterunits", Get(r, f))
  IN  Merge(Pick(r, {"id", "seq", "bondsGroupId", "gameCharacterUnitId1", "gameCharacterUnitId2",
                     "name", "honorRarity"}),
            Present([bondsGroup     |-> IF groups = <<>> THEN None ELSE groups[1],
                     words          |-> IF words = <<>> THEN None ELSE words,
                     characterUnit1 |-> Unit("gameCharacterUnitId1"),
                     characterUnit2 |-> Unit("gameCharacterUnitId2")]))

BondsHonorsList(db, q) ==
  LET items == TypedSort(Selected(ListAll(db, "bondshonors"), LAMBDA r : BondsHonorMatches(db, r, q)),
                         IF q.sort = None THEN "seq" ELSE q.sort, q.descending)
  IN  IF q.size > MaxPageSize \/ Cardinality(q.pair) \notin {0, 2} THEN Fail(400)
      ELSE Ok([items |-> MapSeq(Slice(items, q.page, q.size), LAMBDA r : BondsHonor(db, r)),
               pagination |-> PaginationOf(q.page, q.size, Len(items))])

HonorAnswer(world, q, now) ==
  LET db == world[q.region].db
      honor == GetByID(db, "honors", q.id)
      bonds == GetByID(db, "bondshonors", q.id)
  IN  CASE q.route = "honors/list" -> HonorsList(db, q)
        [] q.route = "honors/id" -> IF honor = None THEN Fail(404) ELSE Ok(HonorItem(db, honor))
        [] q.route = "honors/groups" -> HonorGroupsList(db, q)
        [] q.route = "bonds/list" -> BondsHonorsList(db, q)
        [] q.route = "bonds/id" -> IF bonds = None THEN Fail(404) ELSE Ok(BondsHonor(db, bonds))

=============================================================================
