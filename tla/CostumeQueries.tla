---------------------------- MODULE CostumeQueries ----------------------------
(***************************************************************************)
(* The 3D costume handler (lookups/costume3d_handler.go).  The list is     *)
(* assembled from the projections of costumes and groups, one costume from *)
(* its record and the first group the index finds: the same item twice.    *)
(***************************************************************************)
EXTENDS QueryBase

\* Per field of an answer: the keys of the costume, then those of its group.
CostumePrimaryKeys ==
  [groupId     |-> <<"groupId", "costume3dGroupId">>,
   colorId     |-> <<"colorId", "costume3dColorId">>,
   partType    |-> <<"partType", "costume3dPartType">>,
   seq         |-> <<"seq">>,
   name        |-> <<"name">>,
   characterId |-> <<"characterId">>,
   publishedAt |-> <<"publishedAt">>]
CostumeGroupKeys == [CostumePrimaryKeys EXCEPT !.groupId = <<"groupId">>]
CostumeProjection ==
  {"id"} \cup UNION {Range(CostumePrimaryKeys[f]) : f \in DOMAIN CostumePrimaryKeys}

\* The first of the keys the record has a value for.
FirstValue(r, keys) ==
  LET there == Selected(keys, LAMBDA k : r # None /\ Get(r, k) # None)
  IN  IF there = <<>> THEN None ELSE r[there[1]]

Costume3DFieldValue(field, costume, group) ==
  LET own == FirstValue(costume, CostumePrimaryKeys[field])
  IN  IF own # None THEN own ELSE FirstValue(group, CostumeGroupKeys[field])

Costume3DGroupLookupKey(costume) == FirstValue(costume, <<"costume3dGroupId", "groupId">>)

NormalizeCostume3D(costume, group) ==
  Present([f \in {"id"} \cup DOMAIN CostumePrimaryKeys |->
             IF f = "id" THEN costume.id ELSE Costume3DFieldValue(f, costume, group)])

\* Mutant: the last group of the key.
Costume3DRowsOfLastGroup(db) ==
  LET groups == ProjectionRows(db, "costume3dgroups", CostumeProjection)
      GroupOf(c) ==
        LET hits == Selected(groups, LAMBDA g : Get(g, "groupId") # None
                                                 /\ g.groupId = Costume3DGroupLookupKey(c))
        IN  IF hits = <<>> THEN None ELSE Last(hits)
  IN  MapSeq(FirstRows(db, "costume3ds", CostumeProjection),
             LAMBDA c : NormalizeCostume3D(c, GroupOf(c)))

\* The costumes with an id, first of each id, with the first group of their key.
Costume3DRows(db) ==
  LET groups == ProjectionRows(db, "costume3dgroups", CostumeProjection)
      GroupOf(c) ==
        LET hits == Selected(groups, LAMBDA g : Get(g, "groupId") # None
                                                 /\ g.groupId = Costume3DGroupLookupKey(c))
        IN  IF hits = <<>> THEN None ELSE hits[1]
  IN  MapSeq(FirstRows(db, "costume3ds", CostumeProjection),
             LAMBDA c : NormalizeCostume3D(c, GroupOf(c)))

\* q.numbers: groupId, colorId and characterId; no spoiler is held back.
Costume3DsList(db, q) ==
  LET matched == Selected(FilterRecordsByNumbers(Costume3DRows(db), q.numbers),
                           LAMBDA r : q.name = {} \/ Get(r, "name") \in q.name)
  IN  TypedPage(Sorted(matched, q), q, LAMBDA item : item)

Costume3DsByID(db, id) ==
  LET costume == GetByID(db, "costume3ds", id)
      groups  == ListByIndex(db, "costume3dgroups", "groupId", Costume3DGroupLookupKey(costume))
  IN  IF costume = None THEN Fail(404)
      ELSE Ok(NormalizeCostume3D(costume, IF groups = <<>> THEN None ELSE groups[1]))

CostumeAnswer(world, q, now) ==
  IF q.route = "costumes/list" THEN Costume3DsList(world[q.region].db, q)
  ELSE Costume3DsByID(world[q.region].db, q.id)

=============================================================================
