---------------------------- MODULE GachaQueries ----------------------------
(***************************************************************************)
(* The gacha handlers (internal/transport/http/handlers/gachas).  A number *)
(* and its text are one value: the handlers compare them as equal.         *)
(***************************************************************************)
EXTENDS QueryBase

-----------------------------------------------------------------------------
(* Lists                                                                    *)

GachaProjection == {"id", "gachaType", "name", "assetbundleName", "startAt", "endAt"}

HasGachaWindow(r) == IsTime(Get(r, "startAt")) /\ IsTime(Get(r, "endAt"))
Upcoming(rows, now) == {r \in Range(rows) : HasGachaWindow(r) /\ r.startAt > now}
Ongoing(rows, now)  == {r \in Range(rows) : HasGachaWindow(r) /\ r.startAt <= now /\ now <= r.endAt}

\* When the ongoing ones change: one starts, or is past its end.
NextOngoingChange(rows, now) ==
  Soonest({r.startAt : r \in Upcoming(rows, now)} \cup {r.endAt + 1 : r \in Ongoing(rows, now)})

GachaListItem(r) == Pick(r, GachaProjection)

\* Each filter reports its next change over the rows it was given.
GachaList(db, q, now) ==
  LET rows    == ProjectionRows(db, "gachas", GachaProjection)
      visible == Visible(rows, q, now)
      kept    == IF q.ongoing THEN Those(visible, Ongoing(visible, now)) ELSE visible
      paged   == ListPage(db, "gachas", Sorted(kept, q), q.ongoing, q)
  IN  OkUntil([paged EXCEPT !.items = MapSeq(@, GachaListItem)],
              Earliest(IF q.spoiler THEN 0 ELSE NextReveal(rows, now),
                       IF q.ongoing THEN NextOngoingChange(visible, now) ELSE 0))

-----------------------------------------------------------------------------
(* One gacha                                                                *)

\* The ticket a behavior costs; nothing when it is unknown or has no bundle.
TicketBundle(db, behavior) ==
  LET ticket == IF Get(behavior, "costResourceType") # "gacha_ticket" THEN None
                ELSE GetByID(db, "gachatickets", Get(behavior, "costResourceId"))
  IN  IF ticket = None THEN <<>>
      ELSE Present([costResourceAssetbundleName |-> Get(ticket, "assetbundleName")])

\* An array the record lacks stays missing.
EachOf(g, field, op(_)) ==
  IF Get(g, field) # None THEN [f \in {field} |-> MapSeq(g[field], op)] ELSE <<>>

BuildGachaDetail(db, g) ==
  Merge(Pick(g, {"id", "gachaType", "name", "startAt", "endAt", "gachaInformation"}),
    Merge(EachOf(g, "gachaPickups", LAMBDA p : Pick(p, {"cardId", "weight"})),
    Merge(EachOf(g, "gachaCardRarityRates", LAMBDA p : Pick(p, {"cardRarityType", "rate"})),
    Merge(EachOf(g, "gachaDetails", LAMBDA p : Pick(p, {"cardId", "weight", "isWish"})),
          EachOf(g, "gachaBehaviors",
                 LAMBDA b : Merge(Pick(b, {"costResourceType", "costResourceId"}),
                                  TicketBundle(db, b)))))))

\* Wishes without a lottery, a count or a place are left out; by place, then
\* id, a missing id last.
RateChoiceWishes(db, g) ==
  LET group  == Get(g, "rateChoiceGachaWishGroupId")
      wishes == Selected(ListAll(db, "ratechoicegachawishes"),
                  LAMBDA w : /\ group # None /\ Get(w, "groupId") = group
                             /\ \A f \in {"lotteryType", "selectCount", "seq"} : Get(w, f) # None)
      Earlier(v, w) ==
        \/ v.seq < w.seq
        \/ /\ v.seq = w.seq /\ Get(v, "id") # None
           /\ Get(w, "id") = None \/ v.id < w.id
  IN  [gachaId |-> g.id, groupId |-> group,
       items |-> MapSeq(StableSort(wishes, Earlier),
                        LAMBDA w : Pick(w, {"id", "groupId", "lotteryType", "selectCount", "seq"}))]

GachaAnswer(world, q, now) ==
  LET db == world[q.region].db
      g  == GetByID(db, "gachas", q.id)
  IN  IF q.route = "gachas/list" THEN GachaList(db, q, now)
      ELSE IF g = None THEN Fail(404)
      ELSE CASE q.route = "gachas/id" -> Ok(BuildGachaDetail(db, g))
             [] q.route = "gachas/wishes" -> Ok(RateChoiceWishes(db, g))

=============================================================================
