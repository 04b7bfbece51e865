---------------------------- MODULE GameNewsQueries ----------------------------
(***************************************************************************)
(* The game news handler (internal/transport/http/handlers/gamenews): the  *)
(* user informations that run now, or all of them.  A timestamp in any     *)
(* form the parser reads is a number here; one it cannot read is Unreadable.*)
(***************************************************************************)
EXTENDS QueryBase

Unreadable == -1

\* A record is kept when its start can be read; an end that cannot is removed.
NormalizeGameNewsRecords(items) ==
  LET Readable(r) == "startAt" \in DOMAIN r /\ r.startAt \notin {None, Unreadable}
      Normal(r)   == IF Get(r, "endAt") = Unreadable THEN Without(r, {"endAt"}) ELSE r
  IN  MapSeq(Selected(items, Readable), Normal)

IsCurrentGameNews(r, now) ==
  /\ r.startAt <= now
  /\ Get(r, "endAt") = None \/ r.endAt > now

GameNewsList(db, includeAll, now) ==
  LET news == NormalizeGameNewsRecords(ListAll(db, "userinformations"))
  IN  Ok(IF includeAll THEN news ELSE Selected(news, LAMBDA r : IsCurrentGameNews(r, now)))

GameNewsAnswer(world, q, now) == GameNewsList(world[q.region].db, q.includeAll, now)

=============================================================================
