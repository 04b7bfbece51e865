---------------------------- MODULE MusicQueries ----------------------------
(***************************************************************************)
(* The music handlers (internal/transport/http/handlers/musics).  A text   *)
(* filter is the set of texts that contain what was asked.                 *)
(***************************************************************************)
EXTENDS QueryBase

-----------------------------------------------------------------------------
(* Categories                                                               *)

CategoryName(row) ==
  IF Get(row, "musicCategoryName") # None THEN row.musicCategoryName ELSE Get(row, "musicCategory")

Named(names) == Selected(names, LAMBDA n : n # None)

\* Category rows replace the categories a music record embeds.
AggregatedCategories(db, id) ==
  Named(MapSeq(ListByIndex(db, "musiccategories", "musicId", id), CategoryName))
EmbeddedCategories(m) == Named(MapSeq(Items(m, "categories"), CategoryName))

MusicCategories(db, m) ==
  IF AggregatedCategories(db, m.id) # <<>> THEN AggregatedCategories(db, m.id)
  ELSE EmbeddedCategories(m)

-----------------------------------------------------------------------------
(* Filters                                                                  *)

\* q.level: [equals, min, max, minInclusive, maxInclusive].  Equal levels
\* set the range aside.
LevelFiltered(f) == f.equals # {} \/ f.min # None \/ f.max # None

LevelMatches(f, level) ==
  IF f.equals # {} THEN level \in f.equals
  ELSE /\ f.min = None \/ level > f.min \/ (f.minInclusive /\ level = f.min)
       /\ f.max = None \/ level < f.max \/ (f.maxInclusive /\ level = f.max)

Difficulties(db, id) == ListByIndex(db, "musicdifficulties", "musicId", id)
PlayLevels(db, id) ==
  {d.playLevel : d \in {e \in Range(Difficulties(db, id)) : Get(e, "playLevel") # None}}
HasAppend(db, id) == \E d \in Range(Difficulties(db, id)) : Get(d, "musicDifficulty") = "append"

MusicTags(db, id) ==
  Named(MapSeq(ListByIndex(db, "musictags", "musicId", id), LAMBDA t : Get(t, "musicTag")))

MusicFiltered(q) ==
  \/ q.name # {} \/ q.categories # {} \/ q.composers # {} \/ q.tags # {}
  \/ LevelFiltered(q.level) \/ q.append # None

MusicMatches(db, m, q) ==
  /\ q.name = {} \/ Get(m, "title") \in q.name \/ Get(m, "pronunciation") \in q.name
  /\ q.categories = {} \/ Range(MusicCategories(db, m)) \cap q.categories # {}
  /\ q.composers = {} \/ Get(m, "composer") \in q.composers
  /\ q.tags = {} \/ Range(MusicTags(db, m.id)) \cap q.tags # {}
  /\ q.append = None \/ HasAppend(db, m.id) = q.append
  /\ LevelFiltered(q.level) => \E level \in PlayLevels(db, m.id) : LevelMatches(q.level, level)

-----------------------------------------------------------------------------
(* Music items                                                              *)

\* fieldId is replaced by the record it names, or null.
Attached(db, m, field, idField, entity) ==
  IF idField \notin DOMAIN m THEN <<>>
  ELSE [f \in {field} |-> GetByID(db, entity, m[idField])]

BuildMusic(db, m) ==
  Merge(Without(WithReleaseCondition(db, m), {"creatorArtistId", "liveStageId"}),
        Merge([categories |-> MusicCategories(db, m)],
        Merge(Attached(db, m, "creatorArtist", "creatorArtistId", "musicartists"),
              Attached(db, m, "liveStage", "liveStageId", "livestages"))))

MusicDifficulties(db, id, compact) ==
  MapSeq(Difficulties(db, id),
    LAMBDA d : Without(WithReleaseCondition(db, d),
                       IF compact THEN {"id", "musicId", "totalNoteCount"} ELSE {}))

MusicListItem(db, m) ==
  Merge(BuildMusic(db, m),
        [difficulties |-> MusicDifficulties(db, m.id, TRUE), tags |-> MusicTags(db, m.id)])

MusicList(db, q, now) ==
  LET all     == ListAll(db, "musics")
      matched == Selected(Visible(all, q, now), LAMBDA m : MusicMatches(db, m, q))
      paged   == ListPage(db, "musics", Sorted(matched, q), MusicFiltered(q), q)
  IN  OkUntil([paged EXCEPT !.items = MapSeq(@, LAMBDA m : MusicListItem(db, m))],
              IF q.spoiler THEN 0 ELSE NextReveal(all, now))

-----------------------------------------------------------------------------
(* Vocals and videos                                                        *)

CharacterEntity(c) ==
  LET type == IF "characterType" \in DOMAIN c THEN c.characterType ELSE "game_character"
  IN  CASE type = "game_character" -> "gamecharacters"
        [] type = "outside_character" -> "outsidecharacters"
        [] OTHER -> None

CharacterName(db, c) ==
  LET entity == CharacterEntity(c)
      r == IF entity = None THEN None ELSE GetByID(db, entity, Get(c, "characterId"))
  IN  CASE r = None -> None
        [] r # None /\ entity = "gamecharacters" -> Get(r, "givenName")
        [] OTHER -> Get(r, "name")

MusicVocals(db, id) ==
  LET WithNames(v, field) ==
        IF field \notin DOMAIN v THEN v
        ELSE [v EXCEPT ![field] =
                MapSeq(@, LAMBDA c : Merge(c, [name |-> CharacterName(db, c)]))]
  IN  MapSeq(ListByIndex(db, "musicvocals", "musicId", id),
             LAMBDA v : WithNames(WithNames(WithReleaseCondition(db, v), "characters"), "overrideCharas"))

\* Video categories: the music's rows if it has any, else its embedded ones.
VideoCategories(db, m) ==
  LET rows == ListByIndex(db, "musiccategories", "musicId", m.id)
  IN  Selected(IF rows # <<>> THEN rows ELSE Items(m, "categories"),
                LAMBDA c : CategoryName(c) \in {"original", "mv_2d"})

\* A category that names a variant needs a valid one, and a vocal it names
\* must be of this music.
MusicVideos(db, m) ==
  LET Variant(c) == GetByID(db, "musicassetvariants", Get(c, "musicAssetVariantId"))
      Valid(v) == /\ v # None
                  /\ Get(v, "musicAssetType") = "mv" /\ Get(v, "assetbundleName") # None
      OfThis(v) == \/ Get(v, "musicVocalId") = None
                   \/ LET vocal == GetByID(db, "musicvocals", v.musicVocalId)
                      IN  vocal # None /\ Get(vocal, "musicId") = m.id
      Shown(c) == \/ "musicAssetVariantId" \notin DOMAIN c
                  \/ Valid(Variant(c)) /\ OfThis(Variant(c))
      Video(c) ==
        IF "musicAssetVariantId" \notin DOMAIN c
          THEN [category |-> CategoryName(c), assetbundleName |-> None, musicVocalId |-> None]
          ELSE [category |-> CategoryName(c), assetbundleName |-> Variant(c).assetbundleName,
                musicVocalId |-> Get(Variant(c), "musicVocalId")]
  IN  MapSeq(Selected(VideoCategories(db, m), Shown), Video)

MusicOriginals(db, id) ==
  MapSeq(Selected(ListByIndex(db, "musicoriginals", "musicId", id),
                   LAMBDA o : Get(o, "id") # None /\ Get(o, "videoLink") # None),
         LAMBDA o : Pick(o, {"id", "musicId", "videoLink"}))

MusicDetail(db, m) ==
  Ok([music |-> BuildMusic(db, m), difficulties |-> MusicDifficulties(db, m.id, FALSE),
      vocals |-> MusicVocals(db, m.id), tags |-> MusicTags(db, m.id),
      categories |-> MusicCategories(db, m), musicVideos |-> MusicVideos(db, m),
      musicOriginals |-> MusicOriginals(db, m.id)])

MusicAnswer(world, q, now) ==
  LET db == world[q.region].db
      m  == GetByID(db, "musics", q.id)
  IN  IF q.route = "musics/list" THEN MusicList(db, q, now)
      ELSE IF m = None THEN Fail(404)
      ELSE CASE q.route = "musics/id" -> Ok(BuildMusic(db, m))
             [] q.route = "musics/detail" -> MusicDetail(db, m)
             [] q.route = "musics/difficulties" -> Ok(MusicDifficulties(db, m.id, FALSE))
             [] q.route = "musics/vocals" -> Ok(MusicVocals(db, m.id))

=============================================================================
