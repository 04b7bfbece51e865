---------------------------- MODULE HealthQueries ----------------------------
(***************************************************************************)
(* Readiness of a serving pod and the stored versions of the regions       *)
(* (internal/transport/http/handlers/system).  world[r].version is the     *)
(* stored payload, a function from fields to values, or None; Bad is a     *)
(* value the parser refuses.                                               *)
(***************************************************************************)
EXTENDS QueryBase

CONSTANT Bad

VersionFields == {"appVersion", "assetVersion", "dataVersion", "cdnVersion"}
UsableFields(payload) == {f \in VersionFields \cap DOMAIN payload : payload[f] # Bad}

IsCompleteVersionPayload(payload) == UsableFields(payload) # {}

RegionVersionReady(world, r) ==
  world[r].version # None /\ IsCompleteVersionPayload(world[r].version)

\* /versions/:region answers whatever is stored, /versions the usable fields.
VersionByRegion(world, r) ==
  IF world[r].version = None THEN Fail(404) ELSE Ok(world[r].version)

Versions(world) ==
  Ok([r \in {s \in DOMAIN world : RegionVersionReady(world, s)} |->
        Pick(world[r].version, UsableFields(world[r].version))])

\* Mutant: the version is not asked for.
RegionHasCards(world, r) == HasEntityRecords(world[r].db, "cards")

\* evaluateRegionReadiness: cards and a usable version; the status only says
\* whether a sync is pending.
RegionReady(world, r) == HasEntityRecords(world[r].db, "cards") /\ RegionVersionReady(world, r)
PendingSync(world, r) == RegionReady(world, r) /\ ~HasSuccessfulSync(world, r)

Ready(world) ==
  IF \A r \in DOMAIN world : RegionReady(world, r)
    THEN Ok([pendingSync |-> {r \in DOMAIN world : PendingSync(world, r)}])
    ELSE Fail(503)

=============================================================================
