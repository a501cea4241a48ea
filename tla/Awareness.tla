----------------------------- MODULE Awareness -----------------------------
(***************************************************************************)
(* The navigation mesh that minds of one kind share                        *)
(* (src/navigation/Awareness.cpp, with the calls that AwareMind.cpp and    *)
(* Steering.cpp make).                                                     *)
(*                                                                         *)
(* The mesh consists of tiles.  Each mind reports the entities it sees,    *)
(* with the time of what it knows, and asks for the tiles around its way.  *)
(* Tiles that something changed on are marked dirty, and rebuilt one at a  *)
(* time if some mind asks for them.                                        *)
(*                                                                         *)
(* What is known of an entity is abstracted to its place: "solid" with the *)
(* tiles that its area covers, "none" without a valid bbox, "flat" if it   *)
(* is not solid or can be stepped over.  Areas have the time they were     *)
(* built, as areas on the same tiles still differ.  The order in which     *)
(* dirty tiles wait and the order in which tiles were used are left open.  *)
(***************************************************************************)
EXTENDS Integers, FiniteSets, Functions

CONSTANTS
    Minds,          \* minds of one kind in one domain
    Seen,           \* entities
    Avatar,         \* the entity of each mind
    Tiles,
    Places,         \* the sets of tiles that an area may cover
    Requests,       \* the sets of tiles that a mind may ask for
    MaxStamp,       \* bound: times of what is known
    DesiredTiles,   \* mDesiredTilesAmount
    MaxTerrain,     \* bound: changes of the terrain
    MaxLapses       \* bound: tiles that are unbuilt or unheeded

ASSUME AwarenessAssumption ==
    /\ Places \subseteq SUBSET Tiles /\ Requests \subseteq SUBSET Tiles
    /\ MaxStamp \in Nat /\ DesiredTiles \in Nat /\ MaxTerrain \in Nat /\ MaxLapses \in Nat

VARIABLES
    known,          \* the entities that each mind knows
    observed,       \* mObservedEntities: the entries
    areas,          \* mEntityAreas: by entity
    awareAreas,     \* mAwareAreas: by the id of a mind's entity
    dirtyAware,     \* mDirtyAwareTiles
    dirtyUnaware,   \* mDirtyUnwareTiles
    active,         \* mActiveTileList
    mesh,           \* the tiles of mTileCache: what they were built from
    terrain,        \* how often the terrain of each tile changed
    unbuilt,        \* history: the tiles whose last rebuilding yielded nothing
    unheeded        \* history: the tiles whose terrain changed, since they were built, through
                    \* a mind that does not use this mesh

historyVars == <<unbuilt, unheeded>>
awarenessVars == <<known, observed, areas, awareAreas, dirtyAware, dirtyUnaware, active, mesh, terrain, historyVars>>

AwarenessInit ==
    /\ known = [m \in Minds |-> {}]
    /\ observed = <<>> /\ areas = <<>> /\ awareAreas = <<>>
    /\ dirtyAware = {} /\ dirtyUnaware = {} /\ active = {}
    /\ mesh = <<>>
    /\ terrain = [t \in Tiles |-> 0]
    /\ unbuilt = {} /\ unheeded = {}

\* mAwareTiles: the tiles with a count, which is the number of areas they are in.
AwareTiles == UNION Range(awareAreas)

\* A table with one more entry, or another one.
Entered(f, k, v) == [x \in DOMAIN f \cup {k} |-> IF x = k THEN v ELSE f[x]]

\* markTilesAsDirty()
MarkTilesAsDirty(tiles) ==
    /\ dirtyAware' = dirtyAware \cup (tiles \cap AwareTiles)
    /\ dirtyUnaware' = dirtyUnaware \cup (tiles \ AwareTiles)

\* The tiles of an entity's present area.
AreaOf(e) == IF e \in DOMAIN areas THEN areas[e].tiles ELSE {}

\* The entity has a new area: the tiles of the old and of the new one are dirty.
SetArea(e, area) ==
    /\ MarkTilesAsDirty(AreaOf(e) \cup area.tiles)
    /\ areas' = Entered(areas, e, area)

\* The entity has no area any more.
DropArea(e) ==
    /\ MarkTilesAsDirty(AreaOf(e))
    /\ areas' = Restrict(areas, DOMAIN areas \ {e})

SameAreas == UNCHANGED <<areas, dirtyAware, dirtyUnaware>>

\* processEntityUpdate() of an entry, given the place and the movement that are known
\* and since when.  What is not newer than the entry is not taken; an entity that moves
\* is left to obstacle avoidance from then on.  A minor change keeps the old area.
ProcessEntityUpdate(e, entry, place, moving, stamp) ==
    IF stamp <= entry.stamp
    THEN observed' = Entered(observed, e, entry) /\ SameAreas
    ELSE LET new == [entry EXCEPT !.stamp = stamp, !.ignored = IF entry.moving THEN @ ELSE place.bbox = "none",
                                  !.moving = @ \/ (place.bbox # "none" /\ moving)]
         IN  /\ observed' = Entered(observed, e, new)
             /\ IF entry.moving \/ (place.bbox = "flat" /\ ~ moving)
                THEN SameAreas
                ELSE IF place.bbox = "none" \/ moving
                THEN DropArea(e)
                ELSE \/ SetArea(e, [tiles |-> place.tiles, at |-> stamp])
                     \/ e \in DOMAIN areas /\ areas[e].tiles = place.tiles /\ SameAreas

\* addEntity()
AddEntry(m, e, isDynamic, place, moving, stamp) ==
    LET isOwn == Avatar[m] = e
        entry == IF e \in DOMAIN observed
                 THEN [observed[e] EXCEPT !.observers = @ + 1, !.owned = @ \/ isOwn]
                 ELSE [observers |-> 1, stamp |-> 0, ignored |-> place.bbox = "none", moving |-> isDynamic,
                       owned |-> isOwn]
    IN  IF (~ entry.owned /\ entry.observers = 1) \/ isOwn
        THEN ProcessEntityUpdate(e, entry, place, moving, stamp)
        ELSE observed' = Entered(observed, e, entry) /\ SameAreas

\* removeEntity()
RemoveEntry(m, e) ==
    IF e \notin DOMAIN observed
    THEN UNCHANGED observed /\ SameAreas
    ELSE IF observed[e].observers = 1
    THEN /\ observed' = Restrict(observed, DOMAIN observed \ {e})
         /\ DropArea(e)
    ELSE /\ observed' = [observed EXCEPT ![e].observers = @ - 1, ![e].owned = @ /\ Avatar[m] # e]
         /\ SameAreas

\* A mind comes to know an entity of its domain.
EntityAdded(m, e, place, moving, stamp) ==
    /\ e \notin known[m]
    /\ known' = [known EXCEPT ![m] = @ \cup {e}]
    /\ AddEntry(m, e, e = Avatar[m], place, moving, stamp)
    /\ UNCHANGED <<awareAreas, active, mesh, terrain, historyVars>>

\* A mind learns something new of one: updateEntity(), with the entity in the domain ...
EntityUpdated(m, e, place, moving, stamp) ==
    /\ e \in known[m]
    /\ IF e \in DOMAIN observed
       THEN ProcessEntityUpdate(e, observed[e], place, moving, stamp)
       ELSE AddEntry(m, e, TRUE, place, moving, stamp)
    /\ UNCHANGED <<known, awareAreas, active, mesh, terrain, historyVars>>

\* ... or outside it.
EntityLeft(m, e) ==
    /\ e \in known[m]
    /\ RemoveEntry(m, e)
    /\ UNCHANGED <<known, awareAreas, active, mesh, terrain, historyVars>>

\* A mind forgets an entity; one that is destroyed forgets all.  The tiles it asked for
\* stay aware: it returns them under its own id, not under that of its entity.
EntityDeleted(m, e) ==
    /\ e \in known[m]
    /\ known' = [known EXCEPT ![m] = @ \ {e}]
    /\ RemoveEntry(m, e)
    /\ UNCHANGED <<awareAreas, active, mesh, terrain, historyVars>>

\* Mutant: a tile that is not asked for any more is forgotten though it is dirty.
SetAwarenessArea_Forgets(m, tiles) ==
    LET old == IF Avatar[m] \in DOMAIN awareAreas THEN awareAreas[Avatar[m]] ELSE {}
    IN  /\ awareAreas' = Entered(awareAreas, Avatar[m], tiles)
        /\ dirtyAware' = (dirtyAware \cup (tiles \cap dirtyUnaware) \cup (tiles \ DOMAIN mesh)) \ (old \ UNION Range(awareAreas'))
        /\ dirtyUnaware' = dirtyUnaware \ tiles
        /\ active' = active \cup tiles
        /\ UNCHANGED <<known, observed, areas, mesh, terrain, historyVars>>

\* setAwarenessArea() and returnAwareTiles(): a mind asks for the tiles around its way.
\* Those that were never built, or were dirty, are to be built; dirty ones that nobody
\* asks for any more stay dirty.
SetAwarenessArea(m, tiles) ==
    LET old == IF Avatar[m] \in DOMAIN awareAreas THEN awareAreas[Avatar[m]] ELSE {}
        dirty == dirtyAware \cup (tiles \cap dirtyUnaware) \cup (tiles \ DOMAIN mesh)
    IN  /\ awareAreas' = Entered(awareAreas, Avatar[m], tiles)
        /\ LET returned == old \ UNION Range(awareAreas')
           IN  /\ dirtyAware' = dirty \ returned
               /\ dirtyUnaware' = (dirtyUnaware \ tiles) \cup (dirty \cap returned)
        /\ active' = active \cup tiles
        /\ UNCHANGED <<known, observed, areas, mesh, terrain, historyVars>>

\* What a tile is built from.
Content(t) == [areas |-> {<<e, areas[e].at>> : e \in {x \in DOMAIN areas : t \in areas[x].tiles}},
               terrain |-> terrain[t]]

\* Room for lapses on some more tiles.
LapseAllowed(tiles) == Cardinality(unbuilt \cup unheeded \cup tiles) <= MaxLapses

\* rebuildDirtyTile(): the tile is built anew.  If rebuildTile() yields no layer (nothing
\* on the tile can be walked on, or the cache is full) what was built earlier stays.  The
\* mark is taken away in either case.
RebuildDirtyTile(t) ==
    /\ t \in dirtyAware
    /\ dirtyAware' = dirtyAware \ {t}
    /\ \/ mesh' = Entered(mesh, t, Content(t)) /\ unbuilt' = unbuilt \ {t} /\ unheeded' = unheeded \ {t}
       \/ LapseAllowed({t}) /\ unbuilt' = unbuilt \cup {t} /\ UNCHANGED <<mesh, unheeded>>
    /\ UNCHANGED <<known, observed, areas, awareAreas, dirtyUnaware, active, terrain>>

\* pruneTiles(), called when nothing is dirty.
PruneTiles(t) ==
    /\ dirtyAware = {}
    /\ Cardinality(active) > DesiredTiles /\ Cardinality(active) > Cardinality(AwareTiles)
    /\ t \in active
    /\ active' = active \ {t}
    /\ mesh' = Restrict(mesh, DOMAIN mesh \ {t}) /\ unbuilt' = unbuilt \ {t} /\ unheeded' = unheeded \ {t}
    /\ UNCHANGED <<known, observed, areas, awareAreas, dirtyAware, dirtyUnaware, terrain>>

\* The terrain, which minds of all kinds share, has changed.
SetBasePoints(tiles) ==
    /\ \A t \in tiles : terrain[t] < MaxTerrain
    /\ terrain' = [t \in Tiles |-> IF t \in tiles THEN terrain[t] + 1 ELSE terrain[t]]

\* parseTerrain() of a mind that uses this mesh: the tiles are marked ...
TerrainChanged(tiles) ==
    /\ SetBasePoints(tiles)
    /\ MarkTilesAsDirty(tiles)
    /\ UNCHANGED <<known, observed, areas, awareAreas, active, mesh, historyVars>>

\* ... and of one that has no awareness yet, or that of another kind: they are not, and
\* whoever is told of the same points later finds them unchanged.
TerrainChangedElsewhere(tiles) ==
    /\ LapseAllowed(tiles)
    /\ SetBasePoints(tiles)
    /\ unheeded' = unheeded \cup tiles
    /\ UNCHANGED <<known, observed, areas, awareAreas, dirtyAware, dirtyUnaware, active, mesh, unbuilt>>

\* Steering::updatePath(): no path was found, so the tiles at its ends are built again.
NoPath(tiles) ==
    /\ MarkTilesAsDirty(tiles)
    /\ UNCHANGED <<known, observed, areas, awareAreas, active, mesh, terrain, historyVars>>

KnownPlaces == [bbox : {"solid"}, tiles : Places] \cup [bbox : {"none", "flat"}, tiles : {{}}]

AwarenessNext ==
    \/ \E m \in Minds, e \in Seen, place \in KnownPlaces, moving \in BOOLEAN,
          stamp \in 1 .. MaxStamp :
          \/ EntityAdded(m, e, place, moving, stamp)
          \/ EntityUpdated(m, e, place, moving, stamp)
    \/ \E m \in Minds, e \in Seen : EntityLeft(m, e) \/ EntityDeleted(m, e)
    \/ \E m \in Minds, tiles \in Requests : SetAwarenessArea(m, tiles)
    \/ \E t \in Tiles : RebuildDirtyTile(t) \/ PruneTiles(t)
    \/ \E tiles \in Places : TerrainChanged(tiles) \/ TerrainChangedElsewhere(tiles) \/ NoPath(tiles)

AwarenessSpec == AwarenessInit /\ [][AwarenessNext]_awarenessVars

-----------------------------------------------------------------------------

\* A tile of the mesh that is not marked dirty shows exactly the areas that touch it,
\* whoever reported them, unless its last rebuilding yielded nothing; and the present
\* terrain, unless that changed through a mind that does not use this mesh.  An active
\* tile is built or marked, or there was nothing to build; and what is marked as aware is
\* asked for by somebody, so that it is built in the end.  Only entities that are
\* observed and stand still have an area (Awareness.cpp: markTilesAsDirty(),
\* setAwarenessArea(), returnAwareTiles(), rebuildDirtyTile()).
MeshCurrent ==
    /\ \A t \in DOMAIN mesh \ (dirtyAware \cup dirtyUnaware \cup unbuilt) :
          /\ mesh[t].areas = Content(t).areas
          /\ t \notin unheeded => mesh[t].terrain = terrain[t]
    /\ active \subseteq DOMAIN mesh \cup dirtyAware \cup dirtyUnaware \cup unbuilt
    /\ dirtyAware \subseteq AwareTiles /\ dirtyUnaware \cap AwareTiles = {}
    /\ \A e \in DOMAIN areas : e \in DOMAIN observed /\ ~ observed[e].moving /\ ~ observed[e].ignored
=============================================================================
