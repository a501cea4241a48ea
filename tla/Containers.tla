----------------------------- MODULE Containers -----------------------------
(***************************************************************************)
(* Looking into containers, also into containers in containers             *)
(* (src/rules/simulation/ContainerDomain.cpp, InventoryDomain.cpp and the  *)
(* closeness observations of PhysicalDomain.cpp).                          *)
(*                                                                         *)
(* Whoever opens a container leaves an observation in the domain of every  *)
(* entity between him and the container.  Its callback, removeObserver(),  *)
(* closes the container for him when the domain sees them come apart:      *)
(* something is moved away, or the outer container is closed.  Closing     *)
(* calls further callbacks while the domains walk over their observations. *)
(*                                                                         *)
(* Observers stand in the physical domain of the world and have an         *)
(* inventory.  An observation is <<d, c, o>>: in the domain of d, of       *)
(* observer o, about the child of d that is or holds container c.          *)
(***************************************************************************)
EXTENDS Integers, FiniteSets, SequencesExt

CONSTANTS
    Top,          \* the world, which has a physical domain
    Observers,    \* characters in the world, with an inventory
    Containers    \* entities with a container domain

\* Not in the world: before a container is created and after it is destroyed.
Nowhere == "nowhere"

ASSUME ContainersAssumption ==
    /\ Top \notin Observers \cup Containers /\ Nowhere \notin {Top} \cup Observers \cup Containers
    /\ Observers \cap Containers = {}
    /\ IsFiniteSet(Containers)

VARIABLES
    inside,                    \* m_parent of each container, or Nowhere
    m_reachingEntities,        \* of each container: who has it open
    m_activeContainers,        \* ContainersActiveProperty of each observer
    m_closenessObservations,   \* the observations of all domains
    dangling,                  \* <<d, o>>: the entry of o in container d holds a freed observation
    freedRead                  \* a freed observation may have been read

containersVars == <<inside, m_reachingEntities, m_activeContainers,
                    m_closenessObservations, dangling, freedRead>>

Domains == {Top} \cup Observers \cup Containers

\* A container and those around it, from the inside outwards: what there is in every
\* set that has it and goes on from each of its members to the one around that.
Chain(loc, c) ==
    {e \in Containers : \A S \in SUBSET Containers :
        (c \in S /\ \A x \in S : loc[x] \in Containers => loc[x] \in S) => e \in S}

\* The entities that hold c, directly or not.
Holders(loc, c) == {loc[e] : e \in Chain(loc, c)} \ {Nowhere}

ContainersInit ==
    /\ inside = [c \in Containers |-> Nowhere]
    /\ m_reachingEntities = [c \in Containers |-> {}]
    /\ m_activeContainers = [o \in Observers |-> {}]
    /\ m_closenessObservations = {}
    /\ dangling = {}
    /\ freedRead = FALSE

\* The state as a record: the operations below call each other.
ContainersNow == [loc |-> inside, reaching |-> m_reachingEntities, active |-> m_activeContainers,
        obs |-> m_closenessObservations, dangling |-> dangling, freed |-> freedRead]

ContainersBecome(st) ==
    /\ inside' = st.loc
    /\ m_reachingEntities' = st.reaching
    /\ m_activeContainers' = st.active
    /\ m_closenessObservations' = st.obs
    /\ dangling' = st.dangling
    /\ freedRead' = st.freed

\* Mutant: closing a container leaves those in it open.
Closed_Alone(st, pairs) == pairs

\* What removeObserver() closes: the container, and through the observations in
\* its own domain everything the observer has open in it.
Closed(st, pairs) ==
    pairs \cup {<<x[2], x[3]>> : x \in {y \in st.obs : <<y[1], y[3]>> \in pairs}}

\* removeObserver() for the pairs <<container, observer>> and what they lead to.
RemoveObserver(st, pairs) ==
    LET closed == Closed(st, pairs)
    IN  [st EXCEPT
            !.reaching = [c \in Containers |-> {o \in @[c] : <<c, o>> \notin closed}],
            !.active = [o \in Observers |-> {c \in @[o] : <<c, o>> \notin closed}],
            !.obs = {x \in @ : <<x[2], x[3]>> \notin closed},
            !.dangling = @ \ closed]

\* The domains between an observer and a container: up to the observer, if he
\* carries it, or to the world he stands in.
Between(loc, c, o) ==
    IF o \in Holders(loc, c)
    THEN {d \in Holders(loc, c) : d = o \/ (d \in Containers /\ o \in Holders(loc, d))}
    ELSE Holders(loc, c)

\* observeCloseness() of the three kinds of domain: an inventory serves its owner,
\* a container those who have it open.
Observable(st, d, o) == d = Top \/ d = o \/ (d \in Containers /\ o \in st.reaching[d])

\* addObserver() for each of os: nothing changes for those whom one of the domains
\* refuses.  Whom they serve is settled for each observer on his own.
AddObservers(st, c, os) ==
    LET let == {o \in os : \A d \in Between(st.loc, c, o) : Observable(st, d, o)}
    IN  [st EXCEPT
            !.reaching[c] = @ \cup let,
            !.active = [o \in Observers |-> IF o \in let THEN @[o] \cup {c} ELSE @[o]],
            !.obs = @ \cup UNION {Between(st.loc, c, o) \X {c} \X {o} : o \in let}]

\* setObservers(), by a Set operation on the container's access property.
SetObservers(c, os) ==
    LET st    == ContainersNow
        added == AddObservers(st, c, os \ st.reaching[c])
    IN  /\ st.loc[c] # Nowhere
        /\ ContainersBecome(RemoveObserver(added, {<<c, o>> : o \in st.reaching[c] \ os}))

\* A CloseContainer operation.
CloseContainer(c, o) ==
    /\ o \in m_reachingEntities[c]
    /\ ContainersBecome(RemoveObserver(ContainersNow, {<<c, o>>}))

\* The observations in the domain of d that are about its child x.
About(st, d, x) == {y \in st.obs : y[1] = d /\ x \in Chain(st.loc, y[2])}

\* Two of the observations: the callback of one closes, and frees, the other.
OneFreesTheOther(st, ys) ==
    \E y, z \in ys : y # z /\ y[3] = z[3] /\ <<y[2], z[2], z[3]>> \in st.obs

\* removeEntity() of the domain x is in.  PhysicalDomain walks over a copy of x's
\* observations, which callbacks of earlier ones free.  ContainerDomain reads all
\* observations in its entries and leaves those it calls, and frees, in there.
RemoveEntity(st, x) ==
    LET d  == st.loc[x]
        ys == About(st, d, x)
        after == RemoveObserver(st, {<<y[2], y[3]>> : y \in ys})
    IN  IF d = Top
        THEN [after EXCEPT !.freed = @ \/ OneFreesTheOther(st, ys)]
        ELSE IF d \in Containers
        THEN [after EXCEPT
                !.freed = @ \/ \E o \in st.reaching[d] : <<d, o>> \in st.dangling,
                !.dangling = @ \cup {<<d, y[3]>> : y \in ys}]
        ELSE after

\* changeContainer()
Moved(st, x, to) ==
    LET after == IF st.loc[x] = Nowhere THEN st ELSE RemoveEntity(st, x)
    IN  [after EXCEPT !.loc[x] = to]

\* A Move operation; nothing is moved into itself.  Also how a container comes
\* into the world.
MoveContainer(x, to) ==
    /\ to # inside[x] /\ to # x
    /\ to \in Containers => inside[to] # Nowhere /\ x \notin Holders(inside, to)
    /\ ContainersBecome(Moved(ContainersNow, x, to))

\* The children are moved one after the other.
MovedOut(st, children, to) ==
    LET after[i \in 0 .. Len(children)] ==
            IF i = 0 THEN st ELSE Moved(after[i - 1], children[i], to)
    IN  after[Len(children)]

\* Entity::destroy(): what is in the container goes where the container is; then
\* the container leaves its parent, and its domain's removed() closes it.
DestroyContainer(x) ==
    /\ inside[x] # Nowhere
    /\ \E children \in SetToSeqs({c \in Containers : inside[c] = x}) :
          LET left == Moved(MovedOut(ContainersNow, children, inside[x]), x, Nowhere)
          IN  ContainersBecome(RemoveObserver(left, {<<x, o>> : o \in left.reaching[x]}))

\* sendMoveSight() after o or x has moved: the observations that are not within
\* reach any more are taken out one by one, each only if it is still there.
OutOfReach(o, x) ==
    LET ys == {y \in About(ContainersNow, Top, x) : y[3] = o}
    IN  /\ inside[x] = Top /\ ys # {}
        /\ ContainersBecome(RemoveObserver(ContainersNow, {<<y[2], y[3]>> : y \in ys}))

ContainersNext ==
    \E c \in Containers :
        \/ \E os \in SUBSET Observers : SetObservers(c, os)
        \/ \E o \in Observers : CloseContainer(c, o) \/ OutOfReach(o, c)
        \/ \E to \in Domains : MoveContainer(c, to)
        \/ DestroyContainer(c)

ContainersSpec == ContainersInit /\ [][ContainersNext]_containersVars

-----------------------------------------------------------------------------
\* Nobody looks into a container he has lost touch with: whoever has a container
\* open has an observation in every domain between him and it, and has every
\* container around it open too; his list of active containers says the same.
OpenOnlyInTouch ==
    /\ \A c \in Containers, o \in Observers :
          o \in m_reachingEntities[c] <=> c \in m_activeContainers[o]
    /\ \A c \in Containers : \A o \in m_reachingEntities[c] :
          /\ inside[c] # Nowhere
          /\ {d \in Domains : <<d, c, o>> \in m_closenessObservations} = Between(inside, c, o)
          /\ \A d \in Between(inside, c, o) : Observable(ContainersNow, d, o)

\* "Since closeness observations might be updated as part of the callbacks we need
\* to take extra precautions when iterating over them": no observation is read
\* after it was freed by a callback.
PrecautionsSuffice == ~freedRead
=============================================================================
