------------------------------- MODULE Memory -------------------------------
(***************************************************************************)
(* What a mind of the AI client remembers: MemMap, TypeResolver and the    *)
(* operations of BaseMind that change them (src/rules/ai).                 *)
(*                                                                         *)
(* The mind learns of entities from what it perceives, piece by piece and  *)
(* in any order: that one exists, where it is, what is in it, and of which *)
(* type it is.  A type that is not known is asked for, and so are the      *)
(* types it comes from; the entities of that type wait until all of them   *)
(* have been told.                                                         *)
(*                                                                         *)
(* The minds of a client share the store of types and nothing else: each   *)
(* has its own list of types it waits for.  The module follows one of      *)
(* them; what the others do to it is to put types into the store.          *)
(***************************************************************************)
EXTENDS Integers, FiniteSets, Functions

CONSTANTS
    Things,        \* the entities that may be perceived
    NoThing,       \* the parent of one that is nowhere
    ThingType,     \* the type of each
    TypeParent,    \* the type each type comes from
    TopType        \* the one type that is known from the start

TypeNames == DOMAIN TypeParent

ASSUME MemoryAssumption ==
    /\ NoThing \notin Things /\ TopType \notin TypeNames
    /\ ThingType \in [Things -> TypeNames]
    /\ TypeParent \in [TypeNames -> TypeNames \cup {TopType}]

VARIABLES
    remembered,   \* m_entities
    seen,         \* those that are visible
    within,       \* m_parent of each entity
    contents,       \* m_contains of each entity
    typed,        \* the entities that have their type
    untyped,   \* m_unresolvedEntities, by type; an entity that is deleted stays there
    typeStore,    \* the types that are known, to all minds of the client
    pendingTypes, \* m_pendingTypes: whether the type was told, and who comes from it
    asking        \* the Get operations for types that are queued or sent

memoryVars == <<remembered, seen, within, contents, typed, untyped,
                typeStore, pendingTypes, asking>>
placeVars == <<remembered, within, contents>>
typeVars == <<typeStore, pendingTypes, asking>>

MemoryInit ==
    /\ remembered = {} /\ seen = {}
    /\ within = [e \in Things |-> NoThing] /\ contents = [e \in Things |-> {}]
    /\ typed = {}
    /\ untyped = [t \in TypeNames |-> {}]
    /\ typeStore = {TopType} /\ pendingTypes = <<>> /\ asking = {}

\* requestType(): a type that is neither known nor asked for is asked for.
RequestType(t, pending, gets) ==
    IF t \in typeStore \cup DOMAIN pending THEN <<pending, gets>>
    ELSE <<[s \in DOMAIN pending \cup {t} |->
              IF s = t THEN [told |-> FALSE, children |-> {}] ELSE pending[s]], gets \cup {t}>>

\* The part of readEntity() about where an entity is; an entity in itself is refused.
Placed(e, loc) ==
    IF loc \in {NoThing, e, within[e]} THEN UNCHANGED <<within, contents>>
    ELSE /\ within' = [within EXCEPT ![e] = loc]
         /\ contents' = [x \in Things |-> IF x = loc THEN contents[x] \cup {e} ELSE contents[x] \ {e}]

\* The part of readEntity() about its type: applied, or waited for.
Typed(e, hasType) ==
    LET t == ThingType[e]
        request == RequestType(t, pendingTypes, asking)
    IN  IF ~hasType \/ e \in typed THEN UNCHANGED <<typed, untyped, typeVars>>
        ELSE IF t \in typeStore
        THEN typed' = typed \cup {e} /\ UNCHANGED <<untyped, typeVars>>
        ELSE /\ untyped' = [untyped EXCEPT ![t] = @ \cup {[of |-> e, alive |-> TRUE]}]
             /\ pendingTypes' = request[1] /\ asking' = request[2]
             /\ UNCHANGED <<typed, typeStore>>

\* updateAdd(): the sight of an entity, or of a Set operation on it, which does not
\* make it visible.  Its container and its content are remembered with it.
UpdateAdd(e, loc, content, hasType, visible) ==
    /\ remembered' = remembered \cup {e} \cup content \cup ({loc} \ {NoThing})
    /\ seen' = IF visible THEN seen \cup {e} ELSE seen
    /\ Placed(e, loc)
    /\ Typed(e, hasType)

\* AppearanceOperation(), and any other operation from an entity: getAdd().
Appear(e) ==
    /\ remembered' = remembered \cup {e}
    /\ seen' = seen \cup {e}
    /\ UNCHANGED <<within, contents, typed, untyped, typeVars>>

\* LocatedEntity::destroy() and MemEntity::destroy(): the entity leaves its container,
\* and so does everything below it.
Detached(gone) ==
    LET below == UNION {contents[x] : x \in gone}
        deeper == below \cup UNION {contents[x] : x \in below}
    IN  /\ within' = [x \in Things |-> IF x \in gone \cup deeper THEN NoThing ELSE within[x]]
        /\ contents' = [x \in Things |-> contents[x] \ (gone \cup deeper)]

\* del(), for DisappearanceOperation() and UnseenOperation(): the entity is forgotten.
\* m_unresolvedEntities is searched for the entity's id where it has types, so the
\* entity goes on waiting for its type there.
Del(e) ==
    /\ e \in remembered
    /\ remembered' = remembered \ {e}
    /\ seen' = seen \ {e}
    /\ typed' = typed \ {e}
    /\ untyped' = [t \in TypeNames |->
          {IF u.of = e THEN [u EXCEPT !.alive = FALSE] ELSE u : u \in untyped[t]}]
    /\ Detached({e})
    /\ UNCHANGED typeVars

\* check(): an entity with a type that was not seen for long and has no content.
CheckForgets(e) ==
    /\ e \in remembered /\ e \in typed \ seen /\ contents[e] = {}
    /\ remembered' = remembered \ {e}
    /\ typed' = typed \ {e}
    /\ Detached({e})
    /\ UNCHANGED <<seen, untyped, typeVars>>

\* Mutant: the types that come from a resolved one are left for their own answers.
NowResolved_Alone(t) == {t}

\* resolveType(): a type is resolved together with those that come from it and were
\* told, and with those that come from them.
NowResolved(t) ==
    LET Told(s) == s \in DOMAIN pendingTypes /\ pendingTypes[s].told
        Closed(S) == \A s \in S \cap DOMAIN pendingTypes :
                        \A c \in pendingTypes[s].children : Told(c) => c \in S
    IN  {s \in TypeNames : \A S \in SUBSET TypeNames : t \in S /\ Closed(S) => s \in S}

\* InfoOperation() of the resolver and of the mind: a type is told.  It waits for its
\* parent or is resolved, and then the entities that waited for it get their type.  The
\* Gets on their way are gets, but for one for the parent.
TypeInfo(t, gets) ==
    LET p == TypeParent[t]
        told == [s \in DOMAIN pendingTypes \cup {t} |->
                    IF s # t THEN pendingTypes[s]
                    ELSE [told |-> TRUE, children |-> IF t \in DOMAIN pendingTypes
                                                      THEN pendingTypes[t].children ELSE {}]]
        request == RequestType(p, told, gets)
        new == NowResolved(t)
    IN  /\ IF p \notin typeStore
           THEN /\ pendingTypes' = [request[1] EXCEPT ![p].children = @ \cup {t}]
                /\ asking' = request[2]
                /\ UNCHANGED <<typeStore, typed, untyped>>
           ELSE /\ typeStore' = typeStore \cup new
                /\ pendingTypes' = [s \in DOMAIN pendingTypes \ new |-> pendingTypes[s]]
                /\ asking' = gets
                /\ typed' = typed \cup {e \in Things : \E s \in new : [of |-> e, alive |-> TRUE] \in untyped[s]}
                /\ untyped' = [s \in TypeNames |-> IF s \in new THEN {} ELSE untyped[s]]
        /\ UNCHANGED <<placeVars, seen>>

\* The answer to a Get of this mind: it is sent to the mind that asked.
Answered(t) == t \in asking /\ TypeInfo(t, asking \ {t})

\* An Info that is addressed to the account is given to all minds, whether they asked or not.
Overheard(t) == TypeInfo(t, asking)

\* Another mind of the client resolves a type: it is known at once, and nothing tells
\* this mind so.
OtherMindInstalls(t) ==
    /\ t \notin typeStore /\ TypeParent[t] \in typeStore
    /\ typeStore' = typeStore \cup {t}
    /\ UNCHANGED <<placeVars, seen, typed, untyped, pendingTypes, asking>>

MemoryNext ==
    \/ \E e \in Things, loc \in Things \cup {NoThing}, content \in Things \cup {NoThing},
          hasType \in BOOLEAN, visible \in BOOLEAN :
             /\ NoThing \in {loc, content}
             /\ UpdateAdd(e, loc, {content} \ {NoThing}, hasType, visible)
    \/ \E e \in Things : Appear(e) \/ Del(e) \/ CheckForgets(e)
    \/ \E t \in TypeNames : Answered(t) \/ Overheard(t) \/ OtherMindInstalls(t)

MemorySpec == MemoryInit /\ [][MemoryNext]_memoryVars

-----------------------------------------------------------------------------
\* The remembered world hangs together: in whatever order entities are perceived, moved
\* and forgotten, an entity is in the content of its container and in no other, and
\* both are remembered.
MemoryTree ==
    \A e, p \in Things :
        /\ e \in contents[p] <=> within[e] = p
        /\ e \in contents[p] => {e, p} \subseteq remembered

\* No entity waits in vain, whatever the other minds have put into the store in the
\* meantime: the type it waits for is one this mind still has pending, and such a type
\* is asked for or waits, told, for a parent that this mind has pending too and whose
\* answer will resolve it.  The type itself may be in the store already.
NobodyWaitsInVain ==
    /\ \A t \in TypeNames : untyped[t] # {} => t \in DOMAIN pendingTypes
    /\ \A t \in DOMAIN pendingTypes :
          /\ t \in asking \/ pendingTypes[t].told
          /\ pendingTypes[t].told =>
                /\ TypeParent[t] \in DOMAIN pendingTypes
                /\ t \in pendingTypes[TypeParent[t]].children

\* What a mind remembers is sound: the entities hang together, and those whose type it
\* does not know will learn it (MemMap.cpp and TypeResolver.cpp).
MemorySound == MemoryTree /\ NobodyWaitsInVain

=============================================================================
