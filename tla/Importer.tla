------------------------------ MODULE Importer ------------------------------
(***************************************************************************)
(* Restoring a world from a dump (src/tools/EntityImporterBase.cpp).       *)
(*                                                                         *)
(* The importer walks the tree of the persisted entities and has one       *)
(* request under way at a time: it asks for an entity, and updates it or   *)
(* creates it anew, which gives it a new id.  Properties that refer to     *)
(* other entities are held back until those have their new ids, and what   *)
(* is left of them is set in the end, all at once.                         *)
(*                                                                         *)
(* The server is modelled by what it may answer.                           *)
(***************************************************************************)
EXTENDS Integers, Sequences, SequencesExt, FiniteSetsExt

CONSTANTS
    Root,         \* the world, which exists on every server
    Children,     \* the children of each persisted entity, in order
    Refers        \* the entities the properties of each one refer to

Persisted == DOMAIN Children

\* The dump is a tree: each entity but the world is in one place, and in the world,
\* directly or not.
ASSUME ImporterAssumption ==
    /\ Root \in Persisted /\ DOMAIN Refers = Persisted
    /\ \A o \in Persisted : Children[o] \in Seq(Persisted \ {Root})
    /\ \A o, p \in Persisted : \A i \in DOMAIN Children[o], j \in DOMAIN Children[p] :
          Children[o][i] = Children[p][j] => o = p /\ i = j
    /\ \A S \in SUBSET Persisted :
          (Root \in S /\ \A o \in S : Range(Children[o]) \subseteq S) => S = Persisted

VARIABLES
    alwaysCreate,   \* mAlwaysCreateNewEntities, a choice of the user
    importing,      \* m_state
    treeStack,      \* mTreeStack: the entity, the child reached, and which id it has now
    idMap,          \* mEntityIdMap: the entities that were created
    unresolved,     \* mEntitiesWithReferenceAttributes
    setsInTransit,  \* the entities whose last Set operation is not answered
    updated,        \* the entities that were found on the server
    refused,        \* history: those whose last Set operation the server did not apply
    located,        \* for each entity asked for: the one it was put in, and its id
    referred        \* the references on the server: from, to, and whether by the new id

importerVars == <<alwaysCreate, importing, treeStack, idMap, unresolved, setsInTransit,
                  updated, refused, located, referred>>

StackEntry(o, restored) == [obj |-> o, child |-> 0, restored |-> restored]

\* start(), startEntityWalking() and the sight of the world.
ImporterInit ==
    /\ alwaysCreate \in BOOLEAN
    /\ importing = "WALKING"
    /\ treeStack = <<StackEntry(Root, "none")>>
    /\ idMap = {}
    /\ unresolved = {o \in Persisted : Refers[o] # {}}
    /\ setsInTransit = {}
    /\ updated = {}
    /\ refused = {}
    /\ located = {}
    /\ referred = {}

CurrentEntry == Last(treeStack)

\* resolveEntityReferences(): the new ids of what was created, in place of those in
\* the dump.
References(o, created) ==
    {<<o, r, IF r \in created THEN "new" ELSE "old">> : r \in Refers[o]}

\* The frames that still have a child to go to, in the tree down to the current one.
Unfinished(stack) == {i \in DOMAIN stack : stack[i].child < Len(Children[stack[i].obj])}

\* The part of the tree walkEntities() keeps on its stack: the current entity has
\* children, or one of those above it has another child.
WalkTo(stack) ==
    IF Unfinished(stack) = {} THEN <<>> ELSE SubSeq(stack, 1, Max(Unfinished(stack)))

\* createEntity(): the entity is to be created in the one above it on the stack.  A
\* property that refers to other entities goes with it when all of them have been
\* created, and is held back otherwise.
Creation(stack, o, created) ==
    LET ready == Refers[o] \subseteq created
    IN  /\ importing' = "CREATING"
        /\ treeStack' = Append(stack, StackEntry(o, "none"))
        /\ unresolved' = IF ready THEN unresolved \ {o} ELSE unresolved
        /\ located' = located \cup {<<o, Last(stack).obj, Last(stack).restored>>}
        /\ referred' = IF ready THEN referred \cup References(o, created) ELSE referred
        /\ UNCHANGED <<setsInTransit, updated>>

\* Mutant: an entity is only sent what it refers to when all of that was created.
SendResolved_OnlyReady(created) ==
    LET found == {o \in unresolved \cap created : Refers[o] \subseteq created}
    IN  /\ importing' = IF found = {} THEN "COMPLETED" ELSE "REF_RESOLVING"
        /\ setsInTransit' = found
        /\ UNCHANGED <<unresolved, updated, located, referred>>

\* sendResolvedEntityReferences(): a Set operation for every entity that was created
\* and has properties left.  With nothing left the import is complete.
SendResolved(created) ==
    /\ importing' = IF unresolved = {} THEN "COMPLETED" ELSE "REF_RESOLVING"
    /\ setsInTransit' = unresolved \cap created
    /\ UNCHANGED <<unresolved, updated, located, referred>>

\* walkEntities() and getOrCreateEntity(), from a stack with the current entity on top.
WalkEntities(stack, created) ==
    LET rest == WalkTo(stack)
        n == Len(rest)
        on == [rest EXCEPT ![n].child = @ + 1]
        next == Children[on[n].obj][on[n].child]
    IN  /\ idMap' = created
        /\ IF rest = <<>> THEN treeStack' = <<>> /\ SendResolved(created)
           ELSE IF alwaysCreate THEN Creation(on, next, created)
           ELSE /\ importing' = "WALKING"
                /\ treeStack' = Append(on, StackEntry(next, "none"))
                /\ UNCHANGED <<unresolved, setsInTransit, updated, located, referred>>

RestoredAs(id) == [treeStack EXCEPT ![Len(treeStack)].restored = id]

\* The entity exists and is of the same type: it is updated with all that the dump
\* has, its references as they are there.
InfoExists ==
    /\ importing = "WALKING"
    /\ importing' = "UPDATING"
    /\ treeStack' = RestoredAs("old")
    /\ updated' = updated \cup {CurrentEntry.obj}
    /\ referred' = referred \cup References(CurrentEntry.obj, {})
    /\ UNCHANGED <<idMap, unresolved, setsInTransit, located>>

\* The entity does not exist, is of another type, or is one that was created under
\* the same id: it is created.  The world always exists.
InfoOther ==
    /\ importing = "WALKING" /\ CurrentEntry.obj # Root
    /\ UNCHANGED idMap
    /\ Creation(Front(treeStack), CurrentEntry.obj, idMap)

\* The sight of the Set operation: on to the next one.
SightOfUpdate == importing = "UPDATING" /\ WalkEntities(treeStack, idMap)

\* The server refuses the update: the error is logged, nothing is under way any more
\* and nothing follows.
UpdateRefused ==
    /\ importing = "UPDATING"
    /\ importing' = "STALLED"
    /\ UNCHANGED <<treeStack, idMap, unresolved, setsInTransit, updated, located, referred>>

\* The entity was created.
InfoCreated ==
    /\ importing = "CREATING"
    /\ WalkEntities(RestoredAs("new"), idMap \cup {CurrentEntry.obj})

\* The server could not create it: on to the next one, which is a child of it if it
\* has any.
CreateRefused == importing = "CREATING" /\ WalkEntities(treeStack, idMap)

\* operationSetResult(): any answer counts, and the last one completes the import.  An
\* Error, or the Unseen of an entity that is gone, is not told from a Sight.
SetResult(o, applied) ==
    /\ o \in setsInTransit
    /\ setsInTransit' = setsInTransit \ {o}
    /\ referred' = IF applied THEN referred \cup References(o, idMap) ELSE referred
    /\ refused' = IF applied THEN refused ELSE refused \cup {o}
    /\ importing' = IF importing = "REF_RESOLVING" /\ setsInTransit' = {} THEN "COMPLETED" ELSE importing
    /\ UNCHANGED <<treeStack, idMap, unresolved, updated, located>>

\* cancel().
CancelImport ==
    /\ importing \in {"WALKING", "UPDATING", "CREATING", "REF_RESOLVING"}
    /\ importing' = "CANCEL"
    /\ UNCHANGED <<treeStack, idMap, unresolved, setsInTransit, updated, located, referred>>

\* operation() drops the answer that was under way, and all that come later.
AnswerDropped ==
    /\ importing = "CANCEL" /\ treeStack # <<>>
    /\ importing' = "CANCELLED"
    /\ UNCHANGED <<treeStack, idMap, unresolved, setsInTransit, updated, located, referred>>

ImporterNext ==
    /\ UNCHANGED alwaysCreate
    /\ \/ /\ UNCHANGED refused
          /\ \/ InfoExists \/ InfoOther \/ SightOfUpdate \/ UpdateRefused
             \/ InfoCreated \/ CreateRefused
             \/ CancelImport \/ AnswerDropped
       \/ \E o \in Persisted, applied \in BOOLEAN : SetResult(o, applied)

ImporterSpec == ImporterInit /\ [][ImporterNext]_importerVars

-----------------------------------------------------------------------------
\* What is created is where it was and refers to what it referred to: an entity is
\* created in its own container, by the id that has now (or by none, when that could
\* not be created), and when the import is complete every persisted entity was
\* updated or asked for, once, and each property of a created entity refers to the
\* created entities by their new ids and to all others by their old ones, or, when the
\* server has refused the last Set operation, is missing and not wrong.
ImportFaithful ==
    /\ \A l \in located :
          /\ l[1] \in Range(Children[l[2]])
          /\ l[3] = CASE l[2] \in idMap -> "new" [] l[2] \in updated -> "old" [] OTHER -> "none"
    /\ importing = "COMPLETED" =>
          /\ \A o \in Persisted \ updated : Cardinality({l \in located : l[1] = o}) = 1
          /\ \A o \in idMap :
                {t \in referred : t[1] = o} = IF o \in refused THEN {} ELSE References(o, idMap)

=============================================================================
