----------------------------- MODULE Visibility -----------------------------
(***************************************************************************)
(* Who sees whom in a physical domain                                      *)
(* (src/rules/simulation/PhysicalDomain.cpp).                              *)
(*                                                                         *)
(* Every entry has a visibility sphere, and an entry that perceives has a  *)
(* view sphere as well.  The collision library reports when a sphere that  *)
(* is moved starts or stops touching another one; the report is recorded   *)
(* with the entry that was moved, and takes effect when that entry's turn  *)
(* comes in the queue of entries to recalculate.                           *)
(*                                                                         *)
(* Places are cells: a sphere covers the cells it reaches, and two spheres *)
(* touch when they have one in common.  That an entry observes itself and  *)
(* the domain's own entity is left out.  An entry stands for the memory of *)
(* a BulletEntry: one that is freed may be used again for another entity,  *)
(* and whoever still has its address then has that of the new one.         *)
(***************************************************************************)
EXTENDS Integers, Sequences, Functions

CONSTANTS
    Entries,      \* the entries of the domain
    Perceptive,   \* those whose entities may come to perceive
    Resizable,    \* those whose size changes
    AdminEntries, \* those whose view is updated as soon as they are moved
    Cells,        \* the places
    NoCell,       \* the position of an entry that is not in the domain
    MaxEntries,   \* VISIBILITY_CHECK_MAX_ENTRIES
    MaxUpheavals  \* bound on removals, resizings and changes of perception

ASSUME VisibilityAssumption ==
    /\ Perceptive \subseteq Entries /\ Resizable \subseteq Entries /\ AdminEntries \subseteq Entries
    /\ NoCell \notin Cells
    /\ MaxEntries \in Nat \ {0} /\ MaxUpheavals \in Nat

VARIABLES
    position,   \* the position property of each entry; NoCell outside the domain
    shapes,     \* viewShape and visibilityShape: whether they are large
    sight,      \* the spheres and what is recorded about them, see below
    recalculate,\* m_visibilityRecalculateQueue
    upheavals   \* the removals, resizings and changes of perception so far

visibilityVars == <<position, shapes, sight, recalculate, upheavals>>

\* Nothing was recorded about any other entry.
Quiet == [o \in Entries |-> "none"]

\* view, visible: the cells that the spheres cover; none for one that is not there.
\* observed, observing: observedByThis and observingThis.  observedChanges,
\* observingChanges: the changes to them that are recorded; of several about the same
\* entry the last one decides.  For the properties only: stale are the freed entries
\* whose appearance was recorded when they were freed; switched those whose perception
\* was switched on since they were last updated.
VisibilityInit ==
    /\ position = [e \in Entries |-> NoCell]
    /\ shapes = [view |-> {}, visible |-> {}]
    /\ sight = [view |-> [e \in Entries |-> {}], visible |-> [e \in Entries |-> {}],
                observed |-> [e \in Entries |-> {}], observing |-> [e \in Entries |-> {}],
                observedChanges |-> [e \in Entries |-> Quiet],
                observingChanges |-> [e \in Entries |-> Quiet],
                stale |-> [e \in Entries |-> {}], switched |-> {}]
    /\ recalculate = <<>>
    /\ upheavals = 0

\* The cells that a sphere with one of the given shapes covers around a place.
Cover(large, e, place) == IF e \in large THEN Cells ELSE {place}

\* What the collision library reports when one of the spheres is moved, by the entry
\* whose sphere it starts or stops touching.
Reports(recorded, e, spheres, from, to) ==
    LET touches(o, cells) == spheres[o] \cap cells # {}
    IN  [o \in Entries |->
           CASE o # e /\ touches(o, to) /\ ~ touches(o, from) -> "Add"
             [] o # e /\ touches(o, from) /\ ~ touches(o, to) -> "Remove"
             [] OTHER -> recorded[o]]

\* The entry's view sphere is put somewhere: what it observes may change.
PutView(s, e, to) ==
    [s EXCEPT !.view[e] = to,
              !.observedChanges[e] = Reports(@, e, s.visible, s.view[e], to)]

\* The same for an entry that may have none.
MoveView(s, e, to) == IF s.view[e] = {} THEN s ELSE PutView(s, e, to)

\* The entry's visibility sphere is moved: who observes it may change.
MoveVisible(s, e, to) ==
    [s EXCEPT !.visible[e] = to,
              !.observingChanges[e] = Reports(@, e, s.view, s.visible[e], to)]

\* A set of entries after the changes recorded about it.
Changed(set, changes) ==
    {o \in Entries : changes[o] = "Add" \/ (changes[o] = "none" /\ o \in set)}

\* The sets of the others, as the changes recorded with e are told to them.  What is
\* told to an entry that was freed is written to memory that is not the domain's.
Told(sets, e, changes, there) ==
    [o \in Entries |-> CASE o \in there /\ changes[o] = "Add" -> sets[o] \cup {e}
                         [] o \in there /\ changes[o] = "Remove" -> sets[o] \ {e}
                         [] OTHER -> sets[o]]

\* The entries that are in the domain.
InDomain(s) == {e \in Entries : s.visible[e] # {}}

\* updateObserverEntry(): moves the view sphere and applies what is recorded about
\* what the entry observes.  Without a view sphere it does nothing.
UpdateObserver(s, e, to) ==
    LET t == MoveView(s, e, to)
        changes == t.observedChanges[e]
    IN  IF s.view[e] = {} THEN s
        ELSE [t EXCEPT !.observed[e] = Changed(@, changes),
                       !.observing = Told(@, e, changes, InDomain(t)),
                       !.observedChanges[e] = Quiet]

\* updateObservedEntry(): the same for the visibility sphere and who observes it.
UpdateObserved(s, e, to) ==
    LET t == MoveVisible(s, e, to)
        changes == t.observingChanges[e]
    IN  [t EXCEPT !.observing[e] = Changed(@, changes),
                  !.observed = Told(@, e, changes, InDomain(t)),
                  !.observingChanges[e] = Quiet,
                  !.switched = @ \ {e}]

Upheaval == upheavals < MaxUpheavals /\ upheavals' = upheavals + 1

Marked(e) == IF e \in Range(recalculate) THEN recalculate ELSE Append(recalculate, e)

\* addEntity(): the spheres are put where the entity is, the view sphere only if it
\* perceives, and both updates are made at once.
AddEntry(e, place, perceives) ==
    LET visible == MoveVisible(sight, e, {place})
        placed == IF perceives THEN PutView(visible, e, {place}) ELSE visible
    IN  /\ position[e] = NoCell
        /\ perceives => e \in Perceptive
        /\ position' = [position EXCEPT ![e] = place]
        /\ sight' = UpdateObserved(UpdateObserver(placed, e, {place}), e, {place})
        /\ UNCHANGED <<shapes, recalculate, upheavals>>

\* The simulation moves a body: setWorldTransform() changes the position and marks
\* the entry, and leaves the spheres where they are.
Simulated(e, place) ==
    /\ position[e] \notin {NoCell, place}
    /\ position' = [position EXCEPT ![e] = place]
    /\ recalculate' = Marked(e)
    /\ UNCHANGED <<shapes, sight, upheavals>>

\* childEntityPropertyApplied(), for the size: the visibility sphere has another
\* radius, which the next update of the entry puts to use.
Resized(e) ==
    /\ e \in Resizable /\ position[e] # NoCell /\ Upheaval
    /\ shapes' = [shapes EXCEPT !.visible = IF e \in @ THEN @ \ {e} ELSE @ \cup {e}]
    /\ recalculate' = Marked(e)
    /\ UNCHANGED <<position, sight>>

\* applyNewPositionForEntity(), for Move operations: the spheres are moved at once
\* and the entry is marked.  An administrator's view is updated at once.
ApplyNewPosition(e, place) ==
    LET view == Cover(shapes.view, e, place)
        moved == MoveVisible(MoveView(sight, e, view), e, Cover(shapes.visible, e, place))
    IN  /\ position[e] \notin {NoCell, place}
        /\ position' = [position EXCEPT ![e] = place]
        /\ sight' = IF e \in AdminEntries THEN UpdateObserver(moved, e, view) ELSE moved
        /\ recalculate' = Marked(e)
        /\ UNCHANGED <<shapes, upheavals>>

\* toggleChildPerception(), on: the collision library is given the sphere before the
\* entry has it as its view sphere, so that its reports are recorded as if the
\* visibility sphere had moved.  Then updateObserverEntry() applies what else is
\* recorded, and the shape is freed while the sphere still refers to it: what it
\* measures from then on is up to the memory.  The entry is not marked.
PerceptionOn(e, large) ==
    LET view == {position[e]}
        placed == [sight EXCEPT !.view[e] = view,
                                !.observingChanges[e] = Reports(@, e, sight.visible, {}, view),
                                !.switched = @ \cup {e}]
    IN  /\ e \in Perceptive /\ position[e] # NoCell /\ Upheaval
        /\ sight.view[e] = {}
        /\ sight' = UpdateObserver(placed, e, view)
        /\ shapes' = [shapes EXCEPT !.view = IF large THEN @ \cup {e} ELSE @ \ {e}]
        /\ UNCHANGED <<position, recalculate>>

\* toggleChildPerception(), off: the view sphere is taken away without a report; what
\* the entry observes, and what is recorded about it, stays as it is.
PerceptionOff(e) ==
    /\ sight.view[e] # {} /\ Upheaval
    /\ sight' = [sight EXCEPT !.view[e] = {}]
    /\ shapes' = [shapes EXCEPT !.view = @ \ {e}]
    /\ UNCHANGED <<position, recalculate>>

\* Both updates of one entry of the queue, to where its position is.
Refreshed(s, e) ==
    UpdateObserver(UpdateObserved(s, e, Cover(shapes.visible, e, position[e])),
                   e, Cover(shapes.view, e, position[e]))

\* The spheres after the updates of the first n entries of the queue, one by one.
AfterFirst(n) ==
    LET after[i \in 0 .. n] == IF i = 0 THEN sight ELSE Refreshed(after[i - 1], recalculate[i])
    IN  after[n]

\* updateVisibilityOfDirtyEntities(): the next entries of the queue are updated, at
\* most MaxEntries of them.
UpdateDirty ==
    LET n == IF Len(recalculate) < MaxEntries THEN Len(recalculate) ELSE MaxEntries
    IN  /\ recalculate # <<>>
        /\ sight' = AfterFirst(n)
        /\ recalculate' = SubSeq(recalculate, n + 1, Len(recalculate))
        /\ UNCHANGED <<position, shapes, upheavals>>

\* Mutant: those the entry was observing are not told that it is gone.
Unlinked_ObserversOnly(sets, e, tell) ==
    [o \in Entries |-> IF o = e THEN {} ELSE sets[o]]

\* The sets of the others without the entry, and its own gone with it.
Unlinked(sets, e, tell) ==
    [o \in Entries |-> IF o = e THEN {} ELSE IF o \in tell THEN sets[o] \ {e} ELSE sets[o]]

\* removeAndShift(): the last one takes the place of the entry.
Shifted(queue, e) ==
    LET last == Len(queue)
    IN  IF e \notin Range(queue) THEN queue
        ELSE [i \in 1 .. last - 1 |-> IF queue[i] = e THEN queue[last] ELSE queue[i]]

\* Those with which the appearance of the entry is recorded.
Expecting(s, e) ==
    {o \in Entries : s.observedChanges[o][e] = "Add" \/ s.observingChanges[o][e] = "Add"}

\* removeEntity(): the spheres are taken away without a report, those that see the
\* entry and those it sees are told, and the entry is freed.  What others have
\* recorded about it stays recorded.
RemoveEntry(e) ==
    /\ position[e] # NoCell /\ Upheaval
    /\ position' = [position EXCEPT ![e] = NoCell]
    /\ shapes' = [view |-> shapes.view \ {e}, visible |-> shapes.visible \ {e}]
    /\ sight' = [sight EXCEPT
                   !.view[e] = {}, !.visible[e] = {},
                   !.observed = Unlinked(@, e, sight.observing[e]),
                   !.observing = Unlinked(@, e, sight.observed[e]),
                   !.observedChanges[e] = Quiet, !.observingChanges[e] = Quiet,
                   !.stale = [o \in Entries |->
                                CASE o = e -> {}
                                  [] o # e /\ o \in Expecting(sight, e) -> @[o] \cup {e}
                                  [] OTHER -> @[o]],
                   !.switched = @ \ {e}]
    /\ recalculate' = Shifted(recalculate, e)

VisibilityNext ==
    \/ UpdateDirty
    \/ \E e \in Entries :
          \/ RemoveEntry(e)
          \/ Resized(e)
          \/ PerceptionOff(e)
          \/ \E large \in BOOLEAN : PerceptionOn(e, large)
          \/ \E place \in Cells : \/ \E perceives \in BOOLEAN : AddEntry(e, place, perceives)
                                  \/ Simulated(e, place)
                                  \/ ApplyNewPosition(e, place)

VisibilitySpec == VisibilityInit /\ [][VisibilityNext]_visibilityVars

-----------------------------------------------------------------------------
Present == {e \in Entries : position[e] # NoCell}

\* The two sides of an observation agree, and no set holds an entry that has left:
\* removeEntity() finds everything that points to the entry it frees by following
\* the entry's own sets.  Nothing that is recorded is forgotten: the entry it is
\* recorded with is in the queue.  There is one way to an address of freed memory: an
\* appearance that is recorded but not applied when the entry is freed, which the code
\* applies all the same.  And there is one way past the queue: switching perception on.
MutualSight ==
    /\ \A a, b \in Present :
          /\ b \in sight.observed[a] \ sight.stale[a] => a \in sight.observing[b]
          /\ a \in sight.observing[b] \ sight.stale[b] => b \in sight.observed[a]
    /\ \A a \in Present : sight.observed[a] \cup sight.observing[a] \subseteq Present \cup sight.stale[a]
    /\ \A a \in Present \ Range(recalculate) :
          /\ sight.view[a] # {} => sight.observedChanges[a] = Quiet
          /\ a \notin sight.switched => sight.observingChanges[a] = Quiet

=============================================================================
