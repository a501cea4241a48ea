------------------------------ MODULE Garments ------------------------------
(***************************************************************************)
(* Garments, tools and those who wear them: the "attachments" property that *)
(* handles Wield operations (src/rules/simulation/AttachmentsProperty.cpp),  *)
(* the "modify" property of a garment that changes its wearer               *)
(* (ModifyProperty.cpp), and the modifiers LocatedEntity keeps for every    *)
(* property (src/rules/LocatedEntity.cpp).                                  *)
(*                                                                         *)
(* Three records of who wears what are kept by different objects and       *)
(* changed by different handlers: the wearer's attached_* properties, the  *)
(* garment's mode_data, and the modifiers in the wearer's armor property.  *)
(***************************************************************************)
EXTENDS Integers, Sequences, FiniteSets, SequencesExt

CONSTANTS
    Wearers,      \* entities with an inventory and with attachments
    Garments,     \* entities that can be attached to them
    Points,       \* the names of the attachments
    Outside,      \* the world, where no modifiers are allowed
    Nil,          \* no entity, no data, no value
    Shared,       \* garments whose "modify" comes from a default of their type
    Modify,       \* the modifiers of each garment and each value of "modify", by their addresses
    MaxArmor      \* bound on the armor that is set

ASSUME GarmentsAssumption ==
    /\ IsFiniteSet(Garments) /\ Shared \subseteq Garments
    /\ Outside \notin Wearers /\ Nil \notin Garments \cup Wearers \cup {Outside}
    /\ DOMAIN Modify = Garments
    /\ \A g \in Garments :
          /\ 0 \in DOMAIN Modify[g]
          /\ \A value \in DOMAIN Modify[g] :
                LET ms == Modify[g][value]
                IN  ms \in Seq(Range(ms)) /\ IsInjective(ms) /\ \A m \in Range(ms) : m.of = g

VARIABLES
    parent,    \* m_parent of each garment; Nil once it is destroyed
    attached,  \* the attached_* properties of each wearer
    planted,   \* the wearer and the attachment in each garment's mode_data
    modify,    \* the value of each garment's "modify" property
    worn,      \* the modifiers of each wearer's armor, in order
    base,      \* the base value of armor, while it has modifiers
    armor,     \* the value of armor
    plain      \* the value armor would have if nothing had ever been worn

garmentsVars == <<parent, attached, planted, modify, worn, base, armor, plain>>

GarmentsInit ==
    /\ parent = [g \in Garments |-> Outside]
    /\ attached = [w \in Wearers |-> [p \in Points |-> Nil]]
    /\ planted = [g \in Garments |-> Nil]
    /\ modify = [g \in Garments |-> 0]
    /\ worn = [w \in Wearers |-> <<>>]
    /\ armor = [w \in Wearers |-> Nil] /\ base = armor /\ plain = armor

\* What process() of one modifier makes of a value: one of the two kinds sets it,
\* the other adds to it, or sets it where there is none.
Process(value, m) ==
    IF m.kind = "default" \/ value = Nil THEN m.amount ELSE value + m.amount

\* The value setAttr() gives a property with a base value and modifiers.
Folded(value, ms) ==
    LET made[i \in 0 .. Len(ms)] == IF i = 0 THEN value ELSE Process(made[i - 1], ms[i])
    IN  made[Len(ms)]

\* Those of ms that are in S, in their order.
Only(ms, S) ==
    LET kept[i \in 0 .. Len(ms)] ==
            IF i = 0 THEN <<>> ELSE IF ms[i] \in S THEN Append(kept[i - 1], ms[i]) ELSE kept[i - 1]
    IN  kept[Len(ms)]

Of(ms, g) == {m \in Range(ms) : m.of = g}

\* Without those of g.
Unworn(ms, g) == Only(ms, Range(ms) \ Of(ms, g))

\* The modifiers that checkIfActive() finds active: those without a constraint,
\* and those whose constraint is that the garment is attached at a certain point.
Active(g, w, value) ==
    {m \in Range(Modify[g][value]) : m.needs = Nil \/ attached'[w][m.needs] = g}

\* The instance that listens to the wearer and to the change of container is the
\* one that was installed, and for a default of the type that is the default.
Listening(g) == IF g \in Shared THEN 0 ELSE modify[g]

\* Mutant: modifiers that are no longer active are left where they are.
Checked_NoneRemoved(ms, g, value, active) == ms \o Only(Modify[g][value], active \ Of(ms, g))

\* checkIfActive(): what has become active is added at the end, what no longer is
\* active is removed, and nothing else moves.
Checked(ms, g, value, active) ==
    Only(ms, (Range(ms) \ Of(ms, g)) \cup active) \o Only(Modify[g][value], active \ Of(ms, g))

\* The wearer's modifiers become ms.  The base value is taken from the property
\* when it has no modifiers yet, and the value is made anew from it every time.
Wears(w, ms) ==
    /\ worn' = [worn EXCEPT ![w] = ms]
    /\ base' = [base EXCEPT ![w] = IF worn[w] = <<>> THEN armor[w] ELSE @]
    /\ armor' = [armor EXCEPT ![w] = IF worn[w] = ms THEN @ ELSE Folded(base'[w], ms)]

\* The modifiers of w after the garments gs have checked whether they are active.
CheckedBy(w, gs) ==
    LET after[i \in 0 .. Len(gs)] ==
            IF i = 0 THEN worn[w]
            ELSE Checked(after[i - 1], gs[i], Listening(gs[i]), Active(gs[i], w, Listening(gs[i])))
    IN  after[Len(gs)]

\* The attached_* properties of w are applied: everything in w that observes them
\* checks whether it is active, in the order in which it came to w, which is any.
CheckAll(w) ==
    \E gs \in SetToSeqs({g \in Garments : parent[g] = w}) : Wears(w, CheckedBy(w, gs))

\* resetExistingEntityPlantedOn(): whatever was attached at the point is told so,
\* wherever it is by now.
Reset(old, data) == IF old = Nil \/ parent[old] = Nil THEN data ELSE [data EXCEPT ![old] = Nil]

\* A Wield operation without an entity: nothing is attached any more.
Unwield(w, p) ==
    /\ attached' = [attached EXCEPT ![w][p] = Nil]
    /\ planted' = Reset(attached[w][p], planted)
    /\ CheckAll(w)
    /\ UNCHANGED <<parent, modify, plain>>

\* A Wield operation for something that satisfies the attachment's constraint, which
\* is data and need not ask where it is.  It is detached from another attachment of
\* the same wearer first, and takes the place of what was attached at the point.
Wield(w, p, g) ==
    /\ parent[g] # Nil /\ attached[w][p] # g
    /\ planted[g] \in {Nil} \cup ({w} \X Points)
    /\ attached' = [attached EXCEPT ![w] = [q \in Points |->
                        IF q = p THEN g ELSE IF planted[g] = <<w, q>> THEN Nil ELSE @[q]]]
    /\ planted' = Reset(attached[w][p], [planted EXCEPT ![g] = <<w, p>>])
    /\ CheckAll(w)
    /\ UNCHANGED <<parent, modify, plain>>

\* InventoryDomain::addEntity() resets the mode_data of what was attached to
\* somebody else; the physical domain of the world leaves it to the entity's mode.
Carried(g, to) ==
    IF to = Outside \/ planted[g] = Nil \/ planted[g][1] = to THEN planted
    ELSE [planted EXCEPT ![g] = Nil]

\* newLocation() for both wearers at once: the old one loses all modifiers of the
\* garment, and the new one gets those that are active.
Exchange(g, from, to) ==
    LET after(w) == IF w = from THEN Unworn(worn[w], g)
                    ELSE IF w = to THEN Checked(worn[w], g, Listening(g), Active(g, w, Listening(g)))
                    ELSE worn[w]
    IN  /\ worn' = [w \in Wearers |-> after(w)]
        /\ base' = [w \in Wearers |-> IF worn[w] = <<>> THEN armor[w] ELSE base[w]]
        /\ armor' = [w \in Wearers |->
                       IF worn[w] = after(w) THEN armor[w] ELSE Folded(base'[w], after(w))]

\* A Move operation takes the garment to another wearer's inventory or puts it down.
MoveGarment(g, to) ==
    /\ parent[g] # Nil /\ parent[g] # to
    /\ parent' = [parent EXCEPT ![g] = to]
    /\ planted' = Carried(g, to)
    /\ UNCHANGED <<attached, modify, plain>>
    /\ Exchange(g, parent[g], to)

\* The garment is destroyed: remove() of its property takes the modifiers back.
DestroyGarment(g) ==
    /\ parent[g] # Nil
    /\ parent' = [parent EXCEPT ![g] = Nil]
    /\ planted' = [planted EXCEPT ![g] = Nil]
    /\ UNCHANGED <<attached, modify, plain>>
    /\ Exchange(g, parent[g], Nil)

\* A Set operation gives the garment another "modify": apply() removes everything
\* the old value had done to the wearer and checks what the new one does.
SetModify(g, value) ==
    /\ parent[g] # Nil /\ value \in DOMAIN Modify[g]
    /\ modify' = [modify EXCEPT ![g] = value]
    /\ UNCHANGED <<parent, attached, planted, plain>>
    /\ IF parent[g] = Outside THEN UNCHANGED <<worn, base, armor>>
       ELSE LET w == parent[g]
            IN  Wears(w, Checked(Unworn(worn[w], g), g, value, Active(g, w, value)))

\* A Set operation gives the wearer another armor: with modifiers it is the base
\* value that changes, and they are all applied again.
SetArmor(w, value) ==
    /\ base' = [base EXCEPT ![w] = IF worn[w] = <<>> THEN @ ELSE value]
    /\ armor' = [armor EXCEPT ![w] = Folded(value, worn[w])]
    /\ plain' = [plain EXCEPT ![w] = value]
    /\ UNCHANGED <<parent, attached, planted, modify, worn>>

GarmentsNext ==
    \/ \E w \in Wearers, p \in Points :
          \/ Unwield(w, p)
          \/ \E g \in Garments : Wield(w, p, g)
    \/ \E g \in Garments :
          \/ \E to \in Wearers \cup {Outside} : MoveGarment(g, to)
          \/ DestroyGarment(g)
          \/ \E value \in DOMAIN Modify[g] : SetModify(g, value)
    \/ \E w \in Wearers, value \in 1 .. MaxArmor : SetArmor(w, value)

GarmentsSpec == GarmentsInit /\ [][GarmentsNext]_garmentsVars

-----------------------------------------------------------------------------
\* What says of itself that it is attached is attached: its wearer's property
\* names it, at that attachment.
PlantedIsAttached ==
    \A g \in Garments : planted[g] # Nil => attached[planted[g][1]][planted[g][2]] = g

\* What is worn can be taken off again: whatever is done to the garments and to
\* the wearer, the value is the one last set, changed by exactly those modifiers
\* that are active of the garments the wearer has, each of them once, and a wearer
\* without any has the plain value back.  Garments that have their "modify" from
\* a default of their type and then get a value of their own are left out: the
\* default goes on listening in their place.  And what says of itself that it is
\* attached is.
WornOnce ==
    /\ PlantedIsAttached
    /\ \A w \in Wearers :
        /\ armor[w] = Folded(plain[w], worn[w])
        /\ IsInjective(worn[w])
        /\ \A g \in Garments :
              /\ parent[g] # w => Of(worn[w], g) = {}
              /\ (parent[g] = w /\ (g \in Shared => modify[g] = 0)) =>
                    Of(worn[w], g) = {m \in Range(Modify[g][modify[g]]) :
                                        m.needs = Nil \/ attached[w][m.needs] = g}

=============================================================================
