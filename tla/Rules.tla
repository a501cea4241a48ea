-------------------------------- MODULE Rules --------------------------------
(***************************************************************************)
(* Entity types and the rule files they come from: Ruleset,                *)
(* EntityRuleHandler and EntityFactory (src/server), TypeNode (src/common).*)
(*                                                                         *)
(* A rule needs the factory of its parent and waits for it otherwise.  A   *)
(* type's attributes are its parent's, combined with its own; they are     *)
(* worked out again for all types below one that changes.  Files may be    *)
(* written while the server runs: the rules in them are read again, all    *)
(* those that changed in one batch, and in the end the entities of the     *)
(* changed types have the changed properties applied.                      *)
(*                                                                         *)
(* There is one attribute; its value is a number, or Unset.  Rules are     *)
(* numbered in the order of their names.                                   *)
(***************************************************************************)
EXTENDS Integers, Sequences, SequencesExt, FiniteSetsExt, TLC

CONSTANTS
    RuleNames,   \* numbers, which sort like the names
    HardCoded,   \* the classes there is a C++ factory for: mFactories
    Parents,     \* the parents the rule files may give each of them
    OwnValues,   \* what a rule may say of the attribute
    MaxWrites    \* bound: how often a rule file is written

GameEntity == 0
Unset == -1
Missing == -2

ASSUME RulesAssumption ==
    /\ RuleNames \subseteq Nat \ {0} /\ IsFiniteSet(RuleNames) /\ HardCoded \subseteq RuleNames
    /\ \A r \in RuleNames : Parents[r] \subseteq RuleNames \cup {GameEntity}
    /\ \A o \in OwnValues : o.kind \in {"none", "default", "append"}
    /\ MaxWrites \in Nat

Descriptions(r) == [parent : Parents[r], own : OwnValues]
NoRule == [parent |-> Missing, own |-> [kind |-> "none", n |-> 0]]

VARIABLES
    files,       \* what the rule files say
    writes,      \* how often one was written
    dirty,       \* m_changedRules: the rules in the files that were written
    work,        \* the rules of this batch that are still to be handled, in order
    waiting,     \* m_waitingRules: what waits for each rule, in order
    factories,   \* the installed types: parent and own part (m_classAttributes)
    attributes,  \* m_attributes of each
    batch,       \* changes: what was noted of each type in this batch
    applied      \* the value the entities of each type had applied last

rulesVars == <<files, writes, dirty, work, waiting, factories, attributes, batch, applied>>

Entry(r, desc) == [name |-> r, desc |-> desc]

\* The one order of a set of names.
ByName(names) ==
    {o \in SetToSeqs(names) : \A i, j \in DOMAIN o : i < j => o[i] < o[j]}

\* The rules that are read together, by name.
InOrder(names) ==
    {[i \in DOMAIN o |-> Entry(o[i], files[o[i]])] : o \in ByName({r \in names : files[r] # NoRule})}

\* loadRules(): whatever the files hold at the start is to be installed.
RulesInit ==
    /\ files \in {f \in [RuleNames -> UNION {Descriptions(r) : r \in RuleNames} \cup {NoRule}] :
                     \A r \in RuleNames : f[r] \in Descriptions(r) \cup {NoRule}}
    /\ writes = 0 /\ dirty = {}
    /\ work \in InOrder(RuleNames)
    /\ waiting = [r \in RuleNames \cup {GameEntity} |-> <<>>]
    /\ factories = <<>> /\ attributes = <<>>
    /\ batch = <<>> /\ applied = <<>>

Installed == DOMAIN factories

\* ClassAttribute::combine().
Combine(own, inherited) ==
    CASE own.kind = "default" -> own.n
      [] own.kind = "append" -> IF inherited = Unset THEN own.n ELSE inherited + own.n
      [] OTHER -> inherited

Inherited(attrs, parent) == IF parent \in DOMAIN attrs THEN attrs[parent] ELSE Unset

\* Mutant: only the children of a type get its new attributes.
Descendants_OneLevel(known, r) == {d \in DOMAIN known : known[d].parent = r}

\* The types below one in m_children: those in every set that has its children and,
\* with a type, the children of that.
Descendants(known, r) ==
    {d \in DOMAIN known : \A S \in SUBSET DOMAIN known :
        (\A c \in DOMAIN known : known[c].parent \in S \cup {r} => c \in S) => d \in S}

\* The orders in which updateProperties() of one type comes to those below it: to each
\* after its parent, to children of the same one as they happen to be stored.
Walks(known, r) ==
    {o \in SetToSeqs(Descendants(known, r)) :
        \A i \in DOMAIN o : \/ known[o[i]].parent = r
                            \/ \E j \in DOMAIN o : j < i /\ o[j] = known[o[i]].parent}

\* The attributes after the types in the walk have got theirs from their parents.
Updated(known, attrs, walk) ==
    LET after[i \in 0 .. Len(walk)] ==
            IF i = 0 THEN attrs
            ELSE [after[i - 1] EXCEPT ![walk[i]] =
                    Combine(known[walk[i]].own, after[i - 1][known[walk[i]].parent])]
    IN  after[Len(walk)]

\* What TypeNode::updateProperties() says happened to the attribute.
Difference(before, after) ==
    CASE before = after -> "same" [] before = Unset -> "new"
      [] after = Unset -> "removed" [] OTHER -> "changed"

\* changes.emplace(): the first note of a type in a batch stays.
Noted(types, before, after) ==
    batch @@ [d \in types |-> Difference(before[d], after[d])]

\* Of several with the same name the first.
FirstOf(rules, n) == rules[Min({i \in DOMAIN rules : rules[i].name = n})].desc

\* The rules waiting for one, by name.
Ready(r) ==
    {[i \in DOMAIN o |-> Entry(o[i], FirstOf(waiting[r], o[i]))] :
        o \in ByName({waiting[r][i].name : i \in DOMAIN waiting[r]})}

\* Each rule of a batch: what is left of it, the attributes now and what was noted.
\* At the end, typesUpdated: TypeUpdateCoordinator has the entities of the types with a
\* changed property apply it (of a new property it takes the changed ones again).  A
\* new type gets its first entity.
Handled(rest, attrs, notes) ==
    /\ work' = rest
    /\ attributes' = attrs
    /\ batch' = IF rest = <<>> THEN <<>> ELSE notes
    /\ applied' =
          IF rest # <<>> THEN applied
          ELSE [t \in DOMAIN attrs |->
                  IF t \in DOMAIN applied /\ ~(t \in DOMAIN notes /\ notes[t] = "changed")
                  THEN applied[t] ELSE attrs[t]]
    /\ UNCHANGED <<files, writes, dirty>>

NextRule == Head(work)
HasFactory(r, parent) ==
    IF parent = GameEntity THEN r \in HardCoded ELSE parent \in Installed

\* installItem(): the parent has no factory yet, or never will; waitForRule().
WaitForRule ==
    /\ work # <<>> /\ NextRule.name \notin Installed
    /\ ~HasFactory(NextRule.name, NextRule.desc.parent)
    /\ waiting' = [waiting EXCEPT ![NextRule.desc.parent] = Append(@, NextRule)]
    /\ Handled(Tail(work), attributes, batch)
    /\ UNCHANGED factories

\* A factory, or its attributes, among the others.
WithType(f, r, v) == [t \in DOMAIN f \cup {r} |-> IF t = r THEN v ELSE f[t]]

\* installItem() and installEntityClass(): a hard coded factory starts with no
\* attributes; then the parent works out those of all types below it.  The rules that
\* waited for this one are next.
InstallRule ==
    /\ work # <<>> /\ NextRule.name \notin Installed
    /\ LET r == NextRule.name
           desc == NextRule.desc
           start == IF r \in HardCoded THEN Unset ELSE Inherited(attributes, desc.parent)
           attrs == WithType(attributes, r, Combine(desc.own, start))
           known == WithType(factories, r, desc)
       IN  /\ HasFactory(r, desc.parent)
           /\ factories' = known
           /\ waiting' = [waiting EXCEPT ![r] = <<>>]
           /\ \E ready \in Ready(r) :
                 IF desc.parent = GameEntity THEN Handled(ready \o Tail(work), attrs, batch)
                 ELSE \E walk \in Walks(known, desc.parent) :
                        LET after == Updated(known, attrs, walk)
                        IN  Handled(ready \o Tail(work), after,
                                    Noted({desc.parent} \cup ToSet(walk), attrs, after))

\* modifyRuleInner() and modifyEntityClass(): a change of parent is refused.
ModifyRule ==
    /\ work # <<>> /\ NextRule.name \in Installed
    /\ LET r == NextRule.name
           desc == NextRule.desc
           attrs == [attributes EXCEPT ![r] = Combine(desc.own, Inherited(attributes, desc.parent))]
           known == [factories EXCEPT ![r].own = desc.own]
       IN  IF desc.parent # factories[r].parent
           THEN UNCHANGED factories /\ Handled(Tail(work), attributes, batch)
           ELSE /\ factories' = known
                /\ \E walk \in Walks(known, r) :
                      LET after == Updated(known, attrs, walk)
                      IN  Handled(Tail(work), after, Noted({r} \cup ToSet(walk), attributes, after))
    /\ UNCHANGED waiting

\* A rule file is written; AssetsManager tells of it.
WriteRule(r, desc) ==
    /\ work = <<>> /\ writes < MaxWrites
    /\ files[r] # desc
    /\ files' = [files EXCEPT ![r] = desc]
    /\ writes' = writes + 1
    /\ dirty' = dirty \cup {r}
    /\ UNCHANGED <<work, waiting, factories, attributes, batch, applied>>

\* processChangedRules(), when the timer expires: the files are read as they are now.
ProcessChangedRules ==
    /\ work = <<>> /\ dirty # {}
    /\ work' \in InOrder(dirty)
    /\ dirty' = {}
    /\ UNCHANGED <<files, writes, waiting, factories, attributes, batch, applied>>

RulesNext ==
    \/ WaitForRule \/ InstallRule \/ ModifyRule \/ ProcessChangedRules
    \/ \E r \in RuleNames : \E desc \in Descriptions(r) : WriteRule(r, desc)

RulesSpec == RulesInit /\ [][RulesNext]_rulesVars

-----------------------------------------------------------------------------
\* Every type inherits: in whatever order rules are read, wait and change while the
\* server runs, an installed type's parent is installed, its attributes are its
\* parent's combined with its own, and no rule waits for one that is installed.
TypesInherit ==
    /\ \A t \in Installed :
          /\ HasFactory(t, factories[t].parent)
          /\ attributes[t] = Combine(factories[t].own, Inherited(attributes, factories[t].parent))
    /\ \A t \in Installed : waiting[t] = <<>>

\* The entities follow their types: when a batch of changed rules is done, the value a
\* type's attribute has is the one its entities had applied.
EntitiesFollowTypes ==
    work = <<>> => \A t \in Installed : attributes[t] \in {applied[t], Unset}

=============================================================================
