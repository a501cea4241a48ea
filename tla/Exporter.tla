------------------------------ MODULE Exporter ------------------------------
(***************************************************************************)
(* Dumping a world to a file (src/tools/EntityExporterBase.cpp).           *)
(*                                                                         *)
(* The exporter first asks for every type, from the root of the types      *)
(* down, to learn which of them are transient.  Then it asks for the       *)
(* entities, breadth first and a few at a time, while the world goes on,   *)
(* and writes what it got when nothing is under way any more.  Requests    *)
(* are answered in the order they were made, each from the world as it is  *)
(* then.                                                                   *)
(***************************************************************************)
EXTENDS Integers, Sequences, SequencesExt, FiniteSetsExt, Functions

CONSTANTS
    Exported,        \* the entities besides the world, which has the id 0
    Holder,          \* where each of them is when the export starts
    TypeOf,          \* the type of each entity
    RootType,        \* the type all others come from
    Subtypes,        \* the types derived from each one, in order
    Transience,      \* what each entity says of being transient: "yes", "no" or "unset"
    TypeTransience,  \* what each type says
    Destroyed,       \* the place of an entity that is no more
    MaxOutstanding,  \* the limit pollQueue() keeps: 5 in the code
    MaxChanges,      \* bound: how often the world changes during the export
    Values,          \* what a list in a property holds
    MaxList          \* bound: the length of such a list

Types == DOMAIN Subtypes

ASSUME ExporterAssumption ==
    /\ Exported \subseteq Nat \ {0} /\ IsFiniteSet(Exported) /\ Destroyed \notin Exported \cup {0}
    /\ Holder \in [Exported -> Exported \cup {0}]
    /\ RootType \in Types /\ \A t \in Types : Subtypes[t] \in Seq(Types)
    /\ MaxOutstanding \in Nat \ {0} /\ MaxChanges \in Nat /\ MaxList \in Nat

VARIABLES
    exportTransient, preserveIds,  \* the choices of the user
    exporting,       \* "RUNNING", "COMPLETE" or "CANCELLED"
    holder,          \* the world: where each entity is
    changes,         \* how often it has changed
    requested,       \* the Get operations not answered, of types and of entities
    entityQueue,     \* mEntityQueue
    transientTypes,  \* mTransientTypes
    entityMap,       \* mEntityMap: what is to be written about each entity
    idMapping        \* mIdMapping: the id each entity gets in the dump

exporterVars == <<exportTransient, preserveIds, exporting, holder, changes,
                  requested, entityQueue, transientTypes, entityMap, idMapping>>

RuleGet(t) == [what |-> "rule", id |-> t]
EntityGet(e) == [what |-> "entity", id |-> e]

\* start().
ExporterInit ==
    /\ exportTransient \in BOOLEAN /\ preserveIds \in BOOLEAN
    /\ exporting = "RUNNING"
    /\ holder = Holder
    /\ changes = 0
    /\ requested = <<RuleGet(RootType)>>
    /\ entityQueue = <<>>
    /\ transientTypes = {}
    /\ entityMap = <<>>
    /\ idMapping = <<>>

Answering(what) ==
    exporting = "RUNNING" /\ requested # <<>> /\ Head(requested).what = what

\* operationGetRuleResult(): a type is transient when it says so, and like the one it
\* comes from when it says nothing.  startRequestingEntities() after the last one.
GetRuleResult ==
    /\ Answering("rule")
    /\ LET t == Head(requested).id
           inherits == \E s \in transientTypes : \E i \in DOMAIN Subtypes[s] : Subtypes[s][i] = t
           more == [i \in DOMAIN Subtypes[t] |-> RuleGet(Subtypes[t][i])]
           rest == Tail(requested) \o more
       IN  /\ transientTypes' =
                 IF TypeTransience[t] = "yes" \/ (TypeTransience[t] = "unset" /\ inherits)
                 THEN transientTypes \cup {t} ELSE transientTypes
           /\ requested' = IF rest = <<>> THEN <<EntityGet(0)>> ELSE rest
    /\ UNCHANGED <<exporting, holder, changes, entityQueue, entityMap, idMapping>>

\* Mutant: the export is complete when nothing is queued, whatever is under way.
PollQueue_QueueOnly(rest, queue) ==
    LET n == Min({MaxOutstanding - Len(rest), Len(queue)})
    IN  /\ exporting' = IF queue = <<>> THEN "COMPLETE" ELSE exporting
        /\ requested' = rest \o [i \in 1 .. n |-> EntityGet(queue[i])]
        /\ entityQueue' = SubSeq(queue, n + 1, Len(queue))

\* pollQueue(): the export is complete, or as much as may be under way is asked for.
PollQueue(rest, queue) ==
    LET n == Min({MaxOutstanding - Len(rest), Len(queue)})
    IN  /\ exporting' = IF queue = <<>> /\ rest = <<>> THEN "COMPLETE" ELSE exporting
        /\ requested' = rest \o [i \in 1 .. n |-> EntityGet(queue[i])]
        /\ entityQueue' = SubSeq(queue, n + 1, Len(queue))

Gone == {e \in Exported : holder[e] = Destroyed}

\* The entities in one, sorted by their ids.
ContentOf(e) ==
    {s \in SetToSeqs({f \in Exported : holder[f] = e}) : \A i, j \in DOMAIN s : i < j => s[i] < s[j]}

\* What infoArrived() leaves out, with all that is in it.
Skipped(e) ==
    /\ ~exportTransient
    /\ \/ Transience[e] = "yes"
       \/ Transience[e] = "unset" /\ TypeOf[e] \in transientTypes

\* An entry of mEntityMap; one that is only a container so far has nothing to write.
Unwritten == -1
EntryOf(map, e) == IF e \in DOMAIN map THEN map[e] ELSE [id |-> Unwritten, children |-> <<>>]

WithEntry(map, e, v) == [x \in DOMAIN map \cup {e} |-> IF x = e THEN v ELSE map[x]]

\* dumpEntity(): a new id is the number of entities known so far, and the entity is
\* entered under its container.
DumpEntity(e) ==
    LET persisted == IF preserveIds \/ e = 0 THEN e ELSE Cardinality(DOMAIN entityMap)
        known == WithEntry(entityMap, e, [EntryOf(entityMap, e) EXCEPT !.id = persisted])
        up == holder[e]
    IN  /\ idMapping' = IF e \in DOMAIN idMapping THEN idMapping
                        ELSE WithEntry(idMapping, e, persisted)
        /\ entityMap' = IF e = 0 THEN known
                        ELSE WithEntry(known, up, [EntryOf(known, up) EXCEPT !.children = Append(@, e)])

\* operationGetResult() and infoArrived(), of an entity that exists.
InfoArrived ==
    /\ Answering("entity")
    /\ LET e == Head(requested).id
       IN  /\ e \notin Gone
           /\ IF Skipped(e)
              THEN UNCHANGED <<entityMap, idMapping>> /\ PollQueue(Tail(requested), entityQueue)
              ELSE /\ DumpEntity(e)
                   /\ \E content \in ContentOf(e) : PollQueue(Tail(requested), entityQueue \o content)
    /\ UNCHANGED <<holder, changes, transientTypes>>

\* operationGetResult(), of one that does not: the queue is not polled.
ErrorArrived ==
    /\ Answering("entity") /\ Head(requested).id \in Gone
    /\ requested' = Tail(requested)
    /\ UNCHANGED <<exporting, holder, changes, entityQueue, transientTypes, entityMap, idMapping>>

\* cancel(): the answers to come are ignored.
Cancel ==
    /\ exporting = "RUNNING"
    /\ exporting' = "CANCELLED"
    /\ UNCHANGED <<holder, changes, requested, entityQueue, transientTypes, entityMap, idMapping>>

\* The world goes on: an entity without content moves to one that is dumped
\* already or not, or is destroyed.
Change(e, to) ==
    /\ exporting = "RUNNING" /\ changes < MaxChanges
    /\ holder[e] \notin {to, Destroyed} /\ to # e /\ e \notin Range(holder)
    /\ to \notin Gone
    /\ holder' = [holder EXCEPT ![e] = to]
    /\ changes' = changes + 1
    /\ UNCHANGED <<exporting, requested, entityQueue, transientTypes, entityMap, idMapping>>

ExporterNext ==
    /\ UNCHANGED <<exportTransient, preserveIds>>
    /\ \/ GetRuleResult \/ InfoArrived \/ ErrorArrived \/ Cancel
       \/ \E e \in Exported, to \in Exported \cup {0, Destroyed} : Change(e, to)

ExporterSpec == ExporterInit /\ [][ExporterNext]_exporterVars

-----------------------------------------------------------------------------
Lists == SeqOf(Values, MaxList)

\* The part of a list extractListPrependAppend() compares with the type's: from where
\* that one's first value is met, to where its last value is, coming from the end.
\* The search from the end stops at the first place, whatever is there.
SplitAround(type, own) ==
    LET starts == {i \in DOMAIN own : type # <<>> => own[i] = Head(type)}
        ends == {i \in DOMAIN own : type # <<>> => own[i] = Last(type)}
    IN  [from |-> Min(starts \cup {Len(own) + 1}), to |-> Max(ends \cup {1})]

\* Mutant: what follows starts with the last value of the type's own list.
ExtractPrependAppend_EndKept(type, own) ==
    LET part == SplitAround(type, own)
        describes == /\ Len(type) < Len(own)
                     /\ part.to # Len(own) \/ part.from # 1
                     /\ part.from <= part.to
                     /\ SubSeq(own, part.from, part.to) = type
    IN  IF describes
        THEN [prepend |-> SubSeq(own, 1, part.from - 1),
              append |-> SubSeq(own, part.to, Len(own))]
        ELSE [prepend |-> <<>>, append |-> <<>>]

\* extractListPrependAppend(): what an entity's list has before and after the one of
\* its type; both are empty when it cannot be described that way.
ExtractPrependAppend(type, own) ==
    LET part == SplitAround(type, own)
        describes == /\ Len(type) < Len(own)
                     /\ part.to # Len(own) \/ part.from # 1
                     /\ part.from <= part.to
                     /\ SubSeq(own, part.from, part.to) = type
    IN  IF describes
        THEN [prepend |-> SubSeq(own, 1, part.from - 1),
              append |-> SubSeq(own, part.to + 1, Len(own))]
        ELSE [prepend |-> <<>>, append |-> <<>>]

\* A list that is dumped as an addition to its type's list is what the importing server
\* makes of that addition, also when values occur several times and the searches cross.
ListsRestored ==
    \A type \in Lists, own \in Lists :
        LET r == ExtractPrependAppend(type, own)
        IN  r # [prepend |-> <<>>, append |-> <<>>] => r.prepend \o type \o r.append = own

\* The entities that are to be in the dump: none that is skipped, nor what is in it.
\* They are in every set that has the world and, with an entity, what is in it.
Kept ==
    LET Wanted == {e \in Exported \cup {0} : ~Skipped(e)}
    IN  {e \in Wanted : \A S \in SUBSET Wanted :
            (\A f \in Wanted : (f = 0 \/ holder[f] \in S) => f \in S) => e \in S}

\* A dump gives back what was exported.  When the export completes, no list has lost or
\* gained a value in extractListPrependAppend(), and in a world that did not change each
\* entity that is not transient and not inside a transient one was written once, under
\* its container, with an id no other one has and that references to it get.
ExportFaithful ==
    exporting = "COMPLETE" =>
        /\ ListsRestored
        /\ changes = 0 =>
              /\ DOMAIN entityMap = Kept
              /\ \A e \in Kept :
                    /\ ToSet(entityMap[e].children) = {f \in Kept \ {0} : holder[f] = e}
                    /\ IsInjective(entityMap[e].children)
                    /\ idMapping[e] = entityMap[e].id
                    /\ \A f \in Kept \ {e} : entityMap[f].id # entityMap[e].id

=============================================================================
