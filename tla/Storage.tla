------------------------------ MODULE Storage ------------------------------
(***************************************************************************)
(* Persistence of the world (src/server/StorageManager.cpp), with the      *)
(* flags of entities and properties it relies on (LocatedEntity.cpp,       *)
(* Thing.cpp), the commands of common/Database.cpp and the tables of       *)
(* common/DatabaseSQLite.cpp.                                              *)
(*                                                                         *)
(* Entities change by operations; signals put them into the manager's      *)
(* queues; tick(), once a second, turns the queues into SQL commands; a    *)
(* worker thread runs the commands in order (SQLiteQueue models how).  The *)
(* process can be shut down or crash, and be started again from what the   *)
(* tables hold.  An entity has one property, whose value 0 stands for "not *)
(* set on the entity".  The world has id 0; its own row has no content     *)
(* here.  The pos and orient clean flags are folded into entity_clean: all *)
(* they add is an UPDATE of a row with what it already holds.              *)
(***************************************************************************)
EXTENDS Integers, Sequences, FiniteSets, SequencesExt

CONSTANTS
    MaxId,        \* bound on entity ids
    MaxValue,     \* values of the property are 0 .. MaxValue
    MaxChanges,   \* bound on property changes and moves
    MaxRestarts,  \* bound on restarts
    DirtyLimit    \* 200 in tick(): commands pending that keep updates back

ASSUME StorageAssumption ==
    MaxId \in Nat /\ MaxValue \in Nat \ {0} /\ MaxChanges \in Nat /\ MaxRestarts \in Nat
    /\ DirtyLimit \in Nat

VARIABLES
    entity,               \* what the process knows of each id
    idGenerator,          \* the last id given out
    m_unstoredEntities,   \* ids to be inserted
    m_dirtyEntities,      \* ids to be updated
    m_destroyedEntities,  \* ids to be deleted
    pendingQueries,       \* SQL commands on their way
    entitiesTable,        \* the parent in each entity's row, or NoRow
    propertiesTable,      \* the values of each entity's property rows, oldest first
    phase, changes, restarts

managerVars == <<m_unstoredEntities, m_dirtyEntities, m_destroyedEntities>>
tables == <<entitiesTable, propertiesTable>>
vars == <<entity, idGenerator, managerVars, pendingQueries, tables, phase, changes, restarts>>

Ids == 1 .. MaxId
World == 0
NoRow == -1

\* entity_clean, entity_queued, entity_update_broadcast_queued and whether the
\* entity's signals are connected; value and flags of the property: persistence
\* "clean", persistence "seen" and "unsent".
Entity == [status : {"none", "alive", "destroyed"}, parent : 0 .. MaxId,
           clean : BOOLEAN, queued : BOOLEAN, updating : BOOLEAN, connected : BOOLEAN,
           value : 0 .. MaxValue, pclean : BOOLEAN, seen : BOOLEAN, unsent : BOOLEAN]

None == [status |-> "none", parent |-> World, clean |-> FALSE, queued |-> FALSE,
         updating |-> FALSE, connected |-> FALSE,
         value |-> 0, pclean |-> FALSE, seen |-> FALSE, unsent |-> FALSE]

Alive(e) == e # World /\ entity[e].status = "alive"
Children(e) == {c \in Ids : Alive(c) /\ entity[c].parent = e}

-----------------------------------------------------------------------------
(* Signals *)

\* entityUpdated() queues e when it is called in the state ents.
IsQueued(ents, e) ==
    e # World /\ ents[e].status = "alive" /\ ents[e].connected /\ ~ents[e].queued

\* The ids, in order, which it queues when it is called for each of ids in turn.
Queued(ents, ids) ==
    FlattenSeq([i \in DOMAIN ids |-> IF IsQueued(ents, ids[i]) THEN <<ids[i]>> ELSE <<>>])

\* ents after the signals of ids: those that were queued are flagged.
Flagged(ents, ids) ==
    [e \in Ids |-> [ents[e] EXCEPT !.queued = @ \/ e \in Range(Queued(ents, ids))]]

\* The signals of ids, each listed once, are emitted, in the state ents.
Signals(ents, ids) ==
    /\ m_dirtyEntities' = m_dirtyEntities \o Queued(ents, ids)
    /\ entity' = Flagged(ents, ids)

\* addChild() and removeChild() emit the container's "updated" when it ceases or
\* starts to be empty.
BecomesNonEmpty(p) == IF Children(p) = {} THEN <<p>> ELSE <<>>
BecomesEmpty(p, c) == IF Children(p) = {c} THEN <<p>> ELSE <<>>

-----------------------------------------------------------------------------
(* The world's operations *)

\* A new entity in parent, with or without a value set: entityInserted().
Create(parent, value) ==
    LET e == idGenerator + 1
    IN  /\ phase = "running" /\ e \in Ids
        /\ parent = World \/ Alive(parent)
        /\ idGenerator' = e
        /\ m_unstoredEntities' = Append(m_unstoredEntities, e)
        /\ Signals([entity EXCEPT ![e] = [None EXCEPT !.status = "alive", !.parent = parent,
                                                      !.queued = TRUE, !.value = value,
                                                      !.unsent = value # 0]],
                   BecomesNonEmpty(parent))
        /\ UNCHANGED <<m_destroyedEntities, pendingQueries, tables, phase, changes, restarts>>

\* A Set operation: the property and the entity are no longer clean, and an
\* Update operation is sent.
SetProperty(e, value) ==
    /\ phase = "running" /\ Alive(e) /\ changes < MaxChanges
    /\ entity' = [entity EXCEPT ![e].value = value, ![e].pclean = FALSE, ![e].clean = FALSE,
                                ![e].unsent = TRUE, ![e].updating = TRUE]
    /\ changes' = changes + 1
    /\ UNCHANGED <<idGenerator, managerVars, pendingQueries, tables, phase, restarts>>

\* Mutant: a handled Update operation does not emit the "updated" signal.
Update_NoSignal(e) ==
    /\ phase = "running" /\ Alive(e) /\ entity[e].updating
    /\ entity' = [entity EXCEPT ![e].updating = FALSE, ![e].unsent = FALSE, ![e].clean = FALSE]
    /\ UNCHANGED <<idGenerator, managerVars, pendingQueries, tables, phase, changes, restarts>>

\* The Update operation: what is unsent is no longer clean, and the entity emits
\* "updated".
Update(e) ==
    /\ phase = "running" /\ Alive(e) /\ entity[e].updating
    /\ Signals([entity EXCEPT ![e].updating = FALSE, ![e].unsent = FALSE, ![e].clean = FALSE,
                              ![e].pclean = @ /\ ~entity[e].unsent],
               <<e>>)
    /\ UNCHANGED <<idGenerator, m_unstoredEntities, m_destroyedEntities, pendingQueries,
                   tables, phase, changes, restarts>>

\* p is e or inside of e: whatever holds p and the containers of all it holds, holds e.
Inside(p, e) ==
    \A S \in SUBSET Ids : (p \in S /\ \A q \in S : entity[q].parent \in S \cup {World}) => e \in S

\* changeContainer(): the old container, the new one and the entity itself emit
\* their signals, in this order, and an Update operation is sent.
Move(e, to) ==
    LET from == entity[e].parent
    IN  /\ phase = "running" /\ Alive(e) /\ changes < MaxChanges
        /\ to # from /\ (to = World \/ (Alive(to) /\ ~Inside(to, e)))
        /\ Signals([entity EXCEPT ![e].parent = to, ![e].clean = FALSE, ![e].updating = TRUE],
                   BecomesEmpty(from, e) \o BecomesNonEmpty(to) \o <<e>>)
        /\ changes' = changes + 1
        /\ UNCHANGED <<idGenerator, m_unstoredEntities, m_destroyedEntities, pendingQueries,
                       tables, phase, restarts>>

\* Mutant: entityUpdated() looks at entity_queued before it looks at isDestroyed().
DestroyedSignals_QueuedFirst(e) ==
    IF ~entity[e].connected \/ entity[e].queued THEN 0 ELSE IF Children(e) = {} THEN 1 ELSE 2

\* How often a deleted entity reports itself to entityUpdated(): not at all before
\* it is stored, and twice if it is emptied first.
DestroyedSignals(e) ==
    IF ~entity[e].connected THEN 0 ELSE IF Children(e) = {} THEN 1 ELSE 2

\* delEntity(): what the entity contains, which is kept by address and so in any
\* order, is moved to its container; then the entity leaves its container and
\* reports itself as destroyed.
Delete(e, inside) ==
    LET parent == entity[e].parent
    IN  /\ phase = "running" /\ Alive(e)
        /\ Signals([i \in Ids |->
                        IF i = e THEN [entity[e] EXCEPT !.status = "destroyed"]
                        ELSE IF i \in Children(e)
                             THEN [entity[i] EXCEPT !.parent = parent, !.clean = FALSE,
                                                    !.updating = TRUE]
                             ELSE entity[i]],
                   inside \o (IF inside = <<>> THEN BecomesEmpty(parent, e) ELSE <<>>))
        /\ m_destroyedEntities' = m_destroyedEntities \o [i \in 1 .. DestroyedSignals(e) |-> e]
        /\ UNCHANGED <<idGenerator, m_unstoredEntities, pendingQueries, tables, phase, changes,
                       restarts>>

-----------------------------------------------------------------------------
(* tick() *)

Command(cmd, e, arg) == [cmd |-> cmd, id |-> e, arg |-> arg]

\* dropEntity()
DropCommands(e) == <<Command("delete properties", e, 0), Command("delete entity", e, 0)>>

\* insertEntity(), of an entity that still lives.
InsertCommands(e) ==
    IF ~Alive(e) THEN <<>>
    ELSE <<Command("insert entity", e, entity[e].parent)>>
         \o (IF entity[e].value = 0 THEN <<>>
             ELSE <<Command("insert properties", e, entity[e].value)>>)

\* updateEntity().  A destroyed entity is no longer in any container.
UpdateCommands(e) ==
    IF entity[e].clean THEN <<>>
    ELSE (IF entity[e].status = "destroyed" THEN <<>>
          ELSE <<Command("update entity", e, entity[e].parent)>>)
         \o (IF entity[e].value = 0 \/ entity[e].pclean THEN <<>>
             ELSE <<Command(IF entity[e].seen THEN "update property" ELSE "insert properties",
                            e, entity[e].value)>>)

\* The flags after insertEntity() or updateEntity() wrote the entity.
Written(ent) ==
    [ent EXCEPT !.clean = TRUE, !.pclean = @ \/ ent.value # 0, !.seen = @ \/ ent.value # 0]

AfterInsert(ent) == [Written(ent) EXCEPT !.queued = FALSE, !.connected = TRUE]
AfterUpdate(ent) == [(IF ent.clean THEN ent ELSE Written(ent)) EXCEPT !.queued = FALSE]

\* The commands of one tick() that gets through n of the dirty entities.
Drops == FlattenSeq([i \in DOMAIN m_destroyedEntities |-> DropCommands(m_destroyedEntities[i])])
Inserts == FlattenSeq([i \in DOMAIN m_unstoredEntities |-> InsertCommands(m_unstoredEntities[i])])
Updates(n) == FlattenSeq([i \in 1 .. n |-> UpdateCommands(m_dirtyEntities[i])])
TickCommands(n) == Drops \o Inserts \o Updates(n)

\* The body of tick(): it stops only when more than DirtyLimit commands are pending.
\* As the worker takes commands off the queue meanwhile, it may as well go on.
TickBody(n) ==
    /\ n \in 0 .. Len(m_dirtyEntities)
    /\ n < Len(m_dirtyEntities) => Len(pendingQueries \o TickCommands(n)) > DirtyLimit
    /\ pendingQueries' = pendingQueries \o TickCommands(n)
    /\ m_destroyedEntities' = <<>>
    /\ m_unstoredEntities' = <<>>
    /\ m_dirtyEntities' = SubSeq(m_dirtyEntities, n + 1, Len(m_dirtyEntities))
    /\ entity' = [e \in Ids |->
                    IF Alive(e) /\ e \in Range(m_unstoredEntities) THEN AfterInsert(entity[e])
                    ELSE IF \E i \in 1 .. n : m_dirtyEntities[i] = e
                         THEN AfterUpdate(entity[e]) ELSE entity[e]]

Tick(n) ==
    /\ phase = "running"
    /\ TickBody(n)
    /\ UNCHANGED <<idGenerator, tables, phase, changes, restarts>>

-----------------------------------------------------------------------------
(* The database *)

\* What a command makes of the tables db.  An INSERT for an id that has a row
\* fails; property rows have no key, so an INSERT always adds one.
Executed(db, c) ==
    CASE c.cmd = "insert entity"     -> IF db.rows[c.id] = NoRow
                                        THEN [db EXCEPT !.rows[c.id] = c.arg] ELSE db
      [] c.cmd = "update entity"     -> IF db.rows[c.id] = NoRow
                                        THEN db ELSE [db EXCEPT !.rows[c.id] = c.arg]
      [] c.cmd = "delete entity"     -> [db EXCEPT !.rows[c.id] = NoRow]
      [] c.cmd = "insert properties" -> [db EXCEPT !.props[c.id] = Append(@, c.arg)]
      [] c.cmd = "update property"   -> [db EXCEPT !.props[c.id] = [i \in DOMAIN @ |-> c.arg]]
      [] c.cmd = "delete properties" -> [db EXCEPT !.props[c.id] = <<>>]

Database == [rows |-> entitiesTable, props |-> propertiesTable]

\* The worker thread ran the first command.
ExecuteCommand ==
    /\ pendingQueries # <<>>
    /\ LET db == Executed(Database, Head(pendingQueries))
       IN  entitiesTable' = db.rows /\ propertiesTable' = db.props
    /\ pendingQueries' = Tail(pendingQueries)
    /\ UNCHANGED <<entity, idGenerator, managerVars, phase, changes, restarts>>

-----------------------------------------------------------------------------
(* Shutdown, crash and restart *)

\* Mutant: shutdown() does not tick.
Shutdown_NoTick(n) ==
    /\ phase = "running" /\ n = 0
    /\ phase' = "stopping"
    /\ UNCHANGED <<entity, managerVars, pendingQueries, idGenerator, tables, changes, restarts>>

\* shutdown(): one last tick ...
Shutdown(n) ==
    /\ phase = "running"
    /\ TickBody(n)
    /\ phase' = "stopping"
    /\ UNCHANGED <<idGenerator, tables, changes, restarts>>

\* ... and blockUntilAllQueriesComplete().
ShutdownComplete ==
    /\ phase = "stopping" /\ pendingQueries = <<>>
    /\ phase' = "stopped"
    /\ UNCHANGED <<entity, idGenerator, managerVars, pendingQueries, tables, changes, restarts>>

\* The process is gone, with everything that is not in the tables.
Crash ==
    /\ phase \in {"running", "stopping"} /\ restarts < MaxRestarts
    /\ phase' = "crashed"
    /\ pendingQueries' = <<>>
    /\ UNCHANGED <<entity, idGenerator, managerVars, tables, changes, restarts>>

\* S holds every entity whose row says it is in the world or in an entity of S.
HoldsContent(S) == \A e \in Ids : entitiesTable[e] \in S \cup {World} => e \in S

\* restoreChildren(): the entities whose rows lead up to the world.
Restorable == {e \in Ids : \A S \in SUBSET Ids : HoldsContent(S) => e \in S}

\* restoreChildren() and restorePropertiesRecursively() for one entity.  It is
\* flagged as clean first, but changeContainer() resets the flag before the
\* entity is inserted in the world: entityInserted() takes it for a new one.
\* Of several property rows the last one counts.
Restored(e) ==
    LET rows == propertiesTable[e]
    IN  [None EXCEPT !.status = "alive", !.parent = entitiesTable[e], !.queued = TRUE,
                     !.value = IF rows = <<>> THEN 0 ELSE Last(rows),
                     !.pclean = rows # <<>>, !.seen = rows # <<>>]

MaxOf(S) == CHOOSE m \in S \cup {World} : \A i \in S : i <= m

\* Mutant: ids start after those of the entities that were restored.
LastStoredId_Restored == MaxOf(Restorable)

\* registerEntityIdGenerator()
LastStoredId == MaxOf({e \in Ids : entitiesTable[e] # NoRow})

\* The rows of a query come in any order.
Restart(order) ==
    /\ phase \in {"crashed", "stopped"} /\ restarts < MaxRestarts
    /\ phase' = "running"
    /\ restarts' = restarts + 1
    /\ entity' = [e \in Ids |-> IF e \in Restorable THEN Restored(e) ELSE None]
    /\ idGenerator' = LastStoredId
    /\ m_unstoredEntities' = order
    /\ m_dirtyEntities' = <<>>
    /\ m_destroyedEntities' = <<>>
    /\ UNCHANGED <<pendingQueries, tables, changes>>

Ended ==
    /\ phase = "stopped" /\ restarts = MaxRestarts
    /\ UNCHANGED vars

-----------------------------------------------------------------------------
Init ==
    /\ entity = [e \in Ids |-> None]
    /\ idGenerator = 0
    /\ m_unstoredEntities = <<>> /\ m_dirtyEntities = <<>> /\ m_destroyedEntities = <<>>
    /\ pendingQueries = <<>>
    /\ entitiesTable = [e \in Ids |-> NoRow]
    /\ propertiesTable = [e \in Ids |-> <<>>]
    /\ phase = "running" /\ changes = 0 /\ restarts = 0

DirtyCounts == 0 .. Len(m_dirtyEntities)

Next ==
    \/ \E p \in 0 .. MaxId, v \in {0, 1} : Create(p, v)
    \/ \E e \in Ids, v \in 1 .. MaxValue : SetProperty(e, v)
    \/ \E e \in Ids : Update(e)
    \/ \E e \in Ids, to \in 0 .. MaxId : Move(e, to)
    \/ \E e \in Ids : \E inside \in SetToSeqs(Children(e)) : Delete(e, inside)
    \/ \E n \in DirtyCounts : Tick(n)
    \/ ExecuteCommand
    \/ \E n \in DirtyCounts : Shutdown(n)
    \/ ShutdownComplete
    \/ Crash
    \/ \E order \in SetToSeqs(Restorable) : Restart(order)
    \/ Ended

Spec == Init /\ [][Next]_vars

\* Fairness: tick() is called once a second, the worker thread runs, and the
\* Update operations in the world's queue are dispatched (MainLoop).
Fairness ==
    /\ WF_vars(\E n \in DirtyCounts : Tick(n))
    /\ WF_vars(ExecuteCommand)
    /\ \A e \in Ids : WF_vars(Update(e))

FairSpec == Spec /\ Fairness

-----------------------------------------------------------------------------
CommandType ==
    [cmd : {"insert entity", "update entity", "delete entity", "insert properties",
            "update property", "delete properties"},
     id : Ids, arg : 0 .. MaxId + MaxValue]

\* The types of the variables.
TypeOK ==
    /\ entity \in [Ids -> Entity]
    /\ idGenerator \in 0 .. MaxId
    /\ m_unstoredEntities \in Seq(Ids) /\ m_dirtyEntities \in Seq(Ids)
    /\ m_destroyedEntities \in Seq(Ids)
    /\ pendingQueries \in Seq(CommandType)
    /\ entitiesTable \in [Ids -> NoRow .. MaxId]
    /\ propertiesTable \in [Ids -> Seq(1 .. MaxValue)]
    /\ phase \in {"running", "stopping", "stopped", "crashed"}

\* How often an entity stands in the two queues of entities.
Waiting(e) ==
    Cardinality({i \in DOMAIN m_unstoredEntities : m_unstoredEntities[i] = e})
    + Cardinality({i \in DOMAIN m_dirtyEntities : m_dirtyEntities[i] = e})

\* entity_queued tells the truth: a living entity with the flag stands in exactly
\* one queue, once; without it, in none.
QueuedOnce ==
    phase = "running" =>
        \A e \in Ids : Alive(e) => Waiting(e) = (IF entity[e].queued THEN 1 ELSE 0)

\* What the commands q, one after the other, make of the tables db.
After(db, q) ==
    LET after[n \in 0 .. Len(q)] == IF n = 0 THEN db ELSE Executed(after[n - 1], q[n])
    IN  after[Len(q)]

\* The tables once every pending command was run.
FutureDatabase == After(Database, pendingQueries)

\* The database holds what the entity is.
Holds(db, e) ==
    /\ db.rows[e] = entity[e].parent
    /\ entity[e].value = 0 => db.props[e] = <<>>
    /\ entity[e].value # 0 => db.props[e] # <<>> /\ Last(db.props[e]) = entity[e].value

\* No change of an entity is forgotten: what will be in the database is what the
\* entity is, or the entity is queued, or an Update operation is on its way.
NothingForgotten ==
    phase = "running" =>
        LET db == FutureDatabase
        IN  \A e \in Ids :
                (Alive(e) /\ ~entity[e].queued /\ ~entity[e].updating) => Holds(db, e)

\* An entity that was destroyed loses its row, or its id waits to be dropped.
DestroyedDropped ==
    phase = "running" =>
        LET db == FutureDatabase
        IN  \A e \in Ids : entity[e].status = "destroyed" =>
                db.rows[e] = NoRow \/ e \in Range(m_destroyedEntities)

\* StorageManager's queues are sound: each living entity stands in them as often as its
\* flag says, and a destroyed one will lose its row.
QueuesInv == TypeOK /\ QueuedOnce /\ DestroyedDropped

\* After a shutdown the database holds every entity that has no Update operation
\* outstanding, and no other.  Its single tick() stops at DirtyLimit like any other:
\* the entities that are left in m_dirtyEntities are stored as they were, or not at all.
ShutdownStoresWorld ==
    phase = "stopped" =>
        \A e \in Ids :
            /\ (Alive(e) /\ ~entity[e].updating /\ e \notin Range(m_dirtyEntities)) => Holds(Database, e)
            /\ Alive(e) => entitiesTable[e] # NoRow
            /\ ~Alive(e) => entitiesTable[e] = NoRow

\* What a restart can keep from being stored: a restored entity is moved before the first
\* tick, whose INSERT then fails on the row that is there; or a new one without a value
\* is given the id of one whose property rows are still there.
SpoiltByRestart(e) ==
    /\ restarts > 0
    /\ \/ e \in Range(m_unstoredEntities) /\ entitiesTable[e] \notin {NoRow, entity[e].parent}
       \/ entity[e].value = 0 /\ propertiesTable[e] # <<>>

\* A changed entity is in the database as it is in the end, however low DirtyLimit is,
\* unless it is destroyed, the server is shut down first or a restart spoilt its rows.
EventuallyStored ==
    \A e \in Ids : (Alive(e) /\ ~entity[e].clean) ~>
                       (~Alive(e) \/ phase # "running" \/ Holds(Database, e) \/ SpoiltByRestart(e))

\* An id that is not given out yet has no row: a new entity never takes the place
\* of a stored one, be it one that could not be restored.
FreshIds ==
    phase = "running" => \A e \in Ids : e > idGenerator => entitiesTable[e] = NoRow

\* The comment of entityInserted(): "This entity has just been restored from the
\* database, so does not need to be inserted, but will need to be updated."
RestoredNotInserted ==
    \A i \in DOMAIN pendingQueries :
        pendingQueries[i].cmd = "insert entity" => entitiesTable[pendingQueries[i].id] = NoRow

\* The comment of newId(): "Creates a new unique id for the database."
NewIdsUnique ==
    phase = "running" => \A e \in Ids : e > idGenerator =>
                             entitiesTable[e] = NoRow /\ propertiesTable[e] = <<>>

=============================================================================
