---------------------------- MODULE WorldRouter ----------------------------
(***************************************************************************)
(* The world (src/rules/simulation/WorldRouter.cpp and BaseWorld.cpp): the *)
(* operation processor behind the world's operation queue.                 *)
(*                                                                         *)
(* The queue is OperationsDispatcher with all its state.  Entities are     *)
(* created and destroyed by the operations that are dispatched, while      *)
(* operations from and to them still wait; the whole world can be          *)
(* suspended, which sets aside its ticks.  What an entity does with an     *)
(* operation is reduced to what concerns the router: which operations come *)
(* of it and whether entities appear, disappear or the world is suspended. *)
(***************************************************************************)
EXTENDS Integers, Sequences, FiniteSets

CONSTANTS
    MaxId,        \* bound on entity ids; the world itself has id 0
    Perceptive,   \* ids of the entities that observe broadcasts
    Commands,     \* the classes of operations that clients send
    Ulp,          \* what getTimeAsSeconds(), a float, is rounded to, in ticks
    Presets,      \* the times that makers of operations set
    MaxTime, MaxSequence

Ids == 0 .. MaxId
World == 0
NoOne == -1

ASSUME WorldAssumption ==
    /\ MaxId \in Nat \ {0} /\ MaxTime \in Nat /\ MaxSequence \in Nat \ {0}
    /\ Perceptive \subseteq Ids
    /\ Commands \subseteq {"talk", "create", "delete", "destroy", "clear",
                       "suspend", "resume"}
    /\ Ulp \in Nat \ {0}
    /\ Presets \subseteq 0 .. MaxTime

VARIABLES
    m_operationQueue, m_sequence, m_operation_queues_dirty, now, loop,
    dispatched, cleanHead,   \* of OperationsDispatcher
    m_eobjects,              \* ids of the entities in the world
    destroyed,               \* ids of the entities with entity_destroyed set
    m_entityCount,
    m_isSuspended,
    m_suspendedQueue,        \* the ticks set aside while the world is suspended
    failed,                  \* history: entities a tick of which threw an exception
    up                       \* FALSE once shutdown() was called

dispatcherVars == <<m_operationQueue, m_sequence, m_operation_queues_dirty, now, loop,
                    dispatched, cleanHead>>
entityVars == <<m_eobjects, destroyed, m_entityCount>>
suspensionVars == <<m_isSuspended, m_suspendedQueue>>
vars == <<dispatcherVars, entityVars, suspensionVars, failed, up>>

(***************************************************************************)
(* An operation: its class, its "to" (NoOne when it is not set), the id in *)
(* its argument and whether its time is resolved from a default "seconds"  *)
(* (set for immediate delivery), from a "future_seconds", or is the        *)
(* "seconds" that whoever made the operation has set.                      *)
(***************************************************************************)
Classes == {"tick", "perception", "unseen", "talk", "create", "delete", "destroy",
            "clear", "suspend", "resume"}
Operations == [cls : Classes, to : Ids \cup {NoOne}, arg : Ids \cup {NoOne},
               timing : {"immediate", "future", "preset"}, seconds : 0 .. MaxTime]

Op(cls, to, arg, timing) ==
    [cls |-> cls, to |-> to, arg |-> arg, timing |-> timing, seconds |-> 0]

\* The operation as it is, or with its "seconds" set by its maker.
Timed(op) == {op} \cup {[op EXCEPT !.timing = "preset", !.seconds = t] : t \in Presets}

D == INSTANCE OperationsDispatcher
        WITH Ops <- Operations, Senders <- Ids, MaxResults <- MaxSequence

\* getTimeAsSeconds(): the nearest value a float can hold.
TimeAsSeconds == ((2 * now + Ulp) \div (2 * Ulp)) * Ulp

Earliest(a, b) == IF a < b THEN a ELSE b

\* Mutant: the rounding of the clock is not monotonic.
ResolveDispatchTime_Unsteady(op) ==
    IF op.timing = "preset"
    THEN op.seconds
    ELSE Earliest(MaxTime, TimeAsSeconds + (IF op.timing = "future" THEN 1 ELSE m_sequence % 2))

\* resolveDispatchTimeForOp(): the time an operation is queued for.
ResolveDispatchTime(op) ==
    IF op.timing = "preset"
    THEN op.seconds
    ELSE Earliest(MaxTime, TimeAsSeconds + (IF op.timing = "future" THEN 1 ELSE 0))

\* The ids of a set in increasing order.
InOrder(S) ==
    CHOOSE s \in [1 .. Cardinality(S) -> S] :
        \A i, j \in 1 .. Cardinality(S) : i < j => s[i] < s[j]

\* broadcast(): one copy of the operation for every observer in the world.
Broadcast(op, from, present) ==
    LET receivers == InOrder(Perceptive \cap present)
    IN  [i \in DOMAIN receivers |->
            [op |-> [op EXCEPT !.to = receivers[i]], from |-> from,
             time |-> ResolveDispatchTime(op)]]

\* message(): what is queued for an operation sent by "from".
Message(op, from, present) ==
    IF op.to # NoOne
    THEN <<[op |-> op, from |-> from, time |-> ResolveDispatchTime(op)]>>
    ELSE IF op.cls = "perception"
         THEN Broadcast(op, from, present)
         ELSE <<>>

\* A tick an entity sends itself for later, and a perception of an entity.
TickTo(id) == Op("tick", id, NoOne, "future")
Perception(to, id) == Op("perception", to, id, "immediate")

-----------------------------------------------------------------------------
\* The world has one entity besides itself, whose tick is queued.
Init ==
    /\ \E t \in 0 .. MaxTime :
          m_operationQueue = {[op |-> TickTo(1), from |-> 1, time |-> t, sequence |-> 1]}
    /\ m_sequence = 1
    /\ m_operation_queues_dirty = TRUE
    /\ now = 0 /\ loop = "idle" /\ dispatched = <<>> /\ cleanHead = 0
    /\ m_eobjects = {World, 1}
    /\ destroyed = {}
    /\ m_entityCount = 2
    /\ m_isSuspended = FALSE
    /\ m_suspendedQueue = <<>>
    /\ failed = {}
    /\ up = TRUE

\* An operation reaches the world from outside, through message().
ClientMessage(from, op) ==
    /\ up /\ loop = "idle"
    /\ D!AddOperationsToQueue(m_operationQueue, Message(op, from, m_eobjects))
    /\ UNCHANGED <<now, loop, dispatched, cleanHead, entityVars, suspensionVars, failed, up>>

Alive(id) == id \in m_eobjects /\ id \notin destroyed

\* The entry is handed over with nothing coming of it (D!Dispatch pops it).
Handle(e, reqs) ==
    /\ up /\ loop # "idle"
    /\ D!DispatchDue(e, reqs)
    /\ UNCHANGED up

\* operation(): the target is gone.  A sender that lives is told so.
OperationUnseen(e) ==
    /\ e.op.to # e.from
    /\ ~Alive(e.op.to)
    /\ Handle(e, IF e.from \in destroyed
                 THEN <<>>
                 ELSE Message(Op("unseen", e.from, e.op.to, "immediate"), e.from, m_eobjects))
    /\ UNCHANGED <<entityVars, suspensionVars, failed>>

\* operation(): an operation to its own sender, which was destroyed meanwhile.
OperationToSelfDropped(e) ==
    /\ e.op.to = e.from
    /\ e.from \in destroyed
    /\ Handle(e, <<>>)
    /\ UNCHANGED <<entityVars, suspensionVars, failed>>

\* Mutant: an operation to its own sender is delivered without a further look.
Deliverable_SelfUnchecked(e) == e.op.to = e.from \/ Alive(e.op.to)

\* operation() found a target that deliverTo() is called with.
Deliverable(e) ==
    IF e.op.to = e.from THEN e.from \notin destroyed ELSE Alive(e.op.to)

\* Mutant: a suspended world drops the tick.
DeliverSuspended_Dropped(e) ==
    /\ Deliverable(e) /\ m_isSuspended /\ e.op.cls = "tick"
    /\ Handle(e, <<>>)
    /\ UNCHANGED <<entityVars, suspensionVars, failed>>

\* deliverTo() in a suspended world: the tick is set aside, from its target.
DeliverSuspended(e) ==
    /\ Deliverable(e) /\ m_isSuspended /\ e.op.cls = "tick"
    /\ m_suspendedQueue' = Append(m_suspendedQueue,
                                  [op |-> e.op, from |-> e.op.to, time |-> e.time])
    /\ Handle(e, <<>>)
    /\ UNCHANGED <<entityVars, m_isSuspended, failed>>

Delivered(e) == Deliverable(e) /\ ~(m_isSuspended /\ e.op.cls = "tick")

\* An entity's tick: the entity sends itself the next one, after a delay or for the
\* time it chooses.
DeliverTick(e, next) ==
    /\ Delivered(e) /\ e.op.cls = "tick"
    /\ Handle(e, Message(next, e.op.to, m_eobjects))
    /\ UNCHANGED <<entityVars, suspensionVars, failed>>

\* Perceptions go to minds; nothing comes of them here.
DeliverPerception(e) ==
    /\ Delivered(e) /\ e.op.cls \in {"perception", "unseen"}
    /\ Handle(e, <<>>)
    /\ UNCHANGED <<entityVars, suspensionVars, failed>>

\* Something is said: the result may be marked as being from any entity, and carry the
\* time that it happened.  An entity that does not exist sends nothing.
DeliverTalk(e, speaker, heard) ==
    /\ Delivered(e) /\ e.op.cls = "talk"
    /\ Handle(e, IF speaker = e.op.to \/ speaker \in m_eobjects
                 THEN Message(heard, speaker, m_eobjects)
                 ELSE <<>>)
    /\ UNCHANGED <<entityVars, suspensionVars, failed>>

\* addNewEntity() and addEntity(): an id is handed out, the entity takes its place
\* in the world, observers are told, and the entity's first tick is queued.
\* Without a valid id or parent there is no entity.
DeliverCreate(e, id) ==
    /\ Delivered(e) /\ e.op.cls = "create"
    /\ IF id = NoOne
       THEN Handle(e, <<>>) /\ UNCHANGED entityVars
       ELSE /\ id \notin m_eobjects \cup destroyed
            /\ m_eobjects' = m_eobjects \cup {id}
            /\ m_entityCount' = m_entityCount + 1
            /\ Handle(e, Message(Perception(NoOne, id), id, m_eobjects \cup {id})
                            \o Message(TickTo(id), id, m_eobjects))
            /\ UNCHANGED destroyed
    /\ UNCHANGED <<suspensionVars, failed>>

\* delEntity(): the world itself is never deleted.
DelEntity(id) ==
    /\ destroyed' = destroyed \cup ({id} \ {World})
    /\ m_eobjects' = m_eobjects \ ({id} \ {World})
    /\ m_entityCount' = (IF id = World THEN m_entityCount ELSE m_entityCount - 1)

\* A Delete to the entity itself: its observers are told, then it is deleted.
DeliverDelete(e) ==
    /\ Delivered(e) /\ e.op.cls = "delete"
    /\ DelEntity(e.op.to)
    /\ Handle(e, IF e.op.to = World
                 THEN <<>>
                 ELSE Broadcast(Perception(NoOne, e.op.to), e.op.to, m_eobjects))
    /\ UNCHANGED <<suspensionVars, failed>>

\* A Delete to the world with the id of another entity: it is deleted by force.
DeliverDestroy(e) ==
    /\ Delivered(e) /\ e.op.cls = "destroy"
    /\ IF e.op.to = World /\ e.op.arg \in m_eobjects \ {World}
       THEN DelEntity(e.op.arg)
       ELSE UNCHANGED entityVars
    /\ Handle(e, <<>>)
    /\ UNCHANGED <<suspensionVars, failed>>

\* clearWorld(), by a Delete to the world with its own id and "force": everything
\* but the world is deleted.  A world that was suspended stays so.
DeliverClear(e) ==
    /\ Delivered(e) /\ e.op.cls = "clear"
    /\ destroyed' = destroyed \cup (m_eobjects \ {World})
    /\ m_eobjects' = {World}
    /\ m_entityCount' = m_entityCount - Cardinality(m_eobjects \ {World})
    /\ Handle(e, <<>>)
    /\ UNCHANGED <<suspensionVars, failed>>

\* setIsSuspended(TRUE), through the world's "suspended" property.
DeliverSuspend(e) ==
    /\ Delivered(e) /\ e.op.cls = "suspend"
    /\ m_isSuspended' = (m_isSuspended \/ e.op.to = World)
    /\ Handle(e, <<>>)
    /\ UNCHANGED <<entityVars, m_suspendedQueue, failed>>

\* resumeWorld(): everything set aside is queued again, with its old time.
ResumeWorld ==
    /\ m_isSuspended' = FALSE
    /\ m_suspendedQueue' = <<>>

\* setIsSuspended(FALSE): only a suspended world is resumed.
DeliverResume(e) ==
    /\ Delivered(e) /\ e.op.cls = "resume"
    /\ IF e.op.to = World /\ m_isSuspended
       THEN ResumeWorld /\ Handle(e, m_suspendedQueue)
       ELSE UNCHANGED suspensionVars /\ Handle(e, <<>>)
    /\ UNCHANGED <<entityVars, failed>>

\* The entity's handler throws: operation() catches, and the results are lost.
DeliverThrows(e) ==
    /\ Delivered(e)
    /\ Handle(e, <<>>)
    /\ failed' = failed \cup (IF e.op.cls = "tick" THEN {e.op.to} ELSE {})
    /\ UNCHANGED <<entityVars, suspensionVars>>

StartProcessing == up /\ D!ProcessUntil /\ UNCHANGED <<entityVars, suspensionVars, failed, up>>

StopProcessing == up /\ D!EndProcessUntil /\ UNCHANGED <<entityVars, suspensionVars, failed, up>>

ClockTick == up /\ D!Tick /\ UNCHANGED <<entityVars, suspensionVars, failed, up>>

\* shutdown(): queues first, so that nothing in them refers to an entity.
Shutdown ==
    /\ up
    /\ D!ClearQueues
    /\ m_suspendedQueue' = <<>>
    /\ m_eobjects' = {}
    /\ up' = FALSE
    /\ UNCHANGED <<destroyed, m_entityCount, m_isSuspended, failed>>

\* The world was shut down, or the bound on m_sequence keeps it from going on.
AtBound ==
    /\ ~up \/ m_sequence = MaxSequence
    /\ UNCHANGED vars

ClientOps ==
    {Op(c, World, NoOne, "immediate") : c \in Commands \cap {"create", "clear", "suspend", "resume"}}
    \cup {Op(c, to, NoOne, "immediate") : c \in Commands \cap {"talk", "delete"},
                                          to \in Ids \cup {NoOne}}
    \cup {Op(c, World, arg, "immediate") : c \in Commands \cap {"destroy"}, arg \in Ids}

Next ==
    \/ \E from \in {id \in m_eobjects : Alive(id)}, op \in ClientOps : ClientMessage(from, op)
    \/ StartProcessing
    \/ \E e \in m_operationQueue :
          \/ OperationUnseen(e)
          \/ OperationToSelfDropped(e)
          \/ DeliverSuspended(e)
          \/ \E next \in Timed(TickTo(e.op.to)) : DeliverTick(e, next)
          \/ DeliverPerception(e)
          \/ \E speaker \in Ids : \E heard \in Timed(Perception(NoOne, speaker)) :
                DeliverTalk(e, speaker, heard)
          \/ \E id \in Ids \cup {NoOne} : DeliverCreate(e, id)
          \/ DeliverDelete(e)
          \/ DeliverDestroy(e)
          \/ DeliverClear(e)
          \/ DeliverSuspend(e)
          \/ DeliverResume(e)
          \/ DeliverThrows(e)
    \/ StopProcessing
    \/ ClockTick
    \/ Shutdown
    \/ AtBound

Spec == Init /\ [][Next]_vars

-----------------------------------------------------------------------------
\* The types of the router's own variables.
WorldTypeOK ==
    /\ m_operationQueue \subseteq D!OpQueEntry
    /\ m_eobjects \subseteq Ids
    /\ destroyed \subseteq Ids \ {World}
    /\ m_entityCount \in Nat
    /\ m_isSuspended \in BOOLEAN
    /\ m_suspendedQueue \in Seq(D!Request)
    /\ failed \subseteq Ids
    /\ up \in BOOLEAN

\* The ticks that wait for an entity, in the queue or set aside.
TicksOf(id) ==
    Cardinality({e \in m_operationQueue : e.op.cls = "tick" /\ e.op.to = id})
    + Cardinality({i \in DOMAIN m_suspendedQueue : m_suspendedQueue[i].op.to = id})

\* Suspending and resuming the world neither loses nor doubles a heartbeat: an
\* entity whose handlers never threw always has exactly one tick waiting.
OneTickEach ==
    up => \A id \in m_eobjects \ ({World} \cup failed) : TicksOf(id) = 1

\* Ticks wait aside only while the world is suspended.
NothingStranded == ~m_isSuspended => m_suspendedQueue = <<>>

\* The branch of operation() for operations without a "to", which walks over
\* the entities while they handle the operation, is never entered.
AllAddressed == \A e \in m_operationQueue : e.op.to # NoOne

\* m_entityCount counts the entities of the world: none is deleted twice,
\* although a Delete can be queued twice and can be sent by the entity itself.
CountMatches == up => m_entityCount = Cardinality(m_eobjects)

\* The entities are counted and their deletions done once, every operation has a
\* receiver when it is queued, and no tick stays aside after resumeWorld().
RouterInv == WorldTypeOK /\ AllAddressed /\ NothingStranded /\ CountMatches

\* What is sent for immediate delivery is dispatched in the order it was sent,
\* however coarse the clock has become.
ImmediateInOrder ==
    \A e, f \in m_operationQueue :
        (e.op.timing = "immediate" /\ f.op.timing = "immediate" /\ e.sequence < f.sequence)
            => D!Before(e, f)

=============================================================================
