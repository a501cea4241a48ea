-------------------------- MODULE SuspendedProperty --------------------------
(***************************************************************************)
(* The "suspended" property of entities other than the world               *)
(* (src/rules/simulation/SuspendedProperty.cpp), with the part of          *)
(* LocatedEntity::setAttr() that makes an entity's own instance of a       *)
(* property out of the default its type has.                               *)
(*                                                                         *)
(* A suspended entity's ticks are stored in the property instance that     *)
(* sees them, and sent again when that instance is switched off.  As long  *)
(* as an entity has no instance of its own, the instance is the one that   *)
(* all entities of the type share.  Entity::operation() calls the scripts  *)
(* first, one of which may block the tick, and then every delegate for     *)
(* ticks, whatever the others return: who keeps the entity ticking, be it  *)
(* a script or another property, handles a tick and queues the next one    *)
(* whether the entity is suspended or not, and the tick is stored besides. *)
(***************************************************************************)
EXTENDS Integers, Sequences, FiniteSets

CONSTANTS
    Sleepers,     \* the entities, other than the world
    Blocking,     \* those whose ticks are handled by a script that blocks them
    Numbered,     \* those whose ticks are numbered: by Ticks.py, or as tasks are
    Defaulted,    \* those of the type that has a default "suspended: 1"
    MaxNumber,    \* bound on those numbers
    MaxTicks,     \* bound on the ticks queued for one entity with one number
    MaxStored     \* bound on the ticks stored in an instance

ASSUME SuspendedAssumption ==
    /\ Blocking \subseteq Sleepers /\ Numbered \subseteq Sleepers
    /\ Defaulted \subseteq Sleepers
    /\ MaxNumber \in Nat /\ MaxTicks \in Nat \ {0} /\ MaxStored \in Nat

VARIABLES
    queued,     \* how many Tick operations of each number are in the world's queue for each entity
    tickRefno,  \* tick_refno: the number of the tick that the entity expects
    own,        \* the entity's own instance of the property, or NoInstance
    default     \* m_suspendedOps of that type's default instance

suspendedVars == <<queued, tickRefno, own, default>>

Numbers == 0 .. MaxNumber
StoredTick(e, n) == [of |-> e, number |-> n]

NoInstance == [on |-> FALSE, m_suspendedOps |-> <<>>, present |-> FALSE]

PropertyInstance(on, ops) == [on |-> on, m_suspendedOps |-> ops, present |-> TRUE]

SuspendedInit ==
    /\ queued = [e \in Sleepers |-> [n \in Numbers |-> IF n = 0 THEN 1 ELSE 0]]
    /\ tickRefno = [e \in Sleepers |-> 0]
    /\ own = [e \in Sleepers |-> NoInstance]
    /\ default = <<>>

-----------------------------------------------------------------------------
(* A tick is handled *)

Suspended(e) == IF own[e].present THEN own[e].on ELSE e \in Defaulted

\* verify_tick(): a tick with another number than the expected one is ignored.  The ticks
\* of a domain, or of actions, have no numbers.
Expected(e, n) == e \in Numbered => n = tickRefno[e]

\* Mutant: the next tick has the number of this one.
NextNumber_Same(e) == tickRefno[e]

\* The number of the next tick.
NextNumber(e) == IF e \in Numbered THEN tickRefno[e] + 1 ELSE tickRefno[e]

\* The script or the property that keeps the entity ticking: the next tick is queued.
Handled(e, n) ==
    /\ queued[e][n] > 0
    /\ IF Expected(e, n)
       THEN /\ NextNumber(e) \in Numbers
            /\ tickRefno' = [tickRefno EXCEPT ![e] = NextNumber(e)]
            /\ queued' = [queued EXCEPT ![e] =
                  [m \in Numbers |-> queued[e][m] - (IF m = n THEN 1 ELSE 0)
                                                  + (IF m = NextNumber(e) THEN 1 ELSE 0)]]
       ELSE /\ queued' = [queued EXCEPT ![e] =
                  [m \in Numbers |-> queued[e][m] - (IF m = n THEN 1 ELSE 0)]]
            /\ UNCHANGED tickRefno

\* A script handles the tick and blocks it: the delegates are not called.
TickBlocked(e, n) ==
    /\ e \in Blocking /\ Expected(e, n)
    /\ Handled(e, n)
    /\ UNCHANGED <<own, default>>

\* The delegates of an entity that is not suspended are called.
TickHandled(e, n) ==
    /\ ~ (e \in Blocking /\ Expected(e, n)) /\ ~Suspended(e)
    /\ Handled(e, n)
    /\ UNCHANGED <<own, default>>

\* All delegates of a suspended entity are called: the tick is handled, and operation()
\* of the instance in charge stores it.
TickStored(e, n) ==
    /\ ~ (e \in Blocking /\ Expected(e, n)) /\ Suspended(e)
    /\ Handled(e, n)
    /\ \/ /\ own[e].present /\ Len(own[e].m_suspendedOps) < MaxStored
          /\ own' = [own EXCEPT ![e].m_suspendedOps = Append(@, StoredTick(e, n))]
          /\ UNCHANGED default
       \/ /\ ~own[e].present /\ Len(default) < MaxStored
          /\ default' = Append(default, StoredTick(e, n))
          /\ UNCHANGED own

-----------------------------------------------------------------------------
(* The property is set *)

\* What setAttr() starts from: the entity's own instance, a copy of the type's
\* default with everything it holds, or a new one.
CurrentInstance(e) ==
    IF own[e].present THEN own[e]
    ELSE IF e \in Defaulted THEN PropertyInstance(TRUE, default)
    ELSE PropertyInstance(FALSE, <<>>)

StoredFor(e, n, ops) == Cardinality({i \in DOMAIN ops : ops[i] = StoredTick(e, n)})

\* The instance after its value was set and apply() was called.
Applied(p, on) == PropertyInstance(on, IF on THEN p.m_suspendedOps ELSE <<>>)

\* A Set operation on the entity: set the value, then apply() it.  Switching the
\* suspension off sends every stored operation again.
SetSuspended(e, on) ==
    LET p == CurrentInstance(e)
    IN  /\ own' = [own EXCEPT ![e] = Applied(p, on)]
        /\ queued' = [f \in Sleepers |-> [n \in Numbers |->
                        queued[f][n] + (IF on THEN 0 ELSE StoredFor(f, n, p.m_suspendedOps))]]
        /\ \A f \in Sleepers, n \in Numbers : queued'[f][n] <= MaxTicks
        /\ UNCHANGED <<tickRefno, default>>

SuspendedNext ==
    \E e \in Sleepers :
        \/ \E n \in Numbers : TickBlocked(e, n) \/ TickHandled(e, n) \/ TickStored(e, n)
        \/ \E on \in BOOLEAN : SetSuspended(e, on)

SuspendedSpec == SuspendedInit /\ [][SuspendedNext]_suspendedVars

-----------------------------------------------------------------------------
\* However often entities are suspended and resumed, and whatever is sent again by them
\* or by others of their type, an entity goes on ticking and at its own pace: a tick
\* that it expects is queued, and where ticks are numbered it is the only one.  What is
\* stored was handled before and is ignored when it is sent again.  Ticks without
\* numbers are handled once more, each with a sequence of ticks of its own, so of those
\* the property only says that there is one.
NoTickLost ==
    \A e \in Sleepers :
        /\ queued[e][tickRefno[e]] >= 1
        /\ e \in Numbered => queued[e][tickRefno[e]] = 1

=============================================================================
