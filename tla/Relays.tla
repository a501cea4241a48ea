------------------------------- MODULE Relays -------------------------------
(***************************************************************************)
(* Questions from mind to mind: Relay operations                           *)
(* (src/rules/simulation/ExternalMind.cpp, AdminMind.cpp and the relays in *)
(* MindsProperty.cpp).                                                     *)
(*                                                                         *)
(* The client behind an administrator's mind sends a Relay to a mind of    *)
(* another entity.  That mind registers it under a serial number of the    *)
(* server, asks its own client, and relays the client's answer back.  A    *)
(* second Relay, which it sends to itself, ends the wait after a while.    *)
(* Minds come off their entities at any time.                              *)
(***************************************************************************)
EXTENDS Integers, FiniteSets, Functions

CONSTANTS
    RelayMinds,   \* minds; all of them may ask
    Body,         \* the entity of each
    MaxRelays     \* bound: how many Relays are sent

ASSUME RelaysAssumption == DOMAIN Body = RelayMinds /\ MaxRelays \in Nat

NoNumber == 0   \* a refno or a serialno that is not set

VARIABLES
    linked,       \* the minds that are in their entity's MindsProperty
    relays,       \* m_relays of each mind: by serial number, the Relay that is answered
    serialNext,   \* s_serialNumberNext
    relayOps,     \* the Relay operations in the world's queue
    questions,    \* what the clients were asked: the mind and the serial number
    asked,        \* the Relays that were sent
    answered      \* how often the asking client got the answer to each of them

relaysVars == <<linked, relays, serialNext, relayOps, questions, asked, answered>>

RelaysInit ==
    /\ linked = RelayMinds
    /\ relays = [m \in RelayMinds |-> <<>>]
    /\ serialNext = 0
    /\ relayOps = {} /\ questions = {} /\ asked = {}
    /\ answered = <<>>

\* A Relay that asks: fromId is the mind that wants the answer, serialno the number that
\* its client gave it.  Clients number their operations independently of each other.
RelayOp(a, b, n) ==
    [to |-> Body[b], from |-> Body[a], id |-> b, serialno |-> n, refno |-> NoNumber, fromId |-> a]

\* A Relay that mind b sends back to whoever sent the given one.
AnswerOp(op) ==
    [to |-> op.from, from |-> op.to, id |-> op.fromId, serialno |-> NoNumber,
     refno |-> op.serialno, fromId |-> op.id]

\* Mutant: the Relay to oneself is not directed to the mind.
PruneOp_NoId(m, serialno) ==
    [to |-> Body[m], from |-> Body[m], id |-> NoNumber, serialno |-> NoNumber,
     refno |-> serialno, fromId |-> m]

\* The Relay a mind sends to itself, to be handled five seconds later.
PruneOp(m, serialno) ==
    [to |-> Body[m], from |-> Body[m], id |-> m, serialno |-> NoNumber,
     refno |-> serialno, fromId |-> m]

\* externalOperation() of an AdminMind: a Relay to another mind's entity is queued.
SendRelay(a, b) ==
    /\ a \in linked /\ a # b
    /\ Cardinality(asked) < MaxRelays
    /\ LET n == 1 + Cardinality({op \in asked : op.fromId = a})
       IN  /\ asked' = asked \cup {RelayOp(a, b, n)}
           /\ relayOps' = relayOps \cup {RelayOp(a, b, n)}
    /\ UNCHANGED <<linked, relays, serialNext, questions, answered>>

\* Entries are put into and taken out of the tables.
Put(f, n, v) == [x \in DOMAIN f \cup {n} |-> IF x = n THEN v ELSE f[x]]
Without(f, n) == Restrict(f, DOMAIN f \ {n})

\* RelayOperation() of mind m for a Relay of its own: the wait is over, and whoever
\* asked is told so with an empty Relay.
Prune(m, op) ==
    /\ op.to = Body[m] /\ op.from = Body[m] /\ op.refno # NoNumber
    /\ IF op.refno \in DOMAIN relays[m]
       THEN /\ relayOps' = (relayOps \ {op}) \cup {AnswerOp(relays[m][op.refno])}
            /\ relays' = [relays EXCEPT ![m] = Without(@, op.refno)]
       ELSE /\ relayOps' = relayOps \ {op}
            /\ UNCHANGED relays
    /\ UNCHANGED <<linked, serialNext, questions, asked, answered>>

\* ... for the answer to one that its client sent.
Answer(m, op) ==
    /\ op.refno # NoNumber /\ ~ (op.to = Body[m] /\ op.from = Body[m])
    /\ relayOps' = relayOps \ {op}
    /\ LET r == [of |-> m, n |-> op.refno]
       IN  answered' = Put(answered, r, 1 + IF r \in DOMAIN answered THEN answered[r] ELSE 0)
    /\ UNCHANGED <<linked, relays, serialNext, questions, asked>>

\* ... for one that asks.
Ask(m, op) ==
    /\ op.refno = NoNumber
    /\ serialNext' = serialNext + 1
    /\ relays' = [relays EXCEPT ![m] = Put(@, serialNext', op)]
    /\ questions' = questions \cup {<<m, serialNext'>>}
    /\ relayOps' = (relayOps \ {op}) \cup {PruneOp(m, serialNext')}
    /\ UNCHANGED <<linked, asked, answered>>

\* MindsProperty::RelayOperation(): the mind the Relay is directed to handles it; if
\* there is none the Relay is dropped.
DeliverRelay(op) ==
    \/ \E m \in linked : m = op.id /\ Body[m] = op.to /\ (Prune(m, op) \/ Answer(m, op) \/ Ask(m, op))
    \/ /\ ~ \E m \in linked : m = op.id /\ Body[m] = op.to
       /\ relayOps' = relayOps \ {op}
       /\ UNCHANGED <<linked, relays, serialNext, questions, asked, answered>>

\* externalRelayedOperation(): the client answers, or answers again; what it answers
\* too late is dropped.
ClientAnswers(m, n) ==
    IF n \in DOMAIN relays[m]
    THEN /\ relayOps' = relayOps \cup {AnswerOp(relays[m][n])}
         /\ relays' = [relays EXCEPT ![m] = Without(@, n)]
         /\ UNCHANGED <<linked, serialNext, questions, asked, answered>>
    ELSE /\ questions' = questions \ {<<m, n>>}
         /\ UNCHANGED <<linked, relays, serialNext, relayOps, asked, answered>>

\* A mind comes off its entity and is destroyed.
RemoveMind(m) ==
    /\ m \in linked
    /\ linked' = linked \ {m}
    /\ relays' = [relays EXCEPT ![m] = <<>>]
    /\ questions' = {q \in questions : q[1] # m}
    /\ UNCHANGED <<serialNext, relayOps, asked, answered>>

RelaysNext ==
    \/ \E a, b \in RelayMinds : SendRelay(a, b)
    \/ \E op \in relayOps : DeliverRelay(op)
    \/ \E q \in questions : ClientAnswers(q[1], q[2])
    \/ \E m \in RelayMinds : RemoveMind(m)

RelaysSpec == RelaysInit /\ [][RelaysNext]_relaysVars

-----------------------------------------------------------------------------

AnswersTo(op) ==
    LET r == [of |-> op.fromId, n |-> op.serialno]
    IN  IF r \in DOMAIN answered THEN answered[r] ELSE 0

\* Where a Relay is registered with the mind it asks.
Registered(op) == {n \in DOMAIN relays[op.id] : relays[op.id][n] = op}

\* A Relay between two entities has exactly one fate as long as both minds are there:
\* it waits to be delivered, or it is registered with the mind that is asked, which
\* will then end the wait, or the one answer is on its way, or has come
\* (ExternalMind.cpp: RelayOperation() and externalRelayedOperation()).
RelaysAnswered ==
    \A op \in asked :
        op.fromId \in linked /\ op.id \in linked /\ op.to # op.from =>
            /\ Cardinality({op, AnswerOp(op)} \cap relayOps)
               + Cardinality(Registered(op)) + AnswersTo(op) = 1
            /\ \A n \in Registered(op) : PruneOp(op.id, n) \in relayOps
=============================================================================
