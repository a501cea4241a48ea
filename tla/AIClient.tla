------------------------------ MODULE AIClient ------------------------------
(***************************************************************************)
(* The client that lends minds to entities of the server                   *)
(* (src/client/BaseClient.cpp, aiclient/PossessionClient.cpp and           *)
(* aiclient/PossessionAccount.cpp, with init(), processTick() and          *)
(* removeEntity() of rules/ai/BaseMind.cpp), and what it sees of the       *)
(* server (server/ExternalMindsManager.cpp, PossessionAuthenticator.cpp    *)
(* and Account.cpp, which Sessions models for several clients).            *)
(*                                                                         *)
(* The server asks for the possession of an entity, perhaps again; the     *)
(* client asks for the mind, with a callback and a timer, and makes a mind *)
(* of its own when the answer comes.  A request that the server does not   *)
(* accept is not answered at all.  Keys are numbered; 0 is none.           *)
(* Each mind keeps itself going by a Tick that it sends to itself through  *)
(* a dispatcher, and one timer wakes the client when the next operation of *)
(* the dispatcher is due.                                                  *)
(***************************************************************************)
EXTENDS Integers, Sequences, FiniteSets, Functions, Bags

CONSTANTS
    Bodies,        \* entities of the server that want a mind
    MaxClock,      \* bound: time, in ticks of a mind
    MaxAsks        \* bound: how often the server asks this client

ASSUME AIClientAssumption == MaxClock \in Nat /\ MaxAsks \in Nat

NoWait == -1    \* the dispatcher's timer is not waiting
IdleWait == 600 \* seconds until the timer wakes for an empty queue

VARIABLES
    clock,         \* the time
    callbacks,     \* m_callbacks: by serial number, the entity whose possession was asked for
    serialNo,      \* m_serialNo
    expired,       \* the callbacks whose timer has expired and whose handler has not run
    givenUp,       \* history: the serial numbers of the callbacks that timed out
    mMinds,        \* m_minds: by mind, its entity
    mEntitiesWithMinds,   \* m_entitiesWithMinds: by entity, its mind
    own,           \* the minds that know their own entity
    queue,         \* the Ticks in the dispatcher, a bag: for which mind, and when
    wait,          \* when the dispatcher's timer expires
    fired,         \* how often it has expired and its handler has not run
    toServer,      \* what the client sent
    fromServer,    \* what the server sent
    asks,          \* server: how often this client was asked
    keys,          \* server: m_possessions, the key to each entity
    serverMinds,   \* server: by mind of this client's account, in the order of their making,
                   \* the entity it was linked to and the request that it answers
    turnedDown,    \* history: the serial numbers of the requests that were not answered
    alive          \* server: the entities that exist

clientVars == <<clock, callbacks, serialNo, expired, givenUp, mMinds, mEntitiesWithMinds, own, queue, wait,
                fired, toServer, fromServer, asks, keys, serverMinds, turnedDown, alive>>
serverVars == <<asks, keys, serverMinds, turnedDown, alive>>
mindVars == <<mMinds, mEntitiesWithMinds, own, queue, wait>>

\* The connection is up and the account is possessive.
AIClientInit ==
    /\ clock = 0
    /\ callbacks = <<>> /\ serialNo = 0 /\ expired = {} /\ givenUp = {}
    /\ mMinds = <<>> /\ mEntitiesWithMinds = <<>> /\ own = {}
    /\ queue = EmptyBag /\ wait = NoWait /\ fired = 0
    /\ toServer = <<>> /\ fromServer = <<>>
    /\ asks = 0 /\ keys = [b \in Bodies |-> 0]
    /\ serverMinds = <<>> /\ turnedDown = {} /\ alive = Bodies

\* emplace() of a std::map: an entry that is there stays.
Emplace(f, k, v) == [x \in DOMAIN f \cup {k} |-> IF x \in DOMAIN f THEN f[x] ELSE v]

Earliest(S) == CHOOSE x \in S : \A y \in S : x <= y

\* scheduleDispatch() with the given queue: the timer is set for the next operation.
ScheduleDispatch(q) ==
    wait' = IF q = EmptyBag THEN clock + IdleWait ELSE Earliest({t.due : t \in BagToSet(q)})

TickOf(m) == [mind |-> m, due |-> clock + 1]

\* requestPossession(), entity_mindsChanged() or addConnection() of the server: this
\* client is asked, for the first time or again, with a new key if there is none.
ServerAsks(b) ==
    /\ asks < MaxAsks /\ b \in alive
    /\ asks' = asks + 1
    /\ keys' = [keys EXCEPT ![b] = IF @ = 0 THEN asks + 1 ELSE @]
    /\ fromServer' = Append(fromServer, [type |-> "possess", body |-> b, key |-> keys'[b]])
    /\ UNCHANGED <<clock, callbacks, serialNo, expired, givenUp, mindVars, fired, toServer, serverMinds,
                   turnedDown, alive>>

\* Another client, which was asked as well, was faster.
KeyUsedElsewhere(b) ==
    /\ keys[b] # 0
    /\ keys' = [keys EXCEPT ![b] = 0]
    /\ UNCHANGED <<clock, callbacks, serialNo, expired, givenUp, mindVars, fired, toServer, fromServer, asks,
                   serverMinds, turnedDown, alive>>

\* PossessOperation(), takePossession() and sendWithCallback()
TakePossession ==
    /\ fromServer # <<>> /\ Head(fromServer).type = "possess"
    /\ LET op == Head(fromServer)
       IN  /\ callbacks' = Emplace(callbacks, serialNo, op.body)
           /\ toServer' = Append(toServer, [serialno |-> serialNo, body |-> op.body, key |-> op.key])
    /\ serialNo' = serialNo + 1
    /\ fromServer' = Tail(fromServer)
    /\ UNCHANGED <<clock, expired, givenUp, mindVars, fired, serverVars>>

\* The minds of the account that are linked to an entity.
LinkedTo(b) == {m \in DOMAIN serverMinds : serverMinds[m].body = b}

\* PossessOperation() of the server's account.  authenticatePossession() accepts the
\* present key of an entity that exists, and throws away that of one that does not;
\* connectCharacter() links a mind unless the account has one on this entity.  If
\* either fails nothing is sent.
ServerAnswers ==
    /\ toServer # <<>>
    /\ toServer' = Tail(toServer)
    /\ LET r == Head(toServer)
           mind == Len(serverMinds) + 1
           valid == r.key = keys[r.body]
       IN  IF valid /\ r.body \in alive /\ LinkedTo(r.body) = {}
           THEN /\ serverMinds' = Append(serverMinds, [body |-> r.body, refno |-> r.serialno])
                /\ fromServer' = Append(fromServer, [type |-> "info", refno |-> r.serialno, mind |-> mind, body |-> r.body])
                /\ keys' = [keys EXCEPT ![r.body] = 0]
                /\ UNCHANGED turnedDown
           ELSE /\ keys' = [keys EXCEPT ![r.body] = IF valid /\ r.body \notin alive THEN 0 ELSE @]
                /\ turnedDown' = turnedDown \cup {r.serialno}
                /\ UNCHANGED <<serverMinds, fromServer>>
    /\ UNCHANGED <<clock, callbacks, serialNo, expired, givenUp, mindVars, fired, asks, alive>>

\* The entity is destroyed; its mind is told.
ServerDestroys(b) ==
    /\ b \in alive
    /\ alive' = alive \ {b}
    /\ fromServer' = IF LinkedTo(b) # {}
                     THEN Append(fromServer, [type |-> "disappearance", body |-> b])
                     ELSE fromServer
    /\ UNCHANGED <<clock, callbacks, serialNo, expired, givenUp, mindVars, fired, toServer, asks, keys, serverMinds,
                   turnedDown>>

\* Mutant: the mind is found by its own id only.
CreateMindInstance_ById(mind, b) ==
    /\ mMinds' = Emplace(mMinds, mind, b)
    /\ queue' = queue (+) SetToBag({TickOf(mind)})
    /\ ScheduleDispatch(queue')
    /\ UNCHANGED <<own, mEntitiesWithMinds>>

\* createMindInstance(): the mind's init() sends the first Tick.
CreateMindInstance(mind, b) ==
    /\ mMinds' = Emplace(mMinds, mind, b)
    /\ mEntitiesWithMinds' = Emplace(mEntitiesWithMinds, b, mind)
    /\ queue' = queue (+) SetToBag({TickOf(mind)})
    /\ ScheduleDispatch(queue')
    /\ UNCHANGED own

\* externalOperation() with an answer: the callback is called, if it is still there.
AnswerArrives ==
    /\ fromServer # <<>> /\ Head(fromServer).type = "info"
    /\ fromServer' = Tail(fromServer)
    /\ LET op == Head(fromServer)
       IN  IF op.refno \in DOMAIN callbacks
           THEN /\ callbacks' = Restrict(callbacks, DOMAIN callbacks \ {op.refno})
                /\ CreateMindInstance(op.mind, op.body)
           ELSE UNCHANGED <<callbacks, mindVars>>
    /\ UNCHANGED <<clock, serialNo, expired, givenUp, fired, toServer, serverVars>>

\* operation() of the account, for an entity: it disappears.  A mind that does not know
\* its own entity does not notice; one that does is destroyed and removed.
Disappears ==
    /\ fromServer # <<>> /\ Head(fromServer).type = "disappearance"
    /\ fromServer' = Tail(fromServer)
    /\ LET b == Head(fromServer).body
       IN  IF b \in DOMAIN mEntitiesWithMinds /\ mEntitiesWithMinds[b] \in own
           THEN /\ mMinds' = Restrict(mMinds, DOMAIN mMinds \ {mEntitiesWithMinds[b]})
                /\ own' = own \ {mEntitiesWithMinds[b]}
                /\ mEntitiesWithMinds' = Restrict(mEntitiesWithMinds, DOMAIN mEntitiesWithMinds \ {b})
           ELSE UNCHANGED <<mMinds, own, mEntitiesWithMinds>>
    /\ UNCHANGED <<clock, callbacks, serialNo, expired, givenUp, queue, wait, fired, toServer, serverVars>>

\* The Sight of its own entity reaches a mind.
OwnEntityKnown(m) ==
    /\ m \in DOMAIN mMinds \ own
    /\ \/ mMinds[m] \in alive
       \/ \E i \in DOMAIN fromServer : fromServer[i] = [type |-> "disappearance", body |-> mMinds[m]]
    /\ own' = own \cup {m}
    /\ UNCHANGED <<clock, callbacks, serialNo, expired, givenUp, mMinds, mEntitiesWithMinds, queue, wait, fired,
                   toServer, fromServer, serverVars>>

\* The timer of a callback expires, five seconds after it was set, ...
CallbackTimer(n) ==
    /\ n \in DOMAIN callbacks \ expired
    /\ expired' = expired \cup {n}
    /\ UNCHANGED <<clock, callbacks, serialNo, givenUp, mindVars, fired, toServer, fromServer, serverVars>>

\* ... and its handler runs, perhaps after the answer has come.
CallbackTimeout(n) ==
    /\ n \in expired
    /\ expired' = expired \ {n}
    /\ IF n \in DOMAIN callbacks
       THEN /\ givenUp' = givenUp \cup {n}
            /\ callbacks' = Restrict(callbacks, DOMAIN callbacks \ {n})
       ELSE UNCHANGED <<givenUp, callbacks>>
    /\ UNCHANGED <<clock, serialNo, mindVars, fired, toServer, fromServer, serverVars>>

\* The dispatcher's timer expires ...
DispatchTimer ==
    /\ wait # NoWait /\ wait <= clock
    /\ wait' = NoWait /\ fired' = fired + 1
    /\ UNCHANGED <<clock, callbacks, serialNo, expired, givenUp, mMinds, mEntitiesWithMinds, own, queue, toServer,
                   fromServer, serverVars>>

\* Mutant: the timer is not set again.
DispatchHandler_NotAgain(done) ==
    /\ fired > 0
    /\ fired' = fired - 1
    /\ queue' = (queue (-) SetToBag(done))
                (+) SetToBag({TickOf(t.mind) : t \in {x \in done : x.mind \in DOMAIN mMinds}})
    /\ UNCHANGED <<clock, callbacks, serialNo, expired, givenUp, mMinds, mEntitiesWithMinds, own, wait, toServer,
                   fromServer, serverVars>>

\* What processUntil() may handle before its time is over: first what is due first, and
\* something if anything is due.
HandledInTime(done) ==
    LET due == {t \in BagToSet(queue) : t.due <= clock}
    IN  /\ done \subseteq due /\ (due # {} => done # {})
        /\ \A t \in done, u \in due \ done : t.due <= u.due

\* ... and its handler handles what is due and sets the timer again.  A mind that is
\* still there answers its Tick with the next one.
DispatchHandler(done) ==
    /\ fired > 0
    /\ fired' = fired - 1
    /\ queue' = (queue (-) SetToBag(done))
                (+) SetToBag({TickOf(t.mind) : t \in {x \in done : x.mind \in DOMAIN mMinds}})
    /\ ScheduleDispatch(queue')
    /\ UNCHANGED <<clock, callbacks, serialNo, expired, givenUp, mMinds, mEntitiesWithMinds, own, toServer,
                   fromServer, serverVars>>

TimePasses ==
    /\ clock < MaxClock
    /\ clock' = clock + 1
    /\ UNCHANGED <<callbacks, serialNo, expired, givenUp, mindVars, fired, toServer, fromServer, serverVars>>

AIClientNext ==
    \/ \E b \in Bodies : ServerAsks(b) \/ KeyUsedElsewhere(b) \/ ServerDestroys(b)
    \/ TakePossession \/ ServerAnswers \/ AnswerArrives \/ Disappears
    \/ \E m \in DOMAIN mMinds : OwnEntityKnown(m)
    \/ \E n \in DOMAIN callbacks \cup expired : CallbackTimer(n) \/ CallbackTimeout(n)
    \/ DispatchTimer
    \/ \E done \in SUBSET BagToSet(queue) : HandledInTime(done) /\ DispatchHandler(done)
    \/ TimePasses

AIClientSpec == AIClientInit /\ [][AIClientNext]_clientVars

-----------------------------------------------------------------------------

\* What the server sent and the client has not taken.
Coming(type) == {op \in Range(fromServer) : op.type = type}

\* The places where a request or its answer is under way.
Asking(n) == {i \in DOMAIN toServer : toServer[i].serialno = n}
Replies(n) == {i \in DOMAIN fromServer : fromServer[i].type = "info" /\ fromServer[i].refno = n}

\* Both tables of minds name the same minds, one for each entity however often it was
\* asked for, and they are minds of the server.  A mind of the server whose entity is
\* there has its counterpart here unless the answer is still to come or the request that
\* it answers has timed out, and a mind here whose entity is gone is told so, unless it
\* was told before it knew its entity.  A callback waits for its one request or its one
\* answer under way; only a request that the server turned down leaves it to its timer
\* (PossessionAccount.cpp: createMindInstance(), operation(); BaseClient.cpp:
\* externalOperation(), sendWithCallback(); Account.cpp: PossessOperation()).
MindsLent ==
    /\ \A m \in DOMAIN mMinds : mMinds[m] \in DOMAIN mEntitiesWithMinds /\ mEntitiesWithMinds[mMinds[m]] = m
    /\ \A b \in DOMAIN mEntitiesWithMinds : mEntitiesWithMinds[b] \in DOMAIN mMinds
    /\ \A m \in DOMAIN mMinds : m \in DOMAIN serverMinds /\ serverMinds[m].body = mMinds[m]
    /\ \A m \in DOMAIN serverMinds :
          serverMinds[m].body \in alive =>
              \/ m \in DOMAIN mMinds
              \/ serverMinds[m].refno \in givenUp
              \/ \E op \in Coming("info") : op.mind = m /\ op.refno \in DOMAIN callbacks
    /\ \A m \in own : mMinds[m] \notin alive => \E op \in Coming("disappearance") : op.body = mMinds[m]
    /\ \A n \in DOMAIN callbacks :
          Cardinality(Asking(n)) + Cardinality(Replies(n)) = IF n \in turnedDown THEN 0 ELSE 1

\* Every mind has exactly one Tick in the dispatcher, and whenever there is something in
\* the dispatcher its timer expires no later than the first of it is due, or has expired
\* (BaseMind.cpp: processTick(); PossessionClient.cpp: processResponses(),
\* scheduleDispatch()).
MindsTick ==
    /\ \A m \in DOMAIN mMinds :
          \E t \in BagToSet(queue) :
              t.mind = m /\ queue[t] = 1 /\ \A u \in BagToSet(queue) : u.mind = m => u = t
    /\ queue # EmptyBag =>
          fired > 0 \/ (wait # NoWait /\ \A t \in BagToSet(queue) : wait <= t.due)
=============================================================================
