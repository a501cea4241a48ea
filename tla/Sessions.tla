------------------------------ MODULE Sessions ------------------------------
(***************************************************************************)
(* Connections, accounts and minds: server/Connection.cpp, Account.cpp,    *)
(* Lobby.cpp and ServerRouting.cpp, with ExternalMindsManager.cpp and      *)
(* PossessionAuthenticator.cpp, which hand the entities that have a "mind" *)
(* property to clients whose (admin) account has declared itself           *)
(* "possessive".                                                           *)
(*                                                                         *)
(* A connection is open, or closed (disconnect() was called but the object *)
(* lives on until its last asynchronous operation ends), or not there.     *)
(* Accounts and entities are numbers: the manager asks the possessive      *)
(* account that comes last in the order of its map.  A router is a pair:   *)
(* <<a, 0>> is account a, <<a, e>> is account a's mind of entity e.  Keys  *)
(* are numbered for each entity; 0 is no key.  A Possess operation sent to *)
(* a client stays in "requests" until the client's answer is handled.      *)
(* What the operations send to the clients besides is left out.            *)
(***************************************************************************)
EXTENDS Naturals, FiniteSets

CONSTANTS
    Connections,
    MaxAccount,   \* accounts are 1 .. MaxAccount
    Stored,       \* the accounts the database knows at the start
    Admins,       \* the admin accounts among them
    MaxEntity,    \* entities are 1 .. MaxEntity
    MaxMinds,     \* bound on the minds created
    NoConnection

ASSUME SessionsAssumption ==
    /\ NoConnection \notin Connections
    /\ MaxAccount \in Nat /\ MaxEntity \in Nat /\ MaxMinds \in Nat
    /\ Stored \subseteq 1 .. MaxAccount /\ Admins \subseteq Stored

Accounts == 1 .. MaxAccount
Entities == 1 .. MaxEntity

VARIABLES
    link,                  \* state of each connection
    m_routers,             \* routers of each connection
    m_connectableRouters,  \* accounts of each connection
    m_possessionRouters,   \* accounts a connection has registered with the manager
    accounts,              \* the accounts that exist
    m_connection,          \* the connection of each account
    m_minds,               \* the entities each account has a mind of
    m_charactersDict,      \* the entities that belong to each account
    lobby,                 \* the accounts in the lobby
    m_connections,         \* the manager's connection of each possessive account
    m_unpossessed,         \* the manager's m_unpossessedEntities
    m_possessed,           \* the manager's m_possessedEntities
    watched,               \* the entities whose signals the manager is connected to
    m_possessions,         \* the key with which each entity can be claimed
    keys,                  \* the last key made for each entity
    mind,                  \* each entity's "mind" property: enabled or not
    minds,                 \* the accounts in each entity's MindsProperty
    alive,                 \* the entities that are not destroyed
    requests,              \* Possess operations that clients have not answered
    made                   \* minds created so far

connectionVars == <<link, m_routers, m_connectableRouters, m_possessionRouters>>
accountVars == <<accounts, m_connection, m_charactersDict, lobby>>
managerVars == <<m_unpossessed, m_possessed, m_possessions, keys>>
vars == <<connectionVars, accountVars, m_minds, m_connections, managerVars, watched,
          mind, minds, alive, requests, made>>

Request == [connection : Connections, router : Accounts, entity : Entities, key : Nat]

Init ==
    /\ link = [c \in Connections |-> "none"]
    /\ m_routers = [c \in Connections |-> {}]
    /\ m_connectableRouters = [c \in Connections |-> {}]
    /\ m_possessionRouters = [c \in Connections |-> {}]
    /\ accounts = Stored
    /\ m_connection = [a \in Accounts |-> NoConnection]
    /\ m_minds = [a \in Accounts |-> {}]
    /\ m_charactersDict = [a \in Accounts |-> {}]
    /\ lobby = {}
    /\ m_connections = [a \in Accounts |-> NoConnection]
    /\ m_unpossessed = {} /\ m_possessed = {} /\ watched = {}
    /\ m_possessions = [e \in Entities |-> 0]
    /\ keys = [e \in Entities |-> 0]
    /\ mind = [e \in Entities |-> FALSE]
    /\ minds = [e \in Entities |-> {}]
    /\ alive = Entities
    /\ requests = {}
    /\ made = 0

-----------------------------------------------------------------------------
(* The manager of external minds *)

Possessive(registered) == {a \in Accounts : registered[a] # NoConnection}

\* requestPossessionFromRegisteredClients(): the last registered connection is
\* asked, if there is one and the entity has a key.  A closed connection is
\* asked as well, but will not read the answer.
Requested(registered, e, key) ==
    {[connection |-> registered[a], router |-> a, entity |-> e, key |-> key] :
        a \in {b \in Possessive(registered) :
                  /\ \A d \in Possessive(registered) : d <= b
                  /\ key # 0
                  /\ link[registered[b]] = "open"}}

\* addPossessionEntryForCharacter(): a new key, unless there is one pending.
WithKeys(possessions, es) ==
    [e \in Entities |-> IF e \in es /\ possessions[e] = 0 THEN keys[e] + 1 ELSE possessions[e]]
KeysMade(possessions) ==
    [e \in Entities |-> IF possessions[e] > keys[e] THEN possessions[e] ELSE keys[e]]

\* The MindsProperty of some entities is applied with other minds, which the
\* manager hears of (entity_mindsChanged()) for those it is connected to.
\* "registered" are its connections at that moment and "sent" the requests
\* that clients can still answer.
MindsChanged(newMinds, changed, registered, sent) ==
    LET seen == changed \cap watched
        left == {e \in seen : newMinds[e] = {}}
        possessions == WithKeys(m_possessions, left)
    IN  /\ minds' = newMinds
        /\ m_possessed' = (m_possessed \ left) \cup (seen \ left)
        /\ m_unpossessed' = (m_unpossessed \ (seen \ left)) \cup left
        /\ m_possessions' = possessions
        /\ keys' = KeysMade(possessions)
        /\ requests' = sent \cup UNION {Requested(registered, e, possessions[e]) : e \in left}

\* MindProperty::apply() with a value: requestPossession().
RequestPossession(e) ==
    LET possessions == WithKeys(m_possessions, {e})
    IN  /\ e \in alive
        /\ mind' = [mind EXCEPT ![e] = TRUE]
        /\ m_possessions' = possessions
        /\ keys' = KeysMade(possessions)
        /\ watched' = watched \cup {e}
        /\ m_unpossessed' = m_unpossessed \cup {e}
        /\ requests' = requests \cup
              (IF minds[e] = {} THEN Requested(m_connections, e, possessions[e]) ELSE {})
        /\ UNCHANGED <<connectionVars, accountVars, m_minds, m_connections, m_possessed,
                       minds, alive, made>>

\* MindProperty::apply() without a value, or remove(): removeRequest().
RemoveRequest(e) ==
    /\ e \in alive
    /\ mind' = [mind EXCEPT ![e] = FALSE]
    /\ m_unpossessed' = m_unpossessed \ {e}
    /\ UNCHANGED <<connectionVars, accountVars, m_minds, m_connections, m_possessed,
                   m_possessions, keys, watched, minds, alive, requests, made>>

\* Connection::setPossessionEnabled(TRUE): addConnection() takes the first
\* connection of a router only, and asks for every waiting entity.
EnablePossession(a) ==
    LET c == m_connection[a]
        registered == [m_connections EXCEPT ![a] = c]
    IN  /\ a \in Admins /\ c # NoConnection
        /\ m_connections[a] = NoConnection
        /\ m_connections' = registered
        /\ m_possessionRouters' = [m_possessionRouters EXCEPT ![c] = @ \cup {a}]
        /\ requests' = requests \cup
              UNION {Requested(registered, e, m_possessions[e]) : e \in m_unpossessed}
        /\ UNCHANGED <<link, m_routers, m_connectableRouters, accountVars, m_minds,
                       managerVars, watched, mind, minds, alive, made>>

\* setPossessionEnabled(FALSE): removeConnection() goes by the router alone;
\* m_possessionRouters keeps it.
DisablePossession(a) ==
    /\ a \in Admins /\ m_connection[a] # NoConnection
    /\ a \in m_possessionRouters[m_connection[a]]
    /\ m_connections' = [m_connections EXCEPT ![a] = NoConnection]
    /\ UNCHANGED <<connectionVars, accountVars, m_minds, managerVars, watched, mind,
                   minds, alive, requests, made>>

-----------------------------------------------------------------------------
(* Connections and accounts *)

\* Connection(), registerConnection()
Connect(c) ==
    /\ link[c] = "none"
    /\ link' = [link EXCEPT ![c] = "open"]
    /\ UNCHANGED <<m_routers, m_connectableRouters, m_possessionRouters, accountVars,
                   m_minds, m_connections, managerVars, watched, mind, minds, alive,
                   requests, made>>

\* Lobby::addAccount(), removeAccount()
AddAccount(a) == lobby' = lobby \cup {a}
RemoveAccounts(as) == lobby' = lobby \ as

\* addConnectableRouter() and Lobby::addAccount()
AccountAdded(c, a) ==
    /\ m_connection' = [m_connection EXCEPT ![a] = c]
    /\ m_routers' = [m_routers EXCEPT ![c] = @ \cup {<<a, 0>>}]
    /\ m_connectableRouters' = [m_connectableRouters EXCEPT ![c] = @ \cup {a}]
    /\ AddAccount(a)
    /\ UNCHANGED <<link, m_possessionRouters, m_minds, m_charactersDict, m_connections,
                   managerVars, watched, mind, minds, alive, requests, made>>

\* Operations still queued are handled after disconnect().
LoginOperation(c, a) ==
    /\ link[c] # "none" /\ a \in accounts
    /\ m_connection[a] = NoConnection
    /\ AccountAdded(c, a)
    /\ UNCHANGED accounts

\* Connection::CreateOperation(), addNewAccount()
CreateOperation(c, a) ==
    /\ link[c] # "none" /\ a \notin accounts
    /\ m_routers[c] = {}
    /\ accounts' = accounts \cup {a}
    /\ AccountAdded(c, a)

\* MindsProperty::addMind(), removeMind()
AddMind(e, a) == minds' = [minds EXCEPT ![e] = @ \cup {a}]
RemoveMinds(e, as) == minds[e] \ as

\* The entities and the routers of the minds of the accounts as.
MindsWithout(as) == [e \in Entities |-> IF e \in alive THEN RemoveMinds(e, as) ELSE {}]
EntitiesOf(as) == UNION {m_minds[a] : a \in as}
RoutersOf(as) == {<<a, 0>> : a \in as} \cup UNION {{<<a, e>> : e \in m_minds[a]} : a \in as}

\* Mutant: the account keeps its minds.
Disconnected_KeepsMinds(as) ==
    /\ m_connection' = [a \in Accounts |-> IF a \in as THEN NoConnection ELSE m_connection[a]]
    /\ RemoveAccounts(as)
    /\ UNCHANGED m_minds

\* disconnectObject() for the accounts as: Lobby::removeAccount() and
\* Account::setConnection(nullptr).
Disconnected(as) ==
    /\ m_connection' = [a \in Accounts |-> IF a \in as THEN NoConnection ELSE m_connection[a]]
    /\ RemoveAccounts(as)
    /\ m_minds' = [a \in Accounts |-> IF a \in as THEN {} ELSE m_minds[a]]

\* Connection::LogoutOperation() of one of its accounts.
LogoutAccount(c, a) ==
    /\ link[c] # "none" /\ a \in m_connectableRouters[c]
    /\ Disconnected({a})
    /\ m_connectableRouters' = [m_connectableRouters EXCEPT ![c] = @ \ {a}]
    /\ m_routers' = [m_routers EXCEPT ![c] = @ \ RoutersOf({a})]
    /\ MindsChanged(MindsWithout({a}), m_minds[a], m_connections, requests)
    /\ UNCHANGED <<link, m_possessionRouters, accounts, m_charactersDict, m_connections,
                   watched, mind, alive, made>>

\* A Logout without arguments, to the connection or one of its accounts:
\* disconnect().
Close(c) ==
    /\ link[c] = "open"
    /\ link' = [link EXCEPT ![c] = "closed"]
    /\ UNCHANGED <<m_routers, m_connectableRouters, m_possessionRouters, accountVars,
                   m_minds, m_connections, managerVars, watched, mind, minds, alive,
                   requests, made>>

Deregistered(c) ==
    [a \in Accounts |-> IF a \in m_possessionRouters[c] THEN NoConnection ELSE m_connections[a]]
Unanswered(c) == {r \in requests : r.connection # c}

\* Mutant: the objects are disconnected first.
Destroy_ObjectsFirst(c) ==
    /\ link[c] # "none"
    /\ link' = [link EXCEPT ![c] = "none"]
    /\ m_connections' = Deregistered(c)
    /\ Disconnected(m_connectableRouters[c])
    /\ MindsChanged(MindsWithout(m_connectableRouters[c]), EntitiesOf(m_connectableRouters[c]),
                    m_connections, Unanswered(c))
    /\ m_routers' = [m_routers EXCEPT ![c] = {}]
    /\ m_connectableRouters' = [m_connectableRouters EXCEPT ![c] = {}]
    /\ m_possessionRouters' = [m_possessionRouters EXCEPT ![c] = {}]
    /\ UNCHANGED <<accounts, m_charactersDict, watched, mind, alive, made>>

\* ~Connection(), after a Logout or because the client has hung up: the
\* possession routers go first, then the objects.
Destroy(c) ==
    /\ link[c] # "none"
    /\ link' = [link EXCEPT ![c] = "none"]
    /\ m_connections' = Deregistered(c)
    /\ Disconnected(m_connectableRouters[c])
    /\ MindsChanged(MindsWithout(m_connectableRouters[c]), EntitiesOf(m_connectableRouters[c]),
                    Deregistered(c), Unanswered(c))
    /\ m_routers' = [m_routers EXCEPT ![c] = {}]
    /\ m_connectableRouters' = [m_connectableRouters EXCEPT ![c] = {}]
    /\ m_possessionRouters' = [m_possessionRouters EXCEPT ![c] = {}]
    /\ UNCHANGED <<accounts, m_charactersDict, watched, mind, alive, made>>

-----------------------------------------------------------------------------
(* Minds *)

\* Account::connectCharacter(): a mind that is a router of the account's
\* connection and stands in the entity's MindsProperty.
ConnectCharacter(a, e, sent) ==
    /\ made < MaxMinds
    /\ made' = made + 1
    /\ m_minds' = [m_minds EXCEPT ![a] = @ \cup {e}]
    /\ m_routers' = [m_routers EXCEPT ![m_connection[a]] = @ \cup {<<a, e>>}]
    /\ AddMind(e, a)
    /\ m_possessed' = m_possessed \cup ({e} \cap watched)
    /\ m_unpossessed' = m_unpossessed \ ({e} \cap watched)
    /\ requests' = sent

\* AccountProperty::apply(): the entity belongs to the account.
AddCharacter(a, e) ==
    /\ e \in alive /\ a \in accounts
    /\ m_charactersDict' = [m_charactersDict EXCEPT ![a] = @ \cup {e}]
    /\ UNCHANGED <<connectionVars, accounts, m_connection, lobby, m_minds, m_connections,
                   managerVars, watched, mind, minds, alive, requests, made>>

\* PossessOperation() without a key: a character of the account.
PossessCharacter(a, e) ==
    /\ m_connection[a] # NoConnection
    /\ e \in m_charactersDict[a] /\ e \notin m_minds[a]
    /\ ConnectCharacter(a, e, requests)
    /\ UNCHANGED <<link, m_connectableRouters, m_possessionRouters, accountVars,
                   m_connections, m_possessions, keys, watched, mind, alive>>

Authentic(r) == r.key = m_possessions[r.entity]

\* The client's Possess operation: externalOperation() refuses it if it comes
\* from an account that is no router of the connection; PossessOperation()
\* does nothing if authenticatePossession() does not accept the key, drops the
\* key of an entity that is gone, and keeps the key if the account has a mind
\* of the entity already.
AnswerRequest(r) ==
    LET a == r.router
        e == r.entity
        heard == <<a, 0>> \in m_routers[r.connection] /\ Authentic(r)
    IN  /\ \/ /\ heard /\ e \in alive /\ e \notin m_minds[a]
              /\ ConnectCharacter(a, e, requests \ {r})
              /\ m_possessions' = [m_possessions EXCEPT ![e] = 0]
           \/ /\ heard /\ e \notin alive
              /\ m_possessions' = [m_possessions EXCEPT ![e] = 0]
              /\ requests' = requests \ {r}
              /\ UNCHANGED <<m_routers, m_minds, minds, m_possessed, m_unpossessed, made>>
           \/ /\ ~heard \/ e \in m_minds[a]
              /\ requests' = requests \ {r}
              /\ UNCHANGED <<m_routers, m_minds, minds, m_possessed, m_unpossessed,
                             m_possessions, made>>
        /\ UNCHANGED <<link, m_connectableRouters, m_possessionRouters, accountVars,
                       m_connections, keys, watched, mind, alive>>

\* Account::LogoutOperation() of one mind.
LogoutMind(a, e) ==
    /\ m_connection[a] # NoConnection /\ e \in m_minds[a]
    /\ m_minds' = [m_minds EXCEPT ![a] = @ \ {e}]
    /\ m_routers' = [m_routers EXCEPT ![m_connection[a]] = @ \ {<<a, e>>}]
    /\ MindsChanged([minds EXCEPT ![e] = @ \ {a}], {e}, m_connections, requests)
    /\ UNCHANGED <<link, m_connectableRouters, m_possessionRouters, accountVars,
                   m_connections, watched, mind, alive, made>>

\* LocatedEntity::destroy(): its accounts and the manager hear of it.
DestroyEntity(e) ==
    /\ e \in alive
    /\ alive' = alive \ {e}
    /\ m_minds' = [a \in Accounts |-> m_minds[a] \ {e}]
    /\ m_routers' = [c \in Connections |-> m_routers[c] \ (Accounts \X {e})]
    /\ m_charactersDict' = [a \in Accounts |-> m_charactersDict[a] \ {e}]
    /\ minds' = [minds EXCEPT ![e] = {}]
    /\ m_unpossessed' = m_unpossessed \ {e}
    /\ m_possessed' = m_possessed \ {e}
    /\ UNCHANGED <<link, m_connectableRouters, m_possessionRouters, accounts, m_connection,
                   lobby, m_connections, m_possessions, keys, watched, mind, requests, made>>

-----------------------------------------------------------------------------

Next ==
    \/ \E c \in Connections : Connect(c) \/ Close(c) \/ Destroy(c)
    \/ \E c \in Connections, a \in Accounts :
          LoginOperation(c, a) \/ CreateOperation(c, a) \/ LogoutAccount(c, a)
    \/ \E a \in Accounts : EnablePossession(a) \/ DisablePossession(a)
    \/ \E e \in Entities : RequestPossession(e) \/ RemoveRequest(e) \/ DestroyEntity(e)
    \/ \E a \in Accounts, e \in Entities :
          AddCharacter(a, e) \/ PossessCharacter(a, e) \/ LogoutMind(a, e)
    \/ \E r \in requests : AnswerRequest(r)

Spec == Init /\ [][Next]_vars

-----------------------------------------------------------------------------
(* Properties *)

\* The types of the variables; the manager knows nothing of entities that are
\* destroyed.
TypeOK ==
    /\ link \in [Connections -> {"none", "open", "closed"}]
    /\ m_routers \in [Connections -> SUBSET (Accounts \X (0 .. MaxEntity))]
    /\ m_connectableRouters \in [Connections -> SUBSET Accounts]
    /\ m_possessionRouters \in [Connections -> SUBSET Admins]
    /\ accounts \in SUBSET Accounts
    /\ m_connection \in [Accounts -> Connections \cup {NoConnection}]
    /\ m_minds \in [Accounts -> SUBSET alive]
    /\ m_charactersDict \in [Accounts -> SUBSET alive]
    /\ lobby \in SUBSET accounts
    /\ m_connections \in [Accounts -> Connections \cup {NoConnection}]
    /\ m_unpossessed \in SUBSET alive /\ m_possessed \in SUBSET alive
    /\ watched \in SUBSET Entities
    /\ m_possessions \in [Entities -> Nat] /\ keys \in [Entities -> Nat]
    /\ \A e \in Entities : m_possessions[e] \in {0, keys[e]}
    /\ mind \in [Entities -> BOOLEAN]
    /\ minds \in [Entities -> SUBSET Accounts]
    /\ alive \in SUBSET Entities
    /\ requests \in SUBSET Request
    /\ made \in 0 .. MaxMinds

\* The manager holds no connection that is deleted, and asks none for
\* possession, not even the one that is being deleted ("else there's a risk
\* that the external minds manager will just issue new possession request to
\* this connection").
LinksAlive ==
    /\ \A a \in Accounts : m_connections[a] # NoConnection => link[m_connections[a]] # "none"
    /\ \A r \in requests : link[r.connection] # "none"

\* An account, the connections and the lobby agree on where it is logged in,
\* and that is one place at most ("Internals don't allow player to log in more
\* than once"); and nothing that was deleted is still referenced.
SessionsAgree ==
    /\ TypeOK /\ LinksAlive
    /\ \A a \in Accounts, c \in Connections :
          /\ m_connection[a] = c <=> a \in m_connectableRouters[c]
          /\ m_connection[a] = c <=> <<a, 0>> \in m_routers[c]
          /\ m_connection[a] = c => link[c] # "none"
    /\ lobby = {a \in Accounts : m_connection[a] # NoConnection}

Unclaimed == {e \in alive : mind[e] /\ minds[e] = {}}

\* An entity that is to have an external mind and has none is on the manager's
\* list, with a key to claim it: the next possessive client is asked for it.
Claimable == \A e \in Unclaimed : e \in m_unpossessed /\ m_possessions[e] # 0

\* An account's minds, the minds in the entities' MindsProperty and the
\* routers of the connections are the same: an operation to a mind never
\* reaches a router or a link that is deleted, and "Account still had minds
\* even after connection had been shut down" is never logged.  And an entity
\* that has lost its minds can be claimed.
MindsAgree ==
    /\ Claimable
    /\ \A e \in alive : minds[e] = {a \in Accounts : e \in m_minds[a]}
    /\ \A a \in Accounts : m_minds[a] # {} => m_connection[a] # NoConnection
    /\ \A c \in Connections, a \in Accounts, e \in Entities :
          <<a, e>> \in m_routers[c] <=> m_connection[a] = c /\ e \in m_minds[a]

\* "The manager is responsible for finding a suitable external mind connection
\* to ask for possession": while a possessive account is logged in, some
\* client has been asked for every entity without a mind and can still answer.
SomeoneAsked ==
    (\E a \in Accounts : /\ m_connections[a] # NoConnection
                         /\ m_connections[a] = m_connection[a]
                         /\ link[m_connection[a]] = "open")
    => \A e \in Unclaimed : \E r \in requests : r.entity = e /\ Authentic(r)
=============================================================================
