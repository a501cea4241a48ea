--------------------------- MODULE SessionsProofs ---------------------------
(***************************************************************************)
(* Proofs that connections, accounts, lobby, entities and the manager of   *)
(* external minds agree, for any number of connections, accounts, entities *)
(* and minds.                                                              *)
(***************************************************************************)
EXTENDS Sessions, TLAPS

-----------------------------------------------------------------------------
(* The inductive invariant, in parts that speak of few variables each *)

ConnectionTypes ==
    /\ link \in [Connections -> {"none", "open", "closed"}]
    /\ m_routers \in [Connections -> SUBSET (Accounts \X (0 .. MaxEntity))]
    /\ m_connectableRouters \in [Connections -> SUBSET Accounts]
    /\ m_possessionRouters \in [Connections -> SUBSET Admins]

AccountTypes ==
    /\ accounts \in SUBSET Accounts
    /\ m_connection \in [Accounts -> Connections \cup {NoConnection}]
    /\ m_minds \in [Accounts -> SUBSET alive]
    /\ m_charactersDict \in [Accounts -> SUBSET alive]
    /\ lobby \in SUBSET accounts

ManagerTypes ==
    /\ m_connections \in [Accounts -> Connections \cup {NoConnection}]
    /\ m_unpossessed \in SUBSET alive /\ m_possessed \in SUBSET alive
    /\ watched \in SUBSET Entities

KeyTypes ==
    /\ m_possessions \in [Entities -> Nat] /\ keys \in [Entities -> Nat]
    /\ \A e \in Entities : m_possessions[e] \in {0, keys[e]}

EntityTypes ==
    /\ mind \in [Entities -> BOOLEAN]
    /\ minds \in [Entities -> SUBSET Accounts]
    /\ alive \in SUBSET Entities
    /\ made \in 0 .. MaxMinds

RequestTypes == requests \in SUBSET Request

Types ==
    ConnectionTypes /\ AccountTypes /\ ManagerTypes /\ KeyTypes /\ EntityTypes /\ RequestTypes

\* The account, the connections and the lobby.
LoggedIn ==
    /\ \A a \in Accounts, c \in Connections :
          /\ m_connection[a] = c <=> a \in m_connectableRouters[c]
          /\ m_connection[a] = c <=> <<a, 0>> \in m_routers[c]
          /\ m_connection[a] = c => link[c] # "none"
    /\ lobby = {a \in Accounts : m_connection[a] # NoConnection}

\* The account and the entity.
MindLists == \A e \in alive : minds[e] = {a \in Accounts : e \in m_minds[a]}

\* The account and its connection.
MindsConnected == \A a \in Accounts : m_minds[a] # {} => m_connection[a] # NoConnection

\* The account and the connections.
MindRouters ==
    \A c \in Connections, a \in Accounts, e \in Entities :
        <<a, e>> \in m_routers[c] <=> m_connection[a] = c /\ e \in m_minds[a]

\* Whoever the manager may ask is known to the connection that is asked: the destructor
\* of the connection, which goes by m_possessionRouters, finds it.
RegistrationsKnown ==
    \A a \in Accounts :
        m_connections[a] # NoConnection => a \in m_possessionRouters[m_connections[a]]

\* The manager is connected to the signals of every entity that is to have a mind.
WantedIsWatched == \A e \in Entities : mind[e] => e \in watched

SessionsInv ==
    /\ Types /\ LinksAlive /\ LoggedIn
    /\ Claimable /\ MindLists /\ MindsConnected /\ MindRouters
    /\ RegistrationsKnown /\ WantedIsWatched

\* The parts are those of the properties, and two more.
LEMMA InvSuffices == SessionsInv => SessionsAgree /\ MindsAgree
  BY DEF SessionsInv, SessionsAgree, MindsAgree, TypeOK, Types, ConnectionTypes, AccountTypes, ManagerTypes,
         KeyTypes, EntityTypes, RequestTypes, LoggedIn, MindLists, MindsConnected, MindRouters

LEMMA ConstantFacts ==
    /\ NoConnection \notin Connections
    /\ Admins \subseteq Accounts /\ Stored \subseteq Accounts
    /\ Entities \subseteq 0 .. MaxEntity /\ 0 \in 0 .. MaxEntity /\ 0 \notin Entities
    /\ MaxMinds \in Nat
  BY SessionsAssumption DEF Accounts, Entities

-----------------------------------------------------------------------------
(* Connections and accounts *)

\* A new connection is referenced by nothing, and one that is told to disconnect stays.
LEMMA LinkKeeps ==
    ASSUME SessionsInv, NEW c \in Connections, Connect(c) \/ Close(c)
    PROVE  SessionsInv'
<1>1. /\ UNCHANGED <<m_routers, m_connectableRouters, m_possessionRouters, accounts, m_connection,
                     m_charactersDict, lobby, m_minds, m_connections, m_unpossessed, m_possessed,
                     m_possessions, keys, watched, mind, minds, alive, requests, made>>
      /\ \E s \in {"open", "closed"} : link' = [link EXCEPT ![c] = s]
  BY DEF Connect, Close, accountVars, managerVars
<1>2. Types'
  BY <1>1 DEF SessionsInv, Types, ConnectionTypes, AccountTypes, ManagerTypes, KeyTypes, EntityTypes, RequestTypes
<1>3. \A d \in Connections : link[d] # "none" => link'[d] # "none"
  BY <1>1 DEF SessionsInv, Types, ConnectionTypes
<1>4. LinksAlive' /\ LoggedIn'
  BY <1>1, <1>3 DEF SessionsInv, Types, ManagerTypes, RequestTypes, Request, LinksAlive, LoggedIn
<1> QED
  BY <1>1, <1>2, <1>4 DEF SessionsInv, Claimable, Unclaimed, MindLists, MindsConnected, MindRouters,
     RegistrationsKnown, WantedIsWatched

\* An account that logs in was not logged in and has no minds.
LEMMA LoginKeeps ==
    ASSUME SessionsInv, NEW c \in Connections, NEW a \in Accounts,
           link[c] # "none", m_connection[a] = NoConnection, AccountAdded(c, a),
           accounts' = accounts \/ accounts' = accounts \cup {a}, a \in accounts'
    PROVE  SessionsInv'
<1>1. UNCHANGED <<link, m_possessionRouters, m_minds, m_charactersDict, m_connections, m_unpossessed, m_possessed,
                  m_possessions, keys, watched, mind, minds, alive, requests, made>>
  BY DEF AccountAdded, managerVars
<1>2. /\ m_connection' = [m_connection EXCEPT ![a] = c]
      /\ m_routers' = [m_routers EXCEPT ![c] = @ \cup {<<a, 0>>}]
      /\ m_connectableRouters' = [m_connectableRouters EXCEPT ![c] = @ \cup {a}]
      /\ lobby' = lobby \cup {a}
  BY DEF AccountAdded, AddAccount
<1>3. Types'
  BY <1>1, <1>2, ConstantFacts DEF SessionsInv, Types, ConnectionTypes, AccountTypes, ManagerTypes, KeyTypes,
     EntityTypes, RequestTypes
<1>4. LoggedIn'
  BY <1>1, <1>2, ConstantFacts DEF SessionsInv, Types, ConnectionTypes, AccountTypes, LoggedIn
<1>5. MindsConnected' /\ MindRouters'
  BY <1>1, <1>2, ConstantFacts DEF SessionsInv, Types, ConnectionTypes, AccountTypes, MindsConnected, MindRouters
<1> QED
  BY <1>1, <1>3, <1>4, <1>5 DEF SessionsInv, LinksAlive, Claimable, Unclaimed, MindLists,
     RegistrationsKnown, WantedIsWatched

-----------------------------------------------------------------------------
(* The manager *)

\* A client that is asked is registered, and its connection open.
LEMMA RequestedOf ==
    ASSUME NEW registered \in [Accounts -> Connections \cup {NoConnection}],
           NEW e \in Entities, NEW key \in Nat, NEW r \in Requested(registered, e, key)
    PROVE  /\ r \in Request /\ r.connection \in Connections /\ link[r.connection] = "open"
           /\ \E a \in Accounts : registered[a] = r.connection
  BY DEF Requested, Possessive, Request

\* New keys are given to the entities es, and recorded.
LEMMA NewKeys ==
    ASSUME KeyTypes, NEW es,
           m_possessions' = WithKeys(m_possessions, es), keys' = KeysMade(m_possessions')
    PROVE  KeyTypes' /\ \A e \in Entities : e \in es \/ m_possessions[e] # 0 => m_possessions'[e] # 0
  BY DEF KeyTypes, WithKeys, KeysMade

\* Minds come off some entities.  The manager hears of it for those it watches, which
\* are all that are to have a mind; the others are claimable as before.
LEMMA MindsChangedKeeps ==
    ASSUME SessionsInv,
           NEW newMinds \in [Entities -> SUBSET Accounts], NEW changed \in SUBSET alive,
           NEW registered \in [Accounts -> Connections \cup {NoConnection}], NEW sent \in SUBSET Request,
           MindsChanged(newMinds, changed, registered, sent),
           UNCHANGED <<alive, watched, mind>>,
           \A e \in alive \ changed : newMinds[e] = {} => minds[e] = {}
    PROVE  /\ KeyTypes' /\ RequestTypes' /\ Claimable'
           /\ minds' = newMinds
           /\ m_unpossessed' \in SUBSET alive /\ m_possessed' \in SUBSET alive
           /\ \A r \in requests' : r \in sent \/ (/\ link[r.connection] = "open"
                                                  /\ \E a \in Accounts : registered[a] = r.connection)
<1> DEFINE seen == changed \cap watched
           left == {e \in seen : newMinds[e] = {}}
<1>1. /\ minds' = newMinds
      /\ m_possessed' = (m_possessed \ left) \cup (seen \ left)
      /\ m_unpossessed' = (m_unpossessed \ (seen \ left)) \cup left
      /\ m_possessions' = WithKeys(m_possessions, left)
      /\ keys' = KeysMade(m_possessions')
      /\ requests' = sent \cup UNION {Requested(registered, e, m_possessions'[e]) : e \in left}
  BY DEF MindsChanged
<1>2. KeyTypes' /\ \A e \in Entities : e \in left \/ m_possessions[e] # 0 => m_possessions'[e] # 0
  <2> HIDE DEF left
  <2> QED
    BY <1>1, NewKeys DEF SessionsInv, Types
<1>3. left \subseteq Entities /\ left \subseteq alive
  BY DEF SessionsInv, Types, EntityTypes
<1>4. \A r \in requests' : r \in sent \/ \E e \in left : r \in Requested(registered, e, m_possessions'[e])
  BY <1>1
<1>5. \A e \in left : m_possessions'[e] \in Nat
  BY <1>2, <1>3 DEF KeyTypes
<1>6. \A r \in requests' : r \in sent \/ (/\ r \in Request /\ link[r.connection] = "open"
                                        /\ \E a \in Accounts : registered[a] = r.connection)
  BY <1>3, <1>4, <1>5, RequestedOf
<1>7. Claimable'
  <2> SUFFICES ASSUME NEW e \in alive, mind[e], newMinds[e] = {}
               PROVE  e \in m_unpossessed' /\ m_possessions'[e] # 0
    BY <1>1 DEF Claimable, Unclaimed
  <2>1. e \in Entities /\ e \in watched
    BY DEF SessionsInv, Types, EntityTypes, WantedIsWatched
  <2>2. CASE e \in changed
    BY <1>1, <1>2, <2>1, <2>2
  <2>3. CASE e \notin changed
    <3>1. minds[e] = {}
      BY <2>3
    <3> QED
      BY <1>1, <1>2, <2>1, <2>3, <3>1 DEF SessionsInv, Claimable, Unclaimed
  <2> QED
    BY <2>2, <2>3
<1> QED
  BY <1>1, <1>2, <1>3, <1>6, <1>7 DEF SessionsInv, Types, ManagerTypes, RequestTypes

\* Some accounts of a connection are disconnected, with all their minds.
AccountsLeave(c, as, registered, sent) ==
    /\ Disconnected(as)
    /\ MindsChanged(MindsWithout(as), EntitiesOf(as), registered, sent)
    /\ m_connectableRouters' = [m_connectableRouters EXCEPT ![c] = @ \ as]
    /\ m_routers' = [m_routers EXCEPT ![c] = @ \ RoutersOf(as)]
    /\ UNCHANGED <<accounts, m_charactersDict, watched, mind, alive, made>>

\* What holds when they have gone, whether the connection stays or not.
AgreeWithout(as, registered, sent) ==
    /\ AccountTypes' /\ KeyTypes' /\ EntityTypes' /\ RequestTypes'
    /\ m_routers' \in [Connections -> SUBSET (Accounts \X (0 .. MaxEntity))]
    /\ m_connectableRouters' \in [Connections -> SUBSET Accounts]
    /\ m_unpossessed' \in SUBSET alive /\ m_possessed' \in SUBSET alive
    /\ Claimable' /\ MindLists' /\ MindsConnected' /\ MindRouters'
    /\ \A a \in Accounts, d \in Connections :
          /\ m_connection'[a] = d <=> m_connection[a] = d /\ a \notin as
          /\ m_connection'[a] = d <=> a \in m_connectableRouters'[d]
          /\ m_connection'[a] = d <=> <<a, 0>> \in m_routers'[d]
    /\ lobby' = {a \in Accounts : m_connection'[a] # NoConnection}
    /\ \A r \in requests' : r \in sent \/ (/\ link[r.connection] = "open"
                                           /\ \E a \in Accounts : registered[a] = r.connection)

LEMMA EntitiesOfDef == \A as, e : e \in EntitiesOf(as) <=> \E a \in as : e \in m_minds[a]
  BY DEF EntitiesOf

LEMMA RoutersOfDef ==
    \A as, a, n : <<a, n>> \in RoutersOf(as) <=> a \in as /\ (n = 0 \/ n \in m_minds[a])
<1> SUFFICES ASSUME NEW as, NEW a, NEW n
             PROVE  <<a, n>> \in RoutersOf(as) <=> a \in as /\ (n = 0 \/ n \in m_minds[a])
  OBVIOUS
<1>1. <<a, n>> \in {<<b, 0>> : b \in as} <=> a \in as /\ n = 0
  OBVIOUS
<1> DEFINE routers(b) == {<<b, e>> : e \in m_minds[b]}
<1>2. \A b : <<a, n>> \in routers(b) <=> a = b /\ n \in m_minds[a]
  OBVIOUS
<1>3. RoutersOf(as) = {<<b, 0>> : b \in as} \cup UNION {routers(b) : b \in as}
  BY DEF RoutersOf
<1> HIDE DEF routers
<1>4. <<a, n>> \in UNION {routers(b) : b \in as} <=> \E b \in as : <<a, n>> \in routers(b)
  OBVIOUS
<1> QED
  BY <1>1, <1>2, <1>3, <1>4

LEMMA AccountsLeaveKeeps ==
    ASSUME SessionsInv, NEW c \in Connections, NEW as \in SUBSET m_connectableRouters[c],
           NEW registered \in [Accounts -> Connections \cup {NoConnection}], NEW sent \in SUBSET Request,
           AccountsLeave(c, as, registered, sent)
    PROVE  AgreeWithout(as, registered, sent)
<1>1. /\ as \subseteq Accounts /\ \A a \in as : m_connection[a] = c
      /\ m_routers \in [Connections -> SUBSET (Accounts \X (0 .. MaxEntity))]
      /\ m_connectableRouters \in [Connections -> SUBSET Accounts]
  BY DEF SessionsInv, Types, ConnectionTypes, LoggedIn
<1>2. /\ m_connection' = [a \in Accounts |-> IF a \in as THEN NoConnection ELSE m_connection[a]]
      /\ lobby' = lobby \ as
      /\ m_minds' = [a \in Accounts |-> IF a \in as THEN {} ELSE m_minds[a]]
      /\ UNCHANGED <<accounts, m_charactersDict, watched, mind, alive, made>>
      /\ m_connectableRouters' = [m_connectableRouters EXCEPT ![c] = @ \ as]
      /\ m_routers' = [m_routers EXCEPT ![c] = @ \ RoutersOf(as)]
  BY DEF AccountsLeave, Disconnected, RemoveAccounts
<1>3. EntitiesOf(as) \in SUBSET alive
  BY <1>1, EntitiesOfDef DEF SessionsInv, Types, AccountTypes
<1>4. /\ MindsWithout(as) \in [Entities -> SUBSET Accounts]
      /\ \A e \in alive : MindsWithout(as)[e] = minds[e] \ as
  BY DEF SessionsInv, Types, EntityTypes, MindsWithout, RemoveMinds
<1>5. \A e \in alive \ EntitiesOf(as) : MindsWithout(as)[e] = {} => minds[e] = {}
  BY <1>1, <1>4, EntitiesOfDef DEF SessionsInv, MindLists
<1>6. /\ KeyTypes' /\ RequestTypes' /\ Claimable'
      /\ minds' = MindsWithout(as)
      /\ m_unpossessed' \in SUBSET alive /\ m_possessed' \in SUBSET alive
      /\ \A r \in requests' : r \in sent \/ (/\ link[r.connection] = "open"
                                             /\ \E a \in Accounts : registered[a] = r.connection)
  <2> DEFINE new == MindsWithout(as)
             changed == EntitiesOf(as)
  <2>1. /\ new \in [Entities -> SUBSET Accounts] /\ changed \in SUBSET alive
        /\ MindsChanged(new, changed, registered, sent)
        /\ UNCHANGED <<alive, watched, mind>>
        /\ \A e \in alive \ changed : new[e] = {} => minds[e] = {}
    BY <1>2, <1>3, <1>4, <1>5 DEF AccountsLeave
  <2> HIDE DEF new, changed
  <2>2. /\ KeyTypes' /\ RequestTypes' /\ Claimable'
        /\ minds' = new
        /\ m_unpossessed' \in SUBSET alive /\ m_possessed' \in SUBSET alive
        /\ \A r \in requests' : r \in sent \/ (/\ link[r.connection] = "open"
                                               /\ \E a \in Accounts : registered[a] = r.connection)
    BY <2>1, MindsChangedKeeps
  <2> QED
    BY <2>2 DEF new
<1>7. EntityTypes' /\ AccountTypes'
  BY <1>1, <1>2, <1>4, <1>6, ConstantFacts DEF SessionsInv, Types, EntityTypes, AccountTypes, LoggedIn
<1>8. MindLists'
  BY <1>1, <1>2, <1>4, <1>6 DEF SessionsInv, MindLists
<1>9. \A a \in Accounts, d \in Connections :
          /\ m_connection'[a] = d <=> m_connection[a] = d /\ a \notin as
          /\ m_connection'[a] = d <=> a \in m_connectableRouters'[d]
          /\ m_connection'[a] = d <=> <<a, 0>> \in m_routers'[d]
  <2> SUFFICES ASSUME NEW a \in Accounts, NEW d \in Connections
               PROVE  /\ m_connection'[a] = d <=> m_connection[a] = d /\ a \notin as
                      /\ m_connection'[a] = d <=> a \in m_connectableRouters'[d]
                      /\ m_connection'[a] = d <=> <<a, 0>> \in m_routers'[d]
    OBVIOUS
  <2>1. m_connection'[a] = d <=> m_connection[a] = d /\ a \notin as
    BY <1>2, ConstantFacts
  <2>2. /\ m_connection[a] = d <=> a \in m_connectableRouters[d]
        /\ m_connection[a] = d <=> <<a, 0>> \in m_routers[d]
    BY DEF SessionsInv, LoggedIn
  <2>3. <<a, 0>> \in RoutersOf(as) <=> a \in as
    BY RoutersOfDef
  <2>4. a \in as => m_connection[a] = c
    BY <1>1
  <2>5. /\ m_connectableRouters'[d] = IF d = c THEN m_connectableRouters[d] \ as ELSE m_connectableRouters[d]
        /\ m_routers'[d] = IF d = c THEN m_routers[d] \ RoutersOf(as) ELSE m_routers[d]
    BY <1>1, <1>2
  <2>6. m_connection'[a] = d <=> a \in m_connectableRouters'[d]
    BY <2>1, <2>2, <2>4, <2>5
  <2>7. m_connection'[a] = d <=> <<a, 0>> \in m_routers'[d]
    BY <2>1, <2>2, <2>3, <2>4, <2>5
  <2> QED
    BY <2>1, <2>6, <2>7
<1>10. lobby' = {a \in Accounts : m_connection'[a] # NoConnection} /\ MindsConnected'
  BY <1>1, <1>2, ConstantFacts DEF SessionsInv, LoggedIn, MindsConnected
<1>11. MindRouters'
  <2> SUFFICES ASSUME NEW d \in Connections, NEW a \in Accounts, NEW e \in Entities
               PROVE  <<a, e>> \in m_routers'[d] <=> m_connection'[a] = d /\ e \in m_minds'[a]
    BY DEF MindRouters
  <2>1. <<a, e>> \in m_routers[d] <=> m_connection[a] = d /\ e \in m_minds[a]
    BY DEF SessionsInv, MindRouters
  <2>2. <<a, e>> \in RoutersOf(as) <=> a \in as /\ e \in m_minds[a]
    BY RoutersOfDef, ConstantFacts
  <2>3. m_connection'[a] = d <=> m_connection[a] = d /\ a \notin as
    BY <1>9
  <2> QED
    BY <1>1, <1>2, <2>1, <2>2, <2>3
<1>12. /\ m_routers' \in [Connections -> SUBSET (Accounts \X (0 .. MaxEntity))]
       /\ m_connectableRouters' \in [Connections -> SUBSET Accounts]
  BY <1>1, <1>2
<1> QED
  BY <1>6, <1>7, <1>8, <1>9, <1>10, <1>11, <1>12 DEF AgreeWithout

\* An account logs out of a connection that stays.
LEMMA LogoutAccountKeeps ==
    ASSUME SessionsInv, NEW c \in Connections, NEW a \in Accounts, LogoutAccount(c, a)
    PROVE  SessionsInv'
<1>1. /\ UNCHANGED <<link, m_possessionRouters, accounts, m_charactersDict, m_connections, watched, mind, alive, made>>
      /\ {a} \in SUBSET m_connectableRouters[c]
      /\ m_connections \in [Accounts -> Connections \cup {NoConnection}] /\ requests \in SUBSET Request
  BY DEF LogoutAccount, SessionsInv, Types, ManagerTypes, RequestTypes
<1>2. EntitiesOf({a}) = m_minds[a]
  BY DEF EntitiesOf
<1>3. AccountsLeave(c, {a}, m_connections, requests)
  BY <1>1, <1>2 DEF LogoutAccount, AccountsLeave
<1>4. AgreeWithout({a}, m_connections, requests)
  BY <1>1, <1>3, AccountsLeaveKeeps
<1>5. Types'
  BY <1>1, <1>4 DEF AgreeWithout, SessionsInv, Types, ConnectionTypes, ManagerTypes
<1>6. LinksAlive' /\ LoggedIn'
  BY <1>1, <1>4 DEF AgreeWithout, SessionsInv, LinksAlive, LoggedIn
<1> QED
  BY <1>1, <1>4, <1>5, <1>6 DEF AgreeWithout, SessionsInv, RegistrationsKnown, WantedIsWatched

\* A connection is deleted.  Nothing points to it afterwards: the manager forgets the
\* accounts it has registered, so it is not asked for the entities that lose their minds.
LEMMA DestroyKeeps ==
    ASSUME SessionsInv, NEW c \in Connections, Destroy(c)
    PROVE  SessionsInv'
<1> DEFINE as == m_connectableRouters[c]
<1>1. /\ UNCHANGED <<accounts, m_charactersDict, watched, mind, alive, made>>
      /\ link' = [link EXCEPT ![c] = "none"]
      /\ m_connections' = Deregistered(c)
      /\ m_possessionRouters' = [m_possessionRouters EXCEPT ![c] = {}]
      /\ m_routers' = [m_routers EXCEPT ![c] = {}]
      /\ m_connectableRouters' = [m_connectableRouters EXCEPT ![c] = {}]
  BY DEF Destroy
<1>2. /\ Deregistered(c) \in [Accounts -> Connections \cup {NoConnection}]
      /\ Unanswered(c) \in SUBSET Request
      /\ \A a \in Accounts : Deregistered(c)[a] # c
      /\ \A a \in Accounts : Deregistered(c)[a] # NoConnection => Deregistered(c)[a] = m_connections[a]
  BY ConstantFacts DEF SessionsInv, Types, ManagerTypes, RequestTypes, Deregistered, Unanswered, RegistrationsKnown
<1>3. m_connectableRouters' = [m_connectableRouters EXCEPT ![c] = @ \ as]
  BY <1>1 DEF SessionsInv, Types, ConnectionTypes
<1>4. m_routers[c] \subseteq RoutersOf(as)
  <2> SUFFICES ASSUME NEW a \in Accounts, NEW n \in 0 .. MaxEntity, <<a, n>> \in m_routers[c]
               PROVE  <<a, n>> \in RoutersOf(as)
    BY DEF SessionsInv, Types, ConnectionTypes
  <2>1. CASE n = 0
    BY <2>1, RoutersOfDef DEF SessionsInv, LoggedIn
  <2>2. CASE n # 0
    <3>1. n \in Entities
      BY <2>2, SessionsAssumption DEF Entities
    <3>2. m_connection[a] = c /\ n \in m_minds[a]
      BY <3>1 DEF SessionsInv, MindRouters
    <3>3. a \in as
      BY <3>2 DEF SessionsInv, LoggedIn
    <3> QED
      BY <3>2, <3>3, RoutersOfDef
  <2> QED
    BY <2>1, <2>2
<1>5. m_routers' = [m_routers EXCEPT ![c] = @ \ RoutersOf(as)]
  BY <1>1, <1>4 DEF SessionsInv, Types, ConnectionTypes
<1>6. AccountsLeave(c, as, Deregistered(c), Unanswered(c))
  BY <1>1, <1>3, <1>5 DEF Destroy, AccountsLeave
<1>7. AgreeWithout(as, Deregistered(c), Unanswered(c))
  BY <1>2, <1>6, AccountsLeaveKeeps
<1>8. Types'
  BY <1>1, <1>2, <1>7 DEF AgreeWithout, SessionsInv, Types, ConnectionTypes, ManagerTypes
<1>9. LoggedIn'
  BY <1>1, <1>7 DEF AgreeWithout, SessionsInv, Types, ConnectionTypes, LoggedIn
<1>10. LinksAlive'
  <2>1. \A r \in requests' : r.connection # c /\ link[r.connection] # "none" /\ r.connection \in Connections
    BY <1>2, <1>7 DEF AgreeWithout, SessionsInv, LinksAlive, Unanswered, RequestTypes, Request
  <2>2. \A a \in Accounts : m_connections'[a] # NoConnection =>
            m_connections'[a] # c /\ link[m_connections'[a]] # "none" /\ m_connections'[a] \in Connections
    BY <1>1, <1>2 DEF SessionsInv, LinksAlive
  <2> QED
    BY <1>1, <2>1, <2>2 DEF SessionsInv, Types, ConnectionTypes, LinksAlive
<1>11. RegistrationsKnown'
  BY <1>1, <1>2 DEF SessionsInv, Types, ConnectionTypes, RegistrationsKnown
<1> QED
  BY <1>1, <1>7, <1>8, <1>9, <1>10, <1>11 DEF AgreeWithout, SessionsInv, WantedIsWatched

\* One mind is taken off an entity.
LEMMA LogoutMindKeeps ==
    ASSUME SessionsInv, NEW a \in Accounts, NEW e \in Entities, LogoutMind(a, e)
    PROVE  SessionsInv'
<1> DEFINE new == [minds EXCEPT ![e] = @ \ {a}]
<1>1. /\ m_connection[a] \in Connections /\ e \in m_minds[a] /\ e \in alive
      /\ m_minds' = [m_minds EXCEPT ![a] = @ \ {e}]
      /\ m_routers' = [m_routers EXCEPT ![m_connection[a]] = @ \ {<<a, e>>}]
      /\ UNCHANGED <<link, m_connectableRouters, m_possessionRouters, accounts, m_connection, m_charactersDict,
                     lobby, m_connections, watched, mind, alive, made>>
  BY DEF LogoutMind, accountVars, SessionsInv, Types, AccountTypes
<1>2. /\ new \in [Entities -> SUBSET Accounts] /\ {e} \in SUBSET alive
      /\ m_connections \in [Accounts -> Connections \cup {NoConnection}] /\ requests \in SUBSET Request
      /\ MindsChanged(new, {e}, m_connections, requests)
      /\ \A d \in alive \ {e} : new[d] = {} => minds[d] = {}
  BY <1>1 DEF LogoutMind, SessionsInv, Types, EntityTypes, ManagerTypes, RequestTypes
<1>3. /\ KeyTypes' /\ RequestTypes' /\ Claimable'
      /\ minds' = new
      /\ m_unpossessed' \in SUBSET alive /\ m_possessed' \in SUBSET alive
      /\ \A r \in requests' : r \in requests \/ (/\ link[r.connection] = "open"
                                                 /\ \E b \in Accounts : m_connections[b] = r.connection)
  <2> DEFINE changed == {e}
  <2>1. /\ changed \in SUBSET alive /\ MindsChanged(new, changed, m_connections, requests)
        /\ \A d \in alive \ changed : new[d] = {} => minds[d] = {}
        /\ UNCHANGED <<alive, watched, mind>>
    BY <1>1, <1>2
  <2> HIDE DEF new, changed
  <2> QED
    BY <1>2, <2>1, MindsChangedKeeps
<1>4. ConnectionTypes' /\ AccountTypes'
  BY <1>1 DEF SessionsInv, Types, ConnectionTypes, AccountTypes
<1>5. ManagerTypes' /\ EntityTypes'
  BY <1>1, <1>2, <1>3 DEF SessionsInv, Types, ManagerTypes, EntityTypes
<1>6. LoggedIn'
  BY <1>1, ConstantFacts DEF SessionsInv, Types, ConnectionTypes, LoggedIn
<1>7. MindLists'
  BY <1>1, <1>3 DEF SessionsInv, Types, EntityTypes, AccountTypes, MindLists
<1>8. MindsConnected' /\ MindRouters'
  BY <1>1 DEF SessionsInv, Types, ConnectionTypes, AccountTypes, MindsConnected, MindRouters
<1> QED
  BY <1>1, <1>3, <1>4, <1>5, <1>6, <1>7, <1>8 DEF SessionsInv, Types, LinksAlive, RegistrationsKnown, WantedIsWatched

\* A client offers its account for possession, and is asked for every waiting entity.
LEMMA EnablePossessionKeeps ==
    ASSUME SessionsInv, NEW a \in Accounts, EnablePossession(a)
    PROVE  SessionsInv'
<1> DEFINE c == m_connection[a]
           registered == [m_connections EXCEPT ![a] = c]
<1>1. /\ a \in Admins /\ c \in Connections /\ link[c] # "none"
      /\ m_connections' = registered
      /\ m_possessionRouters' = [m_possessionRouters EXCEPT ![c] = @ \cup {a}]
      /\ requests' = requests \cup UNION {Requested(registered, e, m_possessions[e]) : e \in m_unpossessed}
      /\ UNCHANGED <<link, m_routers, m_connectableRouters, accounts, m_connection, m_charactersDict, lobby, m_minds,
                     m_unpossessed, m_possessed, m_possessions, keys, watched, mind, minds, alive, made>>
  <2>1. a \in Admins /\ c \in Connections /\ link[c] # "none"
    <3>1. a \in Admins /\ c # NoConnection
      BY DEF EnablePossession
    <3>2. c \in Connections
      BY <3>1 DEF SessionsInv, Types, AccountTypes
    <3> QED
      BY <3>1, <3>2 DEF SessionsInv, LoggedIn
  <2> QED
    BY <2>1 DEF EnablePossession, accountVars, managerVars
<1>2. registered \in [Accounts -> Connections \cup {NoConnection}]
  BY <1>1 DEF SessionsInv, Types, ManagerTypes
<1>3. \A e \in m_unpossessed : e \in Entities /\ m_possessions[e] \in Nat
  BY DEF SessionsInv, Types, ManagerTypes, EntityTypes, KeyTypes
<1>4. \A r \in requests' : r \in requests \/ \E e \in m_unpossessed : r \in Requested(registered, e, m_possessions[e])
  <2> HIDE DEF registered
  <2> QED
    BY <1>1
<1>5. \A r \in requests' : r \in Request /\ link[r.connection] # "none"
  <2> HIDE DEF registered
  <2> QED
    BY <1>2, <1>3, <1>4, RequestedOf DEF SessionsInv, Types, RequestTypes, LinksAlive
<1>6. LinksAlive' /\ RegistrationsKnown'
  BY <1>1, <1>5, ConstantFacts DEF SessionsInv, Types, ConnectionTypes, ManagerTypes, LinksAlive, RegistrationsKnown
<1>7. Types'
  BY <1>1, <1>2, <1>5 DEF SessionsInv, Types, ConnectionTypes, AccountTypes, ManagerTypes, KeyTypes, EntityTypes,
     RequestTypes
<1> QED
  BY <1>1, <1>6, <1>7 DEF SessionsInv, LoggedIn, Claimable, Unclaimed, MindLists, MindsConnected, MindRouters,
     WantedIsWatched

\* It withdraws; m_possessionRouters remembers more than is registered.
LEMMA DisablePossessionKeeps ==
    ASSUME SessionsInv, NEW a \in Accounts, DisablePossession(a)
    PROVE  SessionsInv'
<1>1. /\ m_connections' = [m_connections EXCEPT ![a] = NoConnection]
      /\ UNCHANGED <<link, m_routers, m_connectableRouters, m_possessionRouters, accounts, m_connection,
                     m_charactersDict, lobby, m_minds, m_unpossessed, m_possessed, m_possessions, keys, watched,
                     mind, minds, alive, requests, made>>
  BY DEF DisablePossession, connectionVars, accountVars, managerVars
<1>2. Types'
  BY <1>1 DEF SessionsInv, Types, ConnectionTypes, AccountTypes, ManagerTypes, KeyTypes, EntityTypes, RequestTypes
<1> QED
  BY <1>1, <1>2 DEF SessionsInv, Types, ManagerTypes, LinksAlive, LoggedIn, Claimable, Unclaimed, MindLists,
     MindsConnected, MindRouters, RegistrationsKnown, WantedIsWatched

\* An entity gets a "mind" property: from then on it is watched, on the list and has a key.
LEMMA RequestPossessionKeeps ==
    ASSUME SessionsInv, NEW e \in Entities, RequestPossession(e)
    PROVE  SessionsInv'
<1>1. /\ e \in alive
      /\ mind' = [mind EXCEPT ![e] = TRUE]
      /\ m_possessions' = WithKeys(m_possessions, {e}) /\ keys' = KeysMade(m_possessions')
      /\ watched' = watched \cup {e}
      /\ m_unpossessed' = m_unpossessed \cup {e}
      /\ UNCHANGED <<link, m_routers, m_connectableRouters, m_possessionRouters, accounts, m_connection,
                     m_charactersDict, lobby, m_minds, m_connections, m_possessed, minds, alive, made>>
      /\ \A r \in requests' : r \in requests \/ r \in Requested(m_connections, e, m_possessions'[e])
  BY DEF RequestPossession, connectionVars, accountVars
<1>2. KeyTypes' /\ \A d \in Entities : d \in {e} \/ m_possessions[d] # 0 => m_possessions'[d] # 0
  BY <1>1, NewKeys DEF SessionsInv, Types
<1>3. \A r \in requests' : r \in Request /\ link[r.connection] # "none"
  <2>1. m_possessions'[e] \in Nat /\ m_connections \in [Accounts -> Connections \cup {NoConnection}]
    BY <1>2 DEF KeyTypes, SessionsInv, Types, ManagerTypes
  <2> QED
    BY <1>1, <2>1, RequestedOf DEF SessionsInv, Types, RequestTypes, LinksAlive
<1>4. Types'
  BY <1>1, <1>2, <1>3 DEF SessionsInv, Types, ConnectionTypes, AccountTypes, ManagerTypes, EntityTypes, RequestTypes
<1>5. Claimable' /\ WantedIsWatched'
  BY <1>1, <1>2 DEF SessionsInv, Types, EntityTypes, Claimable, Unclaimed, WantedIsWatched
<1> QED
  BY <1>1, <1>3, <1>4, <1>5 DEF SessionsInv, LinksAlive, LoggedIn, MindLists, MindsConnected, MindRouters,
     RegistrationsKnown

\* The property goes: the entity is no longer to have a mind.
LEMMA RemoveRequestKeeps ==
    ASSUME SessionsInv, NEW e \in Entities, RemoveRequest(e)
    PROVE  SessionsInv'
<1>1. /\ mind' = [mind EXCEPT ![e] = FALSE]
      /\ m_unpossessed' = m_unpossessed \ {e}
      /\ UNCHANGED <<link, m_routers, m_connectableRouters, m_possessionRouters, accounts, m_connection,
                     m_charactersDict, lobby, m_minds, m_connections, m_possessed, m_possessions, keys, watched,
                     minds, alive, requests, made>>
  BY DEF RemoveRequest, connectionVars, accountVars
<1>2. Types'
  BY <1>1 DEF SessionsInv, Types, ConnectionTypes, AccountTypes, ManagerTypes, KeyTypes, EntityTypes, RequestTypes
<1>3. Claimable' /\ WantedIsWatched'
  BY <1>1 DEF SessionsInv, Types, EntityTypes, Claimable, Unclaimed, WantedIsWatched
<1> QED
  BY <1>1, <1>2, <1>3 DEF SessionsInv, LinksAlive, LoggedIn, MindLists, MindsConnected, MindRouters, RegistrationsKnown

-----------------------------------------------------------------------------
(* Minds and entities *)

\* An account that is logged in gets a mind of an entity that is alive.
LEMMA ConnectCharacterKeeps ==
    ASSUME SessionsInv, NEW a \in Accounts, NEW e \in Entities, NEW sent \in SUBSET requests,
           m_connection[a] # NoConnection, e \in alive, ConnectCharacter(a, e, sent),
           m_possessions' \in {m_possessions, [m_possessions EXCEPT ![e] = 0]},
           UNCHANGED <<link, m_connectableRouters, m_possessionRouters, accountVars, m_connections, keys, watched,
                       mind, alive>>
    PROVE  SessionsInv'
<1>1. /\ UNCHANGED <<link, m_connectableRouters, m_possessionRouters, accounts, m_connection, m_charactersDict, lobby,
                     m_connections, keys, watched, mind, alive>>
      /\ made < MaxMinds /\ made' = made + 1
      /\ m_minds' = [m_minds EXCEPT ![a] = @ \cup {e}]
      /\ m_routers' = [m_routers EXCEPT ![m_connection[a]] = @ \cup {<<a, e>>}]
      /\ minds' = [minds EXCEPT ![e] = @ \cup {a}]
      /\ m_possessed' = m_possessed \cup ({e} \cap watched)
      /\ m_unpossessed' = m_unpossessed \ ({e} \cap watched)
      /\ requests' \subseteq requests
      /\ m_connection[a] \in Connections
  BY DEF ConnectCharacter, AddMind, accountVars, SessionsInv, Types, AccountTypes
<1>2. ConnectionTypes' /\ AccountTypes'
  BY <1>1, ConstantFacts DEF SessionsInv, Types, ConnectionTypes, AccountTypes
<1>3. ManagerTypes' /\ RequestTypes'
  BY <1>1 DEF SessionsInv, Types, ManagerTypes, RequestTypes
<1>4. KeyTypes'
  BY <1>1 DEF SessionsInv, Types, KeyTypes
<1>5. EntityTypes'
  BY <1>1, ConstantFacts DEF SessionsInv, Types, EntityTypes
<1>6. LinksAlive' /\ RegistrationsKnown' /\ WantedIsWatched'
  BY <1>1 DEF SessionsInv, LinksAlive, RegistrationsKnown, WantedIsWatched
<1>7. LoggedIn'
  BY <1>1, ConstantFacts DEF SessionsInv, Types, ConnectionTypes, LoggedIn
<1>8. Claimable'
  <2> SUFFICES ASSUME NEW d \in alive, mind[d], minds'[d] = {}
               PROVE  d \in m_unpossessed' /\ m_possessions'[d] # 0
    BY <1>1 DEF Claimable, Unclaimed
  <2>1. d # e /\ minds[d] = {} /\ d \in Entities
    BY <1>1 DEF SessionsInv, Types, EntityTypes
  <2> QED
    BY <1>1, <2>1 DEF SessionsInv, Types, KeyTypes, Claimable, Unclaimed
<1>9. MindLists'
  BY <1>1 DEF SessionsInv, Types, EntityTypes, AccountTypes, MindLists
<1>10. MindsConnected' /\ MindRouters'
  BY <1>1 DEF SessionsInv, Types, ConnectionTypes, AccountTypes, MindsConnected, MindRouters
<1> QED
  BY <1>2, <1>3, <1>4, <1>5, <1>6, <1>7, <1>8, <1>9, <1>10 DEF SessionsInv, Types

LEMMA PossessCharacterKeeps ==
    ASSUME SessionsInv, NEW a \in Accounts, NEW e \in Entities, PossessCharacter(a, e)
    PROVE  SessionsInv'
<1>1. /\ m_connection[a] # NoConnection /\ e \in alive /\ requests \in SUBSET requests
      /\ ConnectCharacter(a, e, requests)
      /\ m_possessions' \in {m_possessions, [m_possessions EXCEPT ![e] = 0]}
      /\ UNCHANGED <<link, m_connectableRouters, m_possessionRouters, accountVars, m_connections, keys, watched,
                     mind, alive>>
  BY DEF PossessCharacter, SessionsInv, Types, AccountTypes
<1> QED
  BY <1>1, ConnectCharacterKeeps

\* The answer of a client.  The connection knows the account as its router, so the account
\* is logged in on that connection, whoever was asked and however long ago.
LEMMA AnswerRequestKeeps ==
    ASSUME SessionsInv, NEW r \in requests, AnswerRequest(r)
    PROVE  SessionsInv'
<1> DEFINE a == r.router
           e == r.entity
           heard == <<a, 0>> \in m_routers[r.connection] /\ Authentic(r)
<1>1. /\ a \in Accounts /\ e \in Entities /\ r.connection \in Connections
      /\ requests \ {r} \in SUBSET requests
  BY DEF SessionsInv, Types, RequestTypes, Request
<1>2. /\ UNCHANGED <<link, m_connectableRouters, m_possessionRouters, accountVars, m_connections, keys, watched, mind,
                     alive>>
      /\ UNCHANGED <<accounts, m_connection, m_charactersDict, lobby>>
  BY DEF AnswerRequest, accountVars
<1>3. CASE heard /\ e \in alive /\ ConnectCharacter(a, e, requests \ {r}) /\ m_possessions' = [m_possessions EXCEPT ![e] = 0]
  <2>1. m_connection[a] # NoConnection
    BY <1>1, <1>3, ConstantFacts DEF SessionsInv, LoggedIn
  <2> DEFINE sent == requests \ {r}
  <2>2. /\ sent \in SUBSET requests /\ ConnectCharacter(a, e, sent) /\ e \in alive
        /\ m_possessions' \in {m_possessions, [m_possessions EXCEPT ![e] = 0]}
    BY <1>1, <1>3
  <2> HIDE DEF sent, a, e
  <2> QED
    BY <1>1, <1>2, <2>1, <2>2, ConnectCharacterKeeps
<1>4. CASE /\ m_possessions' = m_possessions \/ (m_possessions' = [m_possessions EXCEPT ![e] = 0] /\ e \notin alive)
           /\ requests' = requests \ {r}
           /\ UNCHANGED <<m_routers, m_minds, minds, m_possessed, m_unpossessed, made>>
  <2>1. KeyTypes' /\ Claimable'
    BY <1>1, <1>2, <1>4 DEF SessionsInv, Types, KeyTypes, EntityTypes, Claimable, Unclaimed
  <2>2. Types'
    BY <1>2, <1>4, <2>1 DEF SessionsInv, Types, ConnectionTypes, AccountTypes, ManagerTypes, EntityTypes, RequestTypes
  <2> QED
    BY <1>2, <1>4, <2>1, <2>2 DEF SessionsInv, LinksAlive, LoggedIn, MindLists, MindsConnected, MindRouters,
       RegistrationsKnown, WantedIsWatched
<1> QED
  BY <1>3, <1>4 DEF AnswerRequest

\* The entity belongs to an account.
LEMMA AddCharacterKeeps ==
    ASSUME SessionsInv, NEW a \in Accounts, NEW e \in Entities, AddCharacter(a, e)
    PROVE  SessionsInv'
<1>1. /\ e \in alive /\ m_charactersDict' = [m_charactersDict EXCEPT ![a] = @ \cup {e}]
      /\ UNCHANGED <<link, m_routers, m_connectableRouters, m_possessionRouters, accounts, m_connection, lobby,
                     m_minds, m_connections, m_unpossessed, m_possessed, m_possessions, keys, watched, mind, minds,
                     alive, requests, made>>
  BY DEF AddCharacter, connectionVars, managerVars
<1>2. Types'
  BY <1>1 DEF SessionsInv, Types, ConnectionTypes, AccountTypes, ManagerTypes, KeyTypes, EntityTypes, RequestTypes
<1> QED
  BY <1>1, <1>2 DEF SessionsInv, LinksAlive, LoggedIn, Claimable, Unclaimed, MindLists, MindsConnected, MindRouters,
     RegistrationsKnown, WantedIsWatched

\* An entity is destroyed: accounts, connections and the manager forget it.
LEMMA DestroyEntityKeeps ==
    ASSUME SessionsInv, NEW e \in Entities, DestroyEntity(e)
    PROVE  SessionsInv'
<1>1. /\ alive' = alive \ {e}
      /\ m_minds' = [a \in Accounts |-> m_minds[a] \ {e}]
      /\ m_routers' = [c \in Connections |-> m_routers[c] \ (Accounts \X {e})]
      /\ m_charactersDict' = [a \in Accounts |-> m_charactersDict[a] \ {e}]
      /\ minds' = [minds EXCEPT ![e] = {}]
      /\ m_unpossessed' = m_unpossessed \ {e}
      /\ m_possessed' = m_possessed \ {e}
      /\ UNCHANGED <<link, m_connectableRouters, m_possessionRouters, accounts, m_connection,
                     lobby, m_connections, m_possessions, keys, watched, mind, requests, made>>
  BY DEF DestroyEntity
<1>2. ConnectionTypes' /\ AccountTypes'
  BY <1>1 DEF SessionsInv, Types, ConnectionTypes, AccountTypes
<1>3. ManagerTypes' /\ KeyTypes' /\ EntityTypes' /\ RequestTypes'
  BY <1>1 DEF SessionsInv, Types, ManagerTypes, KeyTypes, EntityTypes, RequestTypes
<1>4. LoggedIn'
  BY <1>1, ConstantFacts DEF SessionsInv, Types, ConnectionTypes, LoggedIn
<1>5. Claimable' /\ MindLists'
  BY <1>1 DEF SessionsInv, Types, EntityTypes, AccountTypes, Claimable, Unclaimed, MindLists
<1>6. MindsConnected'
  BY <1>1 DEF SessionsInv, MindsConnected
<1>7. MindRouters'
  BY <1>1 DEF SessionsInv, Types, ConnectionTypes, MindRouters
<1> QED
  BY <1>1, <1>2, <1>3, <1>4, <1>5, <1>6, <1>7 DEF SessionsInv, Types, LinksAlive, RegistrationsKnown, WantedIsWatched

-----------------------------------------------------------------------------
(* The theorems *)

LEMMA InitHolds == Init => SessionsInv
<1> SUFFICES ASSUME Init PROVE SessionsInv
  OBVIOUS
<1>1. Types
  BY ConstantFacts DEF Init, Types, ConnectionTypes, AccountTypes, ManagerTypes, KeyTypes, EntityTypes, RequestTypes
<1>2. LinksAlive /\ LoggedIn
  BY ConstantFacts DEF Init, LinksAlive, LoggedIn
<1>3. Claimable /\ MindLists /\ MindsConnected /\ MindRouters /\ RegistrationsKnown /\ WantedIsWatched
  BY DEF Init, Claimable, Unclaimed, MindLists, MindsConnected, MindRouters, RegistrationsKnown, WantedIsWatched
<1> QED
  BY <1>1, <1>2, <1>3 DEF SessionsInv

LEMMA NextKeeps == SessionsInv /\ [Next]_vars => SessionsInv'
<1> SUFFICES ASSUME SessionsInv, [Next]_vars PROVE SessionsInv'
  OBVIOUS
<1>1. CASE UNCHANGED vars
  <2>1. UNCHANGED <<link, m_routers, m_connectableRouters, m_possessionRouters, accounts, m_connection,
                    m_charactersDict, lobby, m_minds, m_connections, m_unpossessed, m_possessed, m_possessions, keys,
                    watched, mind, minds, alive, requests, made>>
    BY <1>1 DEF vars, connectionVars, accountVars, managerVars
  <2>2. Types'
    BY <2>1 DEF SessionsInv, Types, ConnectionTypes, AccountTypes, ManagerTypes, KeyTypes, EntityTypes, RequestTypes
  <2> QED
    BY <2>1, <2>2 DEF SessionsInv, LinksAlive, LoggedIn, Claimable, Unclaimed, MindLists, MindsConnected,
       MindRouters, RegistrationsKnown, WantedIsWatched
<1>2. CASE \E c \in Connections : Connect(c) \/ Close(c) \/ Destroy(c)
  BY <1>2, LinkKeeps, DestroyKeeps
<1>3. ASSUME NEW c \in Connections, NEW a \in Accounts, LoginOperation(c, a) PROVE SessionsInv'
  <2>1. /\ link[c] # "none" /\ m_connection[a] = NoConnection /\ AccountAdded(c, a)
        /\ accounts' = accounts /\ a \in accounts'
    BY <1>3 DEF LoginOperation
  <2> QED
    BY <2>1, LoginKeeps
<1>4. ASSUME NEW c \in Connections, NEW a \in Accounts, CreateOperation(c, a) PROVE SessionsInv'
  <2>1. /\ link[c] # "none" /\ AccountAdded(c, a) /\ a \notin accounts
        /\ accounts' = accounts \cup {a} /\ a \in accounts'
    BY <1>4 DEF CreateOperation
  <2>2. m_connection[a] = NoConnection
    BY <2>1 DEF SessionsInv, Types, AccountTypes, LoggedIn
  <2> QED
    BY <2>1, <2>2, LoginKeeps
<1>5. CASE \E c \in Connections, a \in Accounts : LoginOperation(c, a) \/ CreateOperation(c, a) \/ LogoutAccount(c, a)
  BY <1>3, <1>4, <1>5, LogoutAccountKeeps
<1>6. CASE \E a \in Accounts : EnablePossession(a) \/ DisablePossession(a)
  BY <1>6, EnablePossessionKeeps, DisablePossessionKeeps
<1>7. CASE \E e \in Entities : RequestPossession(e) \/ RemoveRequest(e) \/ DestroyEntity(e)
  BY <1>7, RequestPossessionKeeps, RemoveRequestKeeps, DestroyEntityKeeps
<1>8. CASE \E a \in Accounts, e \in Entities : AddCharacter(a, e) \/ PossessCharacter(a, e) \/ LogoutMind(a, e)
  BY <1>8, AddCharacterKeeps, PossessCharacterKeeps, LogoutMindKeeps
<1>9. CASE \E r \in requests : AnswerRequest(r)
  BY <1>9, AnswerRequestKeeps
<1> QED
  BY <1>1, <1>2, <1>5, <1>6, <1>7, <1>8, <1>9 DEF Next

LEMMA SessionsInvAlways == Spec => []SessionsInv
  BY InitHolds, NextKeeps, PTL DEF Spec

\* Whatever clients do, in whatever order connections are made, closed and deleted: an
\* account is logged in on one connection at most, the account, that connection and the
\* lobby agree on it, and neither an account nor the manager of external minds refers to a
\* connection that was deleted.
THEOREM SessionsConsistent == Spec => []SessionsAgree
  BY SessionsInvAlways, InvSuffices, PTL

\* The minds of an account, the entities' lists of minds and the routers of the
\* connections stay the same through logout, deletion of the connection, possession with
\* old and new keys and the destruction of entities; and an entity that is to have a mind
\* and has none is on the manager's list with a key.
THEOREM MindsConsistent == Spec => []MindsAgree
  BY SessionsInvAlways, InvSuffices, PTL

=============================================================================
