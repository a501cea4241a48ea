------------------------------ MODULE Teleport ------------------------------
(***************************************************************************)
(* Handing entities over to another server: Juncture, CommPeer and Peer    *)
(* (src/server).                                                           *)
(*                                                                         *)
(* An administrator connects a juncture to the other server and logs in    *)
(* through it.  An entity that asks a gateway to be teleported is sent to  *)
(* the peer as a Create operation; when the peer answers that it has been  *)
(* created, the entity's minds are told where to follow it and the entity  *)
(* is deleted here.  The Delete operation is queued like any other, so the *)
(* entity goes on for a while.  The socket may fail at any time.           *)
(*                                                                         *)
(* A server of this repository at the other end answers the login, and     *)
(* creates the entity only through one of its spawn entities; it ignores   *)
(* the possess_key and sends a Sight of the account, which Peer::operation *)
(* does not take for a confirmation.  PeerConfirms stands for a server     *)
(* that answers as Peer::peerTeleportResponse() expects, which is external *)
(* code.  Requests through a juncture that has lost its peer are left out: *)
(* nothing resets m_peer, so what they do is undefined.                    *)
(***************************************************************************)
EXTENDS Integers, Sequences, FiniteSets, Functions, TLC

CONSTANTS
    Travellers,   \* the entities that ask to be teleported
    MaxRequests   \* bound: how many Create operations are sent

ASSUME TeleportAssumption == MaxRequests \in Nat /\ IsFiniteSet(Travellers)

VARIABLES
    peer,       \* "NONE", "CONNECTING", the state of m_peer, or "LOST"
    authTimer,  \* whether checkAuth() will be called again
    teleports,  \* m_teleports: by entity, the key for its minds (0 without one)
    here,       \* the entities in this world
    doomed,     \* those whose Delete operation is queued
    withMind,   \* those that have an external mind
    sent,       \* what the peer has not read yet
    answers,    \* what this server has not read yet
    copies,     \* what was created there: the entity, and the key given with it
    requests,   \* how many Create operations were sent
    exported,   \* the entities that were deleted because they had been created there
    told,       \* what the minds were told: the copy to possess, and the key
    timedOut    \* whether cleanTeleports() has given up a teleport

teleportVars == <<peer, authTimer, teleports, here, doomed, withMind, sent, answers,
                  copies, requests, exported, told, timedOut>>

worldVars == <<here, doomed, withMind>>
wireVars == <<sent, answers>>
exportVars == <<copies, requests, exported, told, timedOut>>

TeleportInit ==
    /\ peer = "NONE" /\ authTimer = FALSE
    /\ teleports = <<>>
    /\ here = Travellers /\ doomed = {} /\ withMind = {}
    /\ sent = <<>> /\ answers = <<>>
    /\ copies = {} /\ requests = 0 /\ exported = {} /\ told = {}
    /\ timedOut = FALSE

LoginMessage == [what |-> "login", of |-> 0, key |-> 0]
CreateMessage(e, key) == [what |-> "create", of |-> e, key |-> key]

\* customConnectOperation() and attemptConnect(): once, unless it fails.
ConnectJuncture ==
    /\ peer = "NONE"
    /\ peer' = "CONNECTING"
    /\ UNCHANGED <<authTimer, teleports, worldVars, wireVars, exportVars>>

\* onSocketConnected() and setup().
SocketConnected ==
    /\ peer = "CONNECTING"
    /\ peer' = "INIT" /\ authTimer' = TRUE
    /\ UNCHANGED <<teleports, worldVars, wireVars, exportVars>>

\* onSocketFailed(), when no address is left to try.
SocketFailed ==
    /\ peer = "CONNECTING"
    /\ peer' = "NONE"
    /\ UNCHANGED <<authTimer, teleports, worldVars, wireVars, exportVars>>

\* LoginOperation().
LoginToPeer ==
    /\ peer = "INIT"
    /\ peer' = "AUTHENTICATING"
    /\ sent' = Append(sent, LoginMessage)
    /\ UNCHANGED <<authTimer, teleports, worldVars, answers, exportVars>>

\* Mutant: the entity is deleted when it is sent.
SendTeleport_DeletedAtOnce(e, key) ==
    /\ teleports' = teleports @@ (e :> key)
    /\ sent' = Append(sent, CreateMessage(e, key))
    /\ doomed' = doomed \cup {e}
    /\ exported' = exported \cup {e}

\* The end of Peer::teleportEntity().
SendTeleport(e, key) ==
    /\ teleports' = [x \in DOMAIN teleports \cup {e} |-> IF x \in DOMAIN teleports THEN teleports[x] ELSE key]
    /\ sent' = Append(sent, CreateMessage(e, key))
    /\ UNCHANGED <<doomed, exported>>

\* Mutant: a second request takes the place of the first.
TeleportEntity_Again(e) ==
    /\ peer = "AUTHENTICATED" /\ e \in here
    /\ requests < MaxRequests
    /\ requests' = requests + 1
    /\ LET key == IF e \in withMind THEN requests' ELSE 0
       IN  /\ teleports' = (e :> key) @@ teleports
           /\ sent' = Append(sent, CreateMessage(e, key))
    /\ UNCHANGED <<peer, authTimer, worldVars, answers, copies, exported, told, timedOut>>

\* TeleportProperty::teleport_handler() and Peer::teleportEntity(): a request is
\* refused before the login and while one for the same entity is under way.  Each
\* key is a new one, and an entity without a mind needs none.
TeleportEntity(e) ==
    /\ peer = "AUTHENTICATED" /\ e \in here
    /\ e \notin DOMAIN teleports
    /\ requests < MaxRequests
    /\ requests' = requests + 1
    /\ SendTeleport(e, IF e \in withMind THEN requests' ELSE 0)
    /\ UNCHANGED <<peer, authTimer, here, withMind, answers, copies, told, timedOut>>

\* What Peer::operation() ignores, and what fails the peer.
SightMessage == [what |-> "sight", of |-> 0, key |-> 0]
ErrorMessage == [what |-> "error", of |-> 0, key |-> 0]

\* The peer reads a message of a kind.
PeerReads(what) ==
    /\ sent # <<>> /\ Head(sent).what \in what
    /\ sent' = Tail(sent)
    /\ UNCHANGED <<peer, authTimer, teleports, worldVars, requests, exported, told, timedOut>>

\* Connection::LoginOperation() of the peer: the account's Info.
PeerLogsIn ==
    /\ PeerReads({"login"})
    /\ answers' = Append(answers, LoginMessage)
    /\ UNCHANGED copies

\* Account::CreateOperation() of the peer: the entity is created in a spawn entity,
\* and the account's client is sent a Sight of the account.
PeerCreates ==
    /\ PeerReads({"create"})
    /\ copies' = copies \cup {Head(sent)}
    /\ answers' = Append(answers, SightMessage)

\* A server that sends an Info for the Create operation, with its serial number.
PeerConfirms ==
    /\ PeerReads({"create"})
    /\ copies' = copies \cup {Head(sent)}
    /\ answers' = Append(answers, Head(sent))

\* The peer answers with an Error: the login is invalid, or the entity's id is not that
\* of a spawn entity.
PeerRefuses ==
    /\ PeerReads({"login", "create"})
    /\ answers' = Append(answers, ErrorMessage)
    /\ UNCHANGED copies

\* The spawn entity makes nothing of the Create operation, and nobody hears of it.
PeerIgnores ==
    /\ PeerReads({"create"})
    /\ UNCHANGED <<answers, copies>>

\* peerTeleportResponse(): the entity may be gone, and its minds may be.  In the
\* second case the teleport stays recorded, and the entity stays.
TeleportResponse(copy) ==
    LET e == copy.of
        key == teleports[e]
        over == [x \in DOMAIN teleports \ {e} |-> teleports[x]]
    IN  IF e \notin DOMAIN teleports THEN UNCHANGED <<teleports, doomed, exported, told>>
        ELSE IF e \notin here THEN teleports' = over /\ UNCHANGED <<doomed, exported, told>>
        ELSE IF key # 0 /\ e \notin withMind THEN UNCHANGED <<teleports, doomed, exported, told>>
        ELSE /\ teleports' = over
             /\ doomed' = doomed \cup {e}
             /\ exported' = exported \cup {e}
             /\ told' = IF key = 0 THEN told ELSE told \cup {[copy |-> copy, key |-> key]}

\* Peer::operation(): an Error fails the peer for good, the first Info is the answer
\* to the login, the later ones are about entities, and all else is ignored.
PeerOperation ==
    /\ answers # <<>> /\ peer # "LOST"
    /\ answers' = Tail(answers)
    /\ peer' = CASE Head(answers).what = "error" -> "FAILED"
                 [] Head(answers).what \in {"login", "create"} /\ peer = "AUTHENTICATING" -> "AUTHENTICATED"
                 [] OTHER -> peer
    /\ IF peer = "AUTHENTICATED" /\ Head(answers).what = "create"
       THEN TeleportResponse(Head(answers))
       ELSE UNCHANGED <<teleports, doomed, exported, told>>
    /\ UNCHANGED <<authTimer, here, withMind, sent, copies, requests, timedOut>>

\* checkAuth(): a login that takes too long ends the connection.  Once the peer is
\* authenticated, cleanTeleports() gives up what is too old, and the timer ends.
CheckAuth ==
    /\ authTimer
    /\ \/ /\ peer = "AUTHENTICATING"
          /\ peer' = "LOST" /\ authTimer' = FALSE
          /\ UNCHANGED <<teleports, timedOut>>
       \/ /\ peer = "AUTHENTICATED"
          /\ authTimer' = FALSE
          /\ \E old \in SUBSET DOMAIN teleports :
                /\ teleports' = [x \in DOMAIN teleports \ old |-> teleports[x]]
                /\ timedOut' = (old # {})
          /\ UNCHANGED peer
    /\ UNCHANGED <<worldVars, wireVars, copies, requests, exported, told>>

\* The socket fails: the Peer and all it knew are gone; m_peer is not reset.
PeerLost ==
    /\ peer \in {"INIT", "AUTHENTICATING", "AUTHENTICATED", "FAILED"}
    /\ peer' = "LOST" /\ authTimer' = FALSE
    /\ teleports' = <<>> /\ answers' = <<>>
    /\ UNCHANGED <<worldVars, sent, exportVars>>

\* The world goes on: the Delete operation is handled, or the entity is destroyed by
\* something else; minds come and go.
Vanish(e) ==
    /\ e \in here
    /\ here' = here \ {e} /\ doomed' = doomed \ {e} /\ withMind' = withMind \ {e}
    /\ UNCHANGED <<peer, authTimer, teleports, wireVars, exportVars>>

MindChange(e) ==
    /\ e \in here
    /\ withMind' = IF e \in withMind THEN withMind \ {e} ELSE withMind \cup {e}
    /\ UNCHANGED <<peer, authTimer, teleports, here, doomed, wireVars, exportVars>>

TeleportNext ==
    \/ ConnectJuncture \/ SocketConnected \/ SocketFailed \/ LoginToPeer
    \/ PeerLogsIn \/ PeerCreates \/ PeerConfirms \/ PeerRefuses \/ PeerIgnores
    \/ PeerOperation \/ CheckAuth \/ PeerLost
    \/ \E e \in Travellers : TeleportEntity(e) \/ Vanish(e) \/ MindChange(e)

TeleportSpec == TeleportInit /\ [][TeleportNext]_teleportVars

-----------------------------------------------------------------------------
\* No traveller is lost on the way: an entity that peerTeleportResponse() deletes
\* exists on the other server, whatever was refused, lost, repeated or given up.
NoTravellerLost == \A e \in exported : \E c \in copies : c.of = e

\* The key that peerTeleportResponse() tells the minds is the one that was sent with the
\* Create operation that is answered, although teleports are answered late, refused,
\* or asked for again, unless one was given up before (cleanTeleports) and asked for again.
KeyOfThatCopy == timedOut \/ \A t \in told : t.key = t.copy.key

=============================================================================
