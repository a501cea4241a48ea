--------------------------- MODULE TransferProofs ---------------------------
(***************************************************************************)
(* Proofs about entities that go from one world to another: no traveller   *)
(* is lost on the way to another server, and minds are told its key; what  *)
(* is restored from a dump is the dumped world; and a dump gives back what *)
(* was exported.  They hold for any number of entities and requests.       *)
(***************************************************************************)
EXTENDS Teleport, Importer, Exporter, FiniteSetTheorems, FunctionTheorems, SequenceTheorems,
        WellFoundedInduction, TLAPS

\* What the two servers send each other.
Message == [what : {"login", "create", "sight", "error"}, of : Travellers \cup {0}, key : Nat]

WireOK ==
    /\ sent \in Seq(Message) /\ answers \in Seq(Message)
    /\ requests \in Nat
    /\ here \subseteq Travellers

\* The confirmation of a Create operation is only sent by a server that has created the
\* entity: what waits to be read here speaks of copies that exist there.
AnswersHonest == \A i \in DOMAIN answers : answers[i].what = "create" => answers[i] \in copies

\* The inductive invariant.
LostInv == WireOK /\ AnswersHonest /\ NoTravellerLost

\* A message that is appended is the only one that is new.
LEMMA AppendedMessage ==
    ASSUME NEW s \in Seq(Message), NEW m \in Message
    PROVE  /\ Append(s, m) \in Seq(Message)
           /\ \A i \in DOMAIN Append(s, m) : Append(s, m)[i] = m \/ (i \in DOMAIN s /\ Append(s, m)[i] = s[i])
  OBVIOUS

\* What is left after the first message was read were there before.
LEMMA RemainingMessages ==
    ASSUME NEW s \in Seq(Message), s # <<>>
    PROVE  /\ Head(s) \in Message /\ Tail(s) \in Seq(Message)
           /\ 1 \in DOMAIN s /\ Head(s) = s[1]
           /\ \A i \in DOMAIN Tail(s) : i + 1 \in DOMAIN s /\ Tail(s)[i] = s[i + 1]
  OBVIOUS

\* Peer::teleportEntity() sends a message and deletes nothing.
LEMMA SendKeeps ==
    ASSUME LostInv, NEW e \in Travellers, TeleportEntity(e)
    PROVE  LostInv'
<1>1. requests' \in Nat /\ (IF e \in withMind THEN requests' ELSE 0) \in Nat
  BY DEF LostInv, WireOK, TeleportEntity
<1>2. CreateMessage(e, IF e \in withMind THEN requests' ELSE 0) \in Message
  BY <1>1 DEF CreateMessage, Message
<1>3. sent' \in Seq(Message)
  BY <1>2, AppendedMessage DEF LostInv, WireOK, TeleportEntity, SendTeleport
<1>4. UNCHANGED <<here, answers, copies, exported>>
  BY DEF TeleportEntity, SendTeleport
<1> QED
  BY <1>1, <1>3, <1>4 DEF LostInv, WireOK, AnswersHonest, NoTravellerLost

\* The answer that the peer gives, if any, and the copy that it makes.
PeerStep == PeerLogsIn \/ PeerCreates \/ PeerConfirms \/ PeerRefuses \/ PeerIgnores

Answered(m) == answers' = Append(answers, m)

IsCreate(m) == m.what = "create"

\* What a step of the peer does to the messages: it takes the first one, and answers with
\* nothing, with a message that confirms nothing, or with the one it took, which it has
\* created then.
LEMMA PeerStepEffect ==
    ASSUME WireOK, PeerStep
    PROVE  /\ sent \in Seq(Message) /\ sent # <<>> /\ answers \in Seq(Message)
           /\ sent' = Tail(sent) /\ copies \subseteq copies'
           /\ UNCHANGED <<peer, authTimer, teleports, here, requests, exported, told, timedOut>>
           /\ \/ answers' = answers
              \/ \E m \in Message : ~ IsCreate(m) /\ Answered(m)
              \/ Answered(Head(sent)) /\ IsCreate(Head(sent)) /\ Head(sent) \in copies'
<1>1. /\ sent \in Seq(Message) /\ sent # <<>> /\ answers \in Seq(Message)
      /\ sent' = Tail(sent)
      /\ UNCHANGED <<peer, authTimer, teleports, here, requests, exported, told, timedOut>>
  BY DEF PeerStep, PeerLogsIn, PeerCreates, PeerConfirms, PeerRefuses, PeerIgnores, PeerReads, WireOK, worldVars
<1>2. /\ LoginMessage \in Message /\ SightMessage \in Message /\ ErrorMessage \in Message
      /\ ~ IsCreate(LoginMessage) /\ ~ IsCreate(SightMessage) /\ ~ IsCreate(ErrorMessage)
  BY DEF LoginMessage, SightMessage, ErrorMessage, Message, IsCreate
<1>3. CASE PeerLogsIn
  BY <1>1, <1>2, <1>3 DEF PeerLogsIn, Answered
<1>4. CASE PeerCreates
  BY <1>1, <1>2, <1>4 DEF PeerCreates, Answered
<1>5. CASE PeerConfirms
  BY <1>1, <1>5 DEF PeerConfirms, PeerReads, Answered, IsCreate
<1>6. CASE PeerRefuses
  BY <1>1, <1>2, <1>6 DEF PeerRefuses, Answered
<1>7. CASE PeerIgnores
  BY <1>1, <1>7 DEF PeerIgnores
<1> QED
  BY <1>3, <1>4, <1>5, <1>6, <1>7 DEF PeerStep

\* The other server confirms only what it has created.
LEMMA PeerKeeps ==
    ASSUME LostInv, PeerStep
    PROVE  LostInv'
<1>1. /\ sent \in Seq(Message) /\ sent # <<>> /\ answers \in Seq(Message)
      /\ sent' = Tail(sent) /\ copies \subseteq copies' /\ UNCHANGED <<here, requests, exported>>
      /\ \/ answers' = answers
         \/ \E m \in Message : ~ IsCreate(m) /\ Answered(m)
         \/ Answered(Head(sent)) /\ IsCreate(Head(sent)) /\ Head(sent) \in copies'
  BY PeerStepEffect DEF LostInv
<1>2. Head(sent) \in Message /\ Tail(sent) \in Seq(Message)
  BY <1>1, RemainingMessages
<1>3. \/ answers' = answers
      \/ \E m \in Message : Answered(m) /\ (IsCreate(m) => m \in copies')
  BY <1>1, <1>2
<1>4. CASE answers' = answers
  BY <1>1, <1>2, <1>4 DEF LostInv, WireOK, AnswersHonest, NoTravellerLost
<1>5. CASE \E m \in Message : Answered(m) /\ (IsCreate(m) => m \in copies')
  <2>1. PICK m \in Message : Answered(m) /\ (IsCreate(m) => m \in copies')
    BY <1>5
  <2>2. answers' = Append(answers, m)
    BY <2>1 DEF Answered
  <2>3. /\ answers' \in Seq(Message)
        /\ \A i \in DOMAIN answers' : answers'[i] = m \/ (i \in DOMAIN answers /\ answers'[i] = answers[i])
    BY <1>1, <2>2, AppendedMessage
  <2>4. AnswersHonest'
    BY <1>1, <2>1, <2>3 DEF LostInv, AnswersHonest, IsCreate
  <2> QED
    BY <1>1, <1>2, <2>3, <2>4 DEF LostInv, WireOK, NoTravellerLost
<1> QED
  BY <1>3, <1>4, <1>5

\* Peer::operation() deletes an entity only for a confirmation.
LEMMA ResponseKeeps ==
    ASSUME LostInv, PeerOperation
    PROVE  LostInv'
<1>1. answers \in Seq(Message) /\ answers # <<>>
  BY DEF LostInv, WireOK, PeerOperation
<1>2. /\ Tail(answers) \in Seq(Message) /\ 1 \in DOMAIN answers /\ Head(answers) = answers[1]
      /\ \A i \in DOMAIN Tail(answers) : i + 1 \in DOMAIN answers /\ Tail(answers)[i] = answers[i + 1]
  BY <1>1, RemainingMessages
<1>3. answers' = Tail(answers) /\ UNCHANGED <<here, sent, copies, requests>>
  BY DEF PeerOperation
<1>4. AnswersHonest'
  BY <1>2, <1>3 DEF LostInv, AnswersHonest
<1>5. exported' = exported \/ (Head(answers).what = "create" /\ exported' = exported \cup {Head(answers).of})
  BY DEF PeerOperation, TeleportResponse
<1>6. Head(answers).what = "create" => Head(answers) \in copies
  BY <1>2 DEF LostInv, AnswersHonest
<1>7. NoTravellerLost'
  BY <1>3, <1>5, <1>6 DEF LostInv, NoTravellerLost
<1> QED
  BY <1>2, <1>3, <1>4, <1>7 DEF LostInv, WireOK

\* No step of this server, the other one or the world breaks the invariant.
LEMMA LostStep ==
    ASSUME LostInv, [TeleportNext]_teleportVars
    PROVE  LostInv'
<1> USE DEF worldVars, wireVars, exportVars
<1>1. CASE UNCHANGED teleportVars
  BY <1>1 DEF teleportVars, LostInv, WireOK, AnswersHonest, NoTravellerLost
<1>2. CASE ConnectJuncture \/ SocketConnected \/ SocketFailed \/ CheckAuth
  <2>1. UNCHANGED <<here, sent, answers, copies, requests, exported>>
    BY <1>2 DEF ConnectJuncture, SocketConnected, SocketFailed, CheckAuth
  <2> QED
    BY <2>1 DEF LostInv, WireOK, AnswersHonest, NoTravellerLost
<1>3. CASE LoginToPeer
  <2>1. LoginMessage \in Message
    BY DEF LoginMessage, Message
  <2>2. sent' \in Seq(Message) /\ UNCHANGED <<here, answers, copies, requests, exported>>
    BY <1>3, <2>1, AppendedMessage DEF LoginToPeer, LostInv, WireOK
  <2> QED
    BY <2>2 DEF LostInv, WireOK, AnswersHonest, NoTravellerLost
<1>4. CASE PeerLost
  <2>1. answers' = <<>> /\ UNCHANGED <<here, sent, copies, requests, exported>>
    BY <1>4 DEF PeerLost
  <2> QED
    BY <2>1 DEF LostInv, WireOK, AnswersHonest, NoTravellerLost
<1>5. ASSUME NEW e \in Travellers, Vanish(e) \/ MindChange(e)
      PROVE  LostInv'
  <2>1. here' \subseteq here /\ UNCHANGED <<sent, answers, copies, requests, exported>>
    BY <1>5 DEF Vanish, MindChange
  <2> QED
    BY <2>1 DEF LostInv, WireOK, AnswersHonest, NoTravellerLost
<1> QED
  BY <1>1, <1>2, <1>3, <1>4, <1>5, SendKeeps, PeerKeeps, ResponseKeeps DEF TeleportNext, PeerStep

\* peerTeleportResponse() never deletes an entity that the other server does not have,
\* whatever was refused, lost, repeated or given up: for any number of entities and
\* requests.
THEOREM TravellersArrive == TeleportSpec => []NoTravellerLost
<1>1. TeleportInit => LostInv
  BY DEF TeleportInit, LostInv, WireOK, AnswersHonest, NoTravellerLost
<1>2. LostInv /\ [TeleportNext]_teleportVars => LostInv'
  BY LostStep
<1>3. LostInv => NoTravellerLost
  BY DEF LostInv
<1> QED
  BY <1>1, <1>2, <1>3, PTL DEF TeleportSpec

-----------------------------------------------------------------------------

\* The teleport a message is about is recorded, under the message's key.
Recorded(s) ==
    \A i \in DOMAIN s : IsCreate(s[i]) => s[i].of \in DOMAIN teleports /\ s[i].key = teleports[s[i].of]

\* No two messages are about one entity.
Distinct(s) ==
    \A i, j \in DOMAIN s : IsCreate(s[i]) /\ IsCreate(s[j]) /\ s[i].of = s[j].of => i = j

Apart ==
    \A i \in DOMAIN sent, j \in DOMAIN answers :
        IsCreate(sent[i]) /\ IsCreate(answers[j]) => sent[i].of # answers[j].of

\* While the connection is there and nothing was given up, at most one request for each
\* entity is under way, and m_teleports has its key.
OneRequest ==
    peer \notin {"LOST", "FAILED"} /\ ~ timedOut =>
        Recorded(sent) /\ Recorded(answers) /\ Distinct(sent) /\ Distinct(answers) /\ Apart

\* checkAuth() gives teleports up in its last call only.
GivenUpLast ==
    /\ timedOut \in BOOLEAN
    /\ authTimer \/ peer \in {"NONE", "CONNECTING"} => ~ timedOut

\* The inductive invariant.
FollowInv == LostInv /\ OneRequest /\ GivenUpLast /\ KeyOfThatCopy

\* teleportEntity() refuses a second request, so the new one is alone with its entity.
LEMMA SendFollows ==
    ASSUME FollowInv, NEW e \in Travellers, TeleportEntity(e)
    PROVE  FollowInv'
<1> DEFINE key == IF e \in withMind THEN requests' ELSE 0
           m == CreateMessage(e, key)
<1>1. LostInv'
  BY SendKeeps DEF FollowInv
<1>2. requests' \in Nat /\ key \in Nat
  BY DEF FollowInv, LostInv, WireOK, TeleportEntity
<1>3. m \in Message /\ m.of = e /\ m.key = key
  BY <1>2 DEF CreateMessage, Message
<1>4. sent' = Append(sent, m) /\ sent \in Seq(Message)
  BY DEF TeleportEntity, SendTeleport, FollowInv, LostInv, WireOK
<1>5. /\ DOMAIN teleports' = DOMAIN teleports \cup {e}
      /\ \A x \in DOMAIN teleports : teleports'[x] = teleports[x]
      /\ e \notin DOMAIN teleports /\ teleports'[e] = key
  BY DEF TeleportEntity, SendTeleport
<1>6. UNCHANGED <<peer, authTimer, answers, copies, told, timedOut>>
  BY DEF TeleportEntity
<1>7. ASSUME peer \notin {"LOST", "FAILED"}, ~ timedOut
      PROVE  (Recorded(sent) /\ Recorded(answers) /\ Distinct(sent) /\ Distinct(answers) /\ Apart)'
  <2>1. Recorded(sent) /\ Recorded(answers) /\ Distinct(sent) /\ Distinct(answers) /\ Apart
    BY <1>7 DEF FollowInv, OneRequest
  <2>2. \A i \in DOMAIN sent' : sent'[i] = m \/ (i \in DOMAIN sent /\ sent'[i] = sent[i])
    BY <1>3, <1>4, AppendedMessage
  <2>3. \A i \in DOMAIN sent : IsCreate(sent[i]) => sent[i].of # e
    BY <2>1, <1>5 DEF Recorded
  <2>4. \A i \in DOMAIN answers : IsCreate(answers[i]) => answers[i].of # e
    BY <2>1, <1>5 DEF Recorded
  <2>5. Recorded(sent)'
    BY <2>1, <2>2, <1>3, <1>5 DEF Recorded
  <2>6. Recorded(answers)'
    BY <2>1, <1>5, <1>6 DEF Recorded
  <2>7. Distinct(sent)'
    <3>1. \A i \in DOMAIN sent' : i = Len(sent) + 1 \/ (i \in DOMAIN sent /\ sent'[i] = sent[i])
      BY <1>3, <1>4
    <3>2. sent'[Len(sent) + 1] = m
      BY <1>3, <1>4
    <3> QED
      BY <2>1, <2>3, <3>1, <3>2, <1>3 DEF Distinct
  <2>8. Apart'
    BY <2>1, <2>2, <2>4, <1>3, <1>6 DEF Apart
  <2> QED
    BY <2>1, <2>5, <2>6, <2>7, <2>8, <1>6 DEF Distinct
<1> QED
  BY <1>1, <1>6, <1>7 DEF FollowInv, OneRequest, GivenUpLast, KeyOfThatCopy

\* The other server takes a message, and at most hands it over from one direction to the
\* other.
LEMMA PeerFollows ==
    ASSUME FollowInv, PeerStep
    PROVE  FollowInv'
<1>1. LostInv'
  BY PeerKeeps DEF FollowInv
<1>2. /\ sent \in Seq(Message) /\ sent # <<>> /\ answers \in Seq(Message)
      /\ sent' = Tail(sent)
      /\ UNCHANGED <<peer, authTimer, teleports, told, timedOut>>
      /\ \/ answers' = answers
         \/ \E m \in Message : ~ IsCreate(m) /\ Answered(m)
         \/ Answered(Head(sent))
  BY PeerStepEffect DEF FollowInv, LostInv
<1>3. /\ Head(sent) \in Message /\ 1 \in DOMAIN sent /\ Head(sent) = sent[1]
      /\ \A i \in DOMAIN Tail(sent) : i + 1 \in DOMAIN sent /\ Tail(sent)[i] = sent[i + 1]
  BY <1>2, RemainingMessages
<1>4. ASSUME NEW m \in Message, Answered(m)
      PROVE  \A i \in DOMAIN answers' :
                (i = Len(answers) + 1 /\ answers'[i] = m) \/ (i \in DOMAIN answers /\ answers'[i] = answers[i])
  BY <1>2, <1>4 DEF Answered
<1>5. \A i \in DOMAIN answers' :
        \/ ~ IsCreate(answers'[i])
        \/ i = Len(answers) + 1 /\ answers'[i] = sent[1]
        \/ i \in DOMAIN answers /\ answers'[i] = answers[i]
  <2>1. CASE answers' = answers
    BY <2>1
  <2>2. CASE \E m \in Message : ~ IsCreate(m) /\ Answered(m)
    BY <2>2, <1>4
  <2>3. CASE Answered(Head(sent))
    BY <2>3, <1>3, <1>4
  <2> QED
    BY <2>1, <2>2, <2>3, <1>2
<1>6. \A i \in DOMAIN sent' : i \in Nat /\ i + 1 # 1 /\ i + 1 \in DOMAIN sent /\ sent'[i] = sent[i + 1]
  BY <1>2, <1>3
<1>7. ASSUME peer \notin {"LOST", "FAILED"}, ~ timedOut
      PROVE  (Recorded(sent) /\ Recorded(answers) /\ Distinct(sent) /\ Distinct(answers) /\ Apart)'
  <2>1. Recorded(sent) /\ Recorded(answers) /\ Distinct(sent) /\ Distinct(answers) /\ Apart
    BY <1>7 DEF FollowInv, OneRequest
  <2>2. Recorded(sent)'
    BY <2>1, <1>2, <1>6 DEF Recorded
  <2>3. Recorded(answers)'
    BY <2>1, <1>2, <1>3, <1>5 DEF Recorded
  <2>4. Distinct(sent)'
    BY <2>1, <1>6 DEF Distinct
  <2>5. Distinct(answers)'
    BY <2>1, <1>3, <1>5 DEF Distinct, Apart
  <2>6. Apart'
    <3> SUFFICES ASSUME NEW i \in DOMAIN sent', NEW j \in DOMAIN answers',
                        IsCreate(sent'[i]), IsCreate(answers'[j])
                 PROVE  sent'[i].of # answers'[j].of
      BY DEF Apart
    <3>1. CASE answers'[j] = sent[1]
      BY <3>1, <2>1, <1>3, <1>6 DEF Distinct
    <3>2. CASE j \in DOMAIN answers /\ answers'[j] = answers[j]
      BY <3>2, <2>1, <1>6 DEF Apart
    <3> QED
      BY <3>1, <3>2, <1>5
  <2> QED
    BY <2>2, <2>3, <2>4, <2>5, <2>6
<1> QED
  BY <1>1, <1>2, <1>7 DEF FollowInv, OneRequest, GivenUpLast, KeyOfThatCopy

\* The answer to a request ends the teleport: no other message is about the entity, and
\* the key that its minds are told is the one it was created with.
LEMMA ResponseFollows ==
    ASSUME FollowInv, PeerOperation
    PROVE  FollowInv'
<1> DEFINE copy == Head(answers)
<1>1. LostInv'
  BY ResponseKeeps DEF FollowInv
<1>2. answers \in Seq(Message) /\ answers # <<>>
  BY DEF FollowInv, LostInv, WireOK, PeerOperation
<1>3. copy = answers[1] /\ 1 \in DOMAIN answers
  BY <1>2, RemainingMessages
<1>4. answers' = Tail(answers) /\ UNCHANGED <<authTimer, sent, copies, timedOut>>
  BY DEF PeerOperation
<1>5. \A i \in DOMAIN answers' : i \in Nat /\ i + 1 # 1 /\ i + 1 \in DOMAIN answers /\ answers'[i] = answers[i + 1]
  BY <1>2, <1>4
<1>6. /\ peer' \notin {"LOST", "FAILED"} => peer \notin {"LOST", "FAILED"}
      /\ peer' \in {"NONE", "CONNECTING"} => peer \in {"NONE", "CONNECTING"}
  BY DEF PeerOperation
<1>7. \/ UNCHANGED <<teleports, told>>
      \/ /\ IsCreate(copy) /\ peer = "AUTHENTICATED" /\ copy.of \in DOMAIN teleports
         /\ teleports' = [x \in DOMAIN teleports \ {copy.of} |-> teleports[x]]
         /\ \/ told' = told
            \/ told' = told \cup {[copy |-> copy, key |-> teleports[copy.of]]}
  BY DEF PeerOperation, TeleportResponse, IsCreate
<1> HIDE DEF copy
<1>8. ASSUME peer \notin {"LOST", "FAILED"}, ~ timedOut
      PROVE  (Recorded(sent) /\ Recorded(answers) /\ Distinct(sent) /\ Distinct(answers) /\ Apart)'
  <2>1. Recorded(sent) /\ Recorded(answers) /\ Distinct(sent) /\ Distinct(answers) /\ Apart
    BY <1>8 DEF FollowInv, OneRequest
  <2>2. Distinct(sent)' /\ Distinct(answers)' /\ Apart'
    <3>1. Distinct(sent)'
      BY <2>1, <1>4 DEF Distinct
    <3>2. Distinct(answers)'
      BY <2>1, <1>5 DEF Distinct
    <3>3. Apart'
      BY <2>1, <1>4, <1>5 DEF Apart
    <3> QED
      BY <3>1, <3>2, <3>3
  <2>3. Recorded(sent)'
    BY <2>1, <1>3, <1>4, <1>7 DEF Recorded, Apart
  <2>4. Recorded(answers)'
    <3> SUFFICES ASSUME NEW i \in DOMAIN answers', IsCreate(answers'[i])
                 PROVE  answers'[i].of \in DOMAIN teleports' /\ answers'[i].key = teleports'[answers'[i].of]
      BY DEF Recorded
    <3>1. answers'[i].of \in DOMAIN teleports /\ answers'[i].key = teleports[answers'[i].of]
      BY <2>1, <1>5 DEF Recorded
    <3>2. IsCreate(copy) => answers'[i].of # copy.of
      BY <2>1, <1>3, <1>5 DEF Distinct
    <3> QED
      BY <3>1, <3>2, <1>7
  <2> QED
    BY <2>2, <2>3, <2>4
<1>9. KeyOfThatCopy'
  <2> SUFFICES ASSUME ~ timedOut, NEW t \in told', t \notin told
               PROVE  t.key = t.copy.key
    BY <1>4 DEF FollowInv, KeyOfThatCopy
  <2>1. /\ IsCreate(copy) /\ peer = "AUTHENTICATED"
        /\ t = [copy |-> copy, key |-> teleports[copy.of]]
    BY <1>7
  <2>2. copy.key = teleports[copy.of]
    BY <2>1, <1>3 DEF FollowInv, OneRequest, Recorded
  <2> QED
    BY <2>1, <2>2
<1>10. GivenUpLast'
  BY <1>4, <1>6 DEF FollowInv, GivenUpLast
<1> QED
  BY <1>1, <1>4, <1>6, <1>8, <1>9, <1>10 DEF FollowInv, OneRequest

\* No step breaks the second invariant either.
LEMMA FollowStep ==
    ASSUME FollowInv, [TeleportNext]_teleportVars
    PROVE  FollowInv'
<1> USE DEF worldVars, wireVars, exportVars
<1>0. LostInv'
  BY LostStep DEF FollowInv
<1>1. CASE UNCHANGED teleportVars
  BY <1>0, <1>1 DEF teleportVars, FollowInv, OneRequest, Recorded, Distinct, Apart, GivenUpLast, KeyOfThatCopy
<1>2. CASE ConnectJuncture \/ SocketConnected \/ SocketFailed
  <2>1. /\ peer \in {"NONE", "CONNECTING"}
        /\ UNCHANGED <<teleports, sent, answers, copies, told, timedOut>>
    BY <1>2 DEF ConnectJuncture, SocketConnected, SocketFailed
  <2> QED
    BY <1>0, <2>1 DEF FollowInv, OneRequest, Recorded, Distinct, Apart, GivenUpLast, KeyOfThatCopy
<1>3. CASE LoginToPeer
  <2>1. /\ peer \notin {"LOST", "FAILED"} /\ peer' \notin {"NONE", "CONNECTING"}
        /\ sent' = Append(sent, LoginMessage) /\ sent \in Seq(Message)
        /\ UNCHANGED <<authTimer, teleports, answers, copies, told, timedOut>>
    BY <1>3 DEF LoginToPeer, FollowInv, LostInv, WireOK
  <2>2. LoginMessage \in Message /\ ~ IsCreate(LoginMessage)
    BY DEF LoginMessage, Message, IsCreate
  <2>3. \A i \in DOMAIN sent' : ~ IsCreate(sent'[i]) \/ (i \in DOMAIN sent /\ sent'[i] = sent[i])
    BY <2>1, <2>2, AppendedMessage
  <2>4. OneRequest'
    BY <2>1, <2>3 DEF FollowInv, OneRequest, Recorded, Distinct, Apart
  <2> QED
    BY <1>0, <2>1, <2>4 DEF FollowInv, GivenUpLast, KeyOfThatCopy
<1>4. CASE CheckAuth
  <2>1. ~ timedOut /\ UNCHANGED <<sent, answers, copies, told>> /\ authTimer' = FALSE
    BY <1>4 DEF CheckAuth, FollowInv, GivenUpLast
  <2>2. CASE peer' = "LOST" /\ UNCHANGED timedOut
    BY <1>0, <2>1, <2>2 DEF FollowInv, OneRequest, GivenUpLast, KeyOfThatCopy
  <2>3. CASE /\ peer = "AUTHENTICATED" /\ UNCHANGED peer
             /\ \E old \in SUBSET DOMAIN teleports :
                   /\ teleports' = [x \in DOMAIN teleports \ old |-> teleports[x]]
                   /\ timedOut' = (old # {})
    <3>1. PICK old \in SUBSET DOMAIN teleports :
                   /\ teleports' = [x \in DOMAIN teleports \ old |-> teleports[x]]
                   /\ timedOut' = (old # {})
      BY <2>3
    <3>2. timedOut' \in BOOLEAN
      BY <3>1
    <3>3. OneRequest'
      <4> SUFFICES ASSUME ~ timedOut'
                   PROVE  (Recorded(sent) /\ Recorded(answers) /\ Distinct(sent) /\ Distinct(answers) /\ Apart)'
        BY DEF OneRequest
      <4>1. \A x \in DOMAIN teleports : x \in DOMAIN teleports' /\ teleports'[x] = teleports[x]
        BY <3>1
      <4> QED
        BY <2>1, <2>3, <4>1 DEF FollowInv, OneRequest, Recorded, Distinct, Apart
    <3>4. GivenUpLast'
      BY <2>1, <2>3, <3>2 DEF GivenUpLast
    <3>5. KeyOfThatCopy'
      BY <2>1 DEF FollowInv, KeyOfThatCopy
    <3> QED
      BY <1>0, <3>3, <3>4, <3>5 DEF FollowInv
  <2> QED
    BY <1>4, <2>2, <2>3 DEF CheckAuth
<1>5. CASE PeerLost
  <2>1. peer' = "LOST" /\ authTimer' = FALSE /\ UNCHANGED <<copies, told, timedOut>>
    BY <1>5 DEF PeerLost
  <2> QED
    BY <1>0, <2>1 DEF FollowInv, OneRequest, GivenUpLast, KeyOfThatCopy
<1>6. ASSUME NEW e \in Travellers, Vanish(e) \/ MindChange(e)
      PROVE  FollowInv'
  <2>1. UNCHANGED <<peer, authTimer, teleports, sent, answers, copies, told, timedOut>>
    BY <1>6 DEF Vanish, MindChange
  <2> QED
    BY <1>0, <2>1 DEF FollowInv, OneRequest, Recorded, Distinct, Apart, GivenUpLast, KeyOfThatCopy
<1> QED
  BY <1>1, <1>2, <1>3, <1>4, <1>5, <1>6, SendFollows, PeerFollows, ResponseFollows
  DEF TeleportNext, PeerStep

\* The key that peerTeleportResponse() tells the minds is the one that was sent with the
\* Create operation that is answered, unless cleanTeleports() has given a teleport up
\* before: for any number of entities and requests.
THEOREM KeysBelongToCopies == TeleportSpec => []KeyOfThatCopy
<1>1. TeleportInit => FollowInv
  <2> SUFFICES ASSUME TeleportInit
               PROVE  FollowInv
    OBVIOUS
  <2>1. LostInv
    BY DEF TeleportInit, LostInv, WireOK, AnswersHonest, NoTravellerLost
  <2>2. DOMAIN sent = {} /\ DOMAIN answers = {}
    BY DEF TeleportInit
  <2>3. OneRequest
    BY <2>2 DEF OneRequest, Recorded, Distinct, Apart
  <2>4. GivenUpLast /\ KeyOfThatCopy
    BY DEF TeleportInit, GivenUpLast, KeyOfThatCopy
  <2> QED
    BY <2>1, <2>3, <2>4 DEF FollowInv
<1>2. FollowInv /\ [TeleportNext]_teleportVars => FollowInv'
  BY FollowStep
<1>3. FollowInv => KeyOfThatCopy
  BY DEF FollowInv
<1> QED
  BY <1>1, <1>2, <1>3, PTL DEF TeleportSpec

-----------------------------------------------------------------------------
(* Least and greatest numbers. *)

\* A set of natural numbers has a least one.
LEMMA LeastNumber ==
    ASSUME NEW T, T \subseteq Nat, T # {}
    PROVE  \E x \in T : \A y \in T : x <= y
<1>1. IsWellFoundedOn(OpToRel(<, Nat), Nat)
  BY NatLessThanWellFounded
<1>2. PICK x \in T : \A y \in T : ~ (<<y, x>> \in OpToRel(<, Nat))
  BY <1>1, WFMin, Zenon
<1>3. \A y \in T : ~ (y < x)
  BY <1>2 DEF OpToRel
<1>4. x \in Nat /\ \A y \in T : y \in Nat
  BY <1>2
<1>5. \A y \in T : x <= y
  BY <1>3, <1>4
<1> QED
  BY <1>2, <1>5

\* What Max() gives of a set of numbers up to some bound is in it and is its greatest one.
LEMMA GreatestNumber ==
    ASSUME NEW b \in Nat, NEW T, T \subseteq 1 .. b, T # {}
    PROVE  Max(T) \in T /\ \A y \in T : Max(T) >= y
<1>1. PICK U : U = {b - x : x \in T}
  OBVIOUS
<1>2. U \subseteq Nat /\ U # {}
  <2>1. \A x \in T : b - x \in Nat
    OBVIOUS
  <2> QED
    BY <1>1, <2>1
<1>3. PICK u \in U : \A v \in U : u <= v
  BY <1>2, LeastNumber
<1>4. PICK x \in T : u = b - x
  BY <1>1, <1>3
<1>5. ASSUME NEW y \in T PROVE x >= y
  <2>1. b - y \in U /\ u <= b - y
    BY <1>1, <1>3
  <2> QED
    BY <1>4, <2>1
<1> QED
  BY <1>4, <1>5 DEF Max

-----------------------------------------------------------------------------
(* The walk of the importer *)

Frame == [obj : Persisted, child : Nat, restored : {"none", "old", "new"}]

\* The entities on the stack.
Stacked(stack) == {stack[i].obj : i \in DOMAIN stack}

\* Each frame is that of the child its parent's frame has reached.
PathInv(stack) ==
    /\ stack \in Seq(Frame)
    /\ stack # <<>> => stack[1].obj = Root
    /\ \A i \in DOMAIN stack : stack[i].child \in 0 .. Len(Children[stack[i].obj])
    /\ \A i, j \in DOMAIN stack : stack[i].obj = stack[j].obj => i = j
    /\ \A i \in DOMAIN stack : i + 1 \in DOMAIN stack =>
          /\ stack[i].child \in DOMAIN Children[stack[i].obj]
          /\ stack[i + 1].obj = Children[stack[i].obj][stack[i].child]

\* Of a frame's entity the children up to the one reached were met, and no others; only
\* the last of them may be on the stack.
FrameInv(stack, met, i) ==
    \A k \in DOMAIN Children[stack[i].obj] :
        /\ k <= stack[i].child =>
              /\ Children[stack[i].obj][k] \in met
              /\ Children[stack[i].obj][k] \in Stacked(stack) => k = stack[i].child /\ i + 1 \in DOMAIN stack
        /\ k > stack[i].child => Children[stack[i].obj][k] \notin met

\* The entities met so far: with one that is not on the stack any more all its children
\* were, and with a child its parent was.
WalkInv(stack, met) ==
    /\ PathInv(stack)
    /\ met \subseteq Persisted /\ Root \in met /\ Stacked(stack) \subseteq met
    /\ \A x \in met \ Stacked(stack) : \A k \in DOMAIN Children[x] : Children[x][k] \in met \ Stacked(stack)
    /\ \A x \in Persisted : \A k \in DOMAIN Children[x] : Children[x][k] \in met => x \in met
    /\ \A i \in DOMAIN stack : FrameInv(stack, met, i)

\* What the dump being a tree says of the children of an entity.
LEMMA TreeIs ==
    /\ Root \in Persisted
    /\ \A o \in Persisted : Children[o] \in Seq(Persisted \ {Root}) /\ DOMAIN Children[o] = 1 .. Len(Children[o]) /\ Len(Children[o]) \in Nat
    /\ \A o \in Persisted : \A i \in DOMAIN Children[o] : Children[o][i] \in Persisted /\ Children[o][i] # Root
    /\ \A o, p \in Persisted : \A i \in DOMAIN Children[o], j \in DOMAIN Children[p] :
          Children[o][i] = Children[p][j] => o = p /\ i = j
<1>1. \A o \in Persisted : Children[o] \in Seq(Persisted \ {Root})
  BY ImporterAssumption
<1>2. ASSUME NEW o \in Persisted
      PROVE  /\ DOMAIN Children[o] = 1 .. Len(Children[o]) /\ Len(Children[o]) \in Nat
             /\ \A i \in DOMAIN Children[o] : Children[o][i] \in Persisted /\ Children[o][i] # Root
  BY <1>1
<1> QED
  BY <1>1, <1>2, ImporterAssumption

\* When nothing is on the stack, everything was met.
LEMMA AllMet ==
    ASSUME NEW met, WalkInv(<<>>, met)
    PROVE  met = Persisted
<1>1. Stacked(<<>>) = {}
  BY DEF Stacked
<1>2. \A x \in met : Range(Children[x]) \subseteq met
  BY <1>1, TreeIs DEF WalkInv, Range
<1> QED
  BY <1>2, ImporterAssumption DEF WalkInv

\* The walk does not look at the ids.
LEMMA SameWalk ==
    ASSUME NEW stack, NEW met, WalkInv(stack, met), NEW other \in Seq(Frame), DOMAIN other = DOMAIN stack,
           \A i \in DOMAIN stack : other[i].obj = stack[i].obj /\ other[i].child = stack[i].child
    PROVE  WalkInv(other, met)
<1>1. Stacked(other) = Stacked(stack)
  BY DEF Stacked
<1>2. stack \in Seq(Frame)
  BY DEF WalkInv, PathInv
<1>3. PathInv(other)
  <2>1. other # <<>> => other[1].obj = Root
    BY <1>2 DEF WalkInv, PathInv
  <2> QED
    BY <2>1 DEF WalkInv, PathInv
<1>4. \A i \in DOMAIN other : FrameInv(other, met, i)
  BY <1>1 DEF WalkInv, FrameInv
<1> QED
  BY <1>1, <1>3, <1>4 DEF WalkInv

\* Frames of which all children were met are left.
LEMMA LeftKeeps ==
    ASSUME NEW stack, NEW met, WalkInv(stack, met), NEW m \in 0 .. Len(stack),
           \A i \in DOMAIN stack : i > m => stack[i].child = Len(Children[stack[i].obj])
    PROVE  WalkInv(SubSeq(stack, 1, m), met)
<1>1. PICK rest : rest = SubSeq(stack, 1, m)
  OBVIOUS
<1>2. PathInv(stack) /\ stack \in Seq(Frame)
  BY DEF WalkInv, PathInv
<1>3. /\ rest \in Seq(Frame) /\ Len(rest) = m /\ DOMAIN rest = 1 .. m
      /\ \A i \in 1 .. m : i \in DOMAIN stack /\ rest[i] = stack[i]
  BY <1>1, <1>2
<1>4. DOMAIN stack = 1 .. Len(stack) /\ Len(stack) \in Nat /\ m \in Nat /\ m <= Len(stack)
  BY <1>2
<1>5. Stacked(rest) \subseteq Stacked(stack)
  BY <1>3 DEF Stacked
<1>6. PathInv(rest)
  <2>1. rest # <<>> => rest[1].obj = Root
    <3> SUFFICES ASSUME rest # <<>> PROVE rest[1].obj = Root
      OBVIOUS
    <3>1. 1 \in 1 .. m /\ stack # <<>>
      BY <1>2, <1>3, <1>4
    <3> QED
      BY <1>2, <1>3, <3>1 DEF PathInv
  <2>2. ASSUME NEW i \in DOMAIN rest, i + 1 \in DOMAIN rest
        PROVE  /\ rest[i].child \in DOMAIN Children[rest[i].obj]
               /\ rest[i + 1].obj = Children[rest[i].obj][rest[i].child]
    <3>1. i \in DOMAIN stack /\ i + 1 \in DOMAIN stack /\ rest[i] = stack[i] /\ rest[i + 1] = stack[i + 1]
      BY <1>3, <2>2
    <3> QED
      BY <1>2, <3>1 DEF PathInv
  <2>3. \A i \in DOMAIN rest : i \in DOMAIN stack /\ rest[i] = stack[i]
    BY <1>3
  <2> QED
    BY <1>2, <1>3, <2>1, <2>2, <2>3 DEF PathInv
<1>7. ASSUME NEW x \in met \ Stacked(rest), NEW k \in DOMAIN Children[x]
      PROVE  Children[x][k] \in met \ Stacked(rest)
  <2>1. CASE x \notin Stacked(stack)
    BY <1>5, <2>1 DEF WalkInv
  <2>2. CASE x \in Stacked(stack)
    <3>1. PICK i \in DOMAIN stack : x = stack[i].obj
      BY <2>2 DEF Stacked
    <3>2. i \notin 1 .. m
      BY <1>3, <3>1 DEF Stacked
    <3>3. i > m /\ stack[i].child = Len(Children[x])
      BY <1>4, <3>1, <3>2
    <3>4. x \in Persisted
      BY DEF WalkInv
    <3>5. k <= stack[i].child
      BY <3>3, <3>4, TreeIs
    <3>6. /\ Children[x][k] \in met
          /\ Children[x][k] \in Stacked(stack) => k = stack[i].child /\ i + 1 \in DOMAIN stack
      BY <3>1, <3>5 DEF WalkInv, FrameInv
    <3>7. ASSUME Children[x][k] \in Stacked(rest) PROVE FALSE
      <4>1. k = stack[i].child /\ i + 1 \in DOMAIN stack
        BY <1>5, <3>6, <3>7
      <4>2. Children[x][k] = stack[i + 1].obj
        BY <1>2, <3>1, <4>1 DEF PathInv
      <4>3. PICK j \in 1 .. m : Children[x][k] = stack[j].obj /\ j \in DOMAIN stack
        BY <1>3, <3>7 DEF Stacked
      <4>4. j = i + 1
        BY <1>2, <4>1, <4>2, <4>3 DEF PathInv
      <4> QED
        BY <1>4, <3>3, <4>3, <4>4
    <3> QED
      BY <3>6, <3>7
  <2> QED
    BY <2>1, <2>2
<1>8. ASSUME NEW i \in DOMAIN rest PROVE FrameInv(rest, met, i)
  <2>1. i \in DOMAIN stack /\ rest[i] = stack[i] /\ FrameInv(stack, met, i) /\ i \in 1 .. m
    BY <1>3 DEF WalkInv
  <2>2. ASSUME NEW k \in DOMAIN Children[stack[i].obj], k <= stack[i].child,
               Children[stack[i].obj][k] \in Stacked(rest)
        PROVE  k = stack[i].child /\ i + 1 \in DOMAIN rest
    <3>1. k = stack[i].child /\ i + 1 \in DOMAIN stack
      BY <1>5, <2>1, <2>2 DEF FrameInv
    <3>2. stack[i + 1].obj = Children[stack[i].obj][k]
      BY <1>2, <2>1, <3>1 DEF PathInv
    <3>3. PICK j \in 1 .. m : j \in DOMAIN stack /\ Children[stack[i].obj][k] = stack[j].obj
      BY <1>3, <2>2 DEF Stacked
    <3>4. j = i + 1
      BY <1>2, <3>1, <3>2, <3>3 DEF PathInv
    <3> QED
      BY <1>3, <3>1, <3>3, <3>4
  <2> QED
    BY <2>1, <2>2 DEF FrameInv
<1>9. Stacked(rest) \subseteq met
  BY <1>5 DEF WalkInv
<1> QED
  BY <1>1, <1>6, <1>7, <1>8, <1>9 DEF WalkInv

\* The frame on top of the stack goes on by one child; its entity gets its id.
Onward(stack) == [stack EXCEPT ![Len(stack)].child = @ + 1]
WithId(stack, id) == [stack EXCEPT ![Len(stack)].restored = id]

\* A frame goes on by one child.
LEMMA NextChildFrame ==
    ASSUME NEW f \in Frame, NEW g, g = [f EXCEPT !.child = f.child + 1]
    PROVE  g \in Frame /\ g.obj = f.obj /\ g.restored = f.restored /\ g.child = f.child + 1
<1>1. f.obj \in Persisted /\ f.child \in Nat /\ f.restored \in {"none", "old", "new"}
  BY DEF Frame
<1>2. g = [obj |-> f.obj, child |-> f.child + 1, restored |-> f.restored]
  BY DEF Frame
<1> QED
  BY <1>1, <1>2 DEF Frame

\* The frame of the last entity goes on by one child.
LEMMA OnwardFrames ==
    ASSUME NEW stack \in Seq(Frame), Len(stack) > 0
    PROVE  /\ Onward(stack) \in Seq(Frame) /\ Len(Onward(stack)) = Len(stack)
           /\ DOMAIN Onward(stack) = 1 .. Len(stack)
           /\ \A i \in 1 .. Len(stack) :
                 /\ Onward(stack)[i].obj = stack[i].obj /\ Onward(stack)[i].restored = stack[i].restored
                 /\ Onward(stack)[i].child = IF i = Len(stack) THEN stack[i].child + 1 ELSE stack[i].child
<1>0. PICK n, on : n = Len(stack) /\ on = Onward(stack)
  OBVIOUS
<1>1. n \in Nat /\ n \in 1 .. n /\ DOMAIN stack = 1 .. n /\ stack[n] \in Frame
  BY <1>0
<1>2. PICK f : f = [stack[n] EXCEPT !.child = stack[n].child + 1]
  OBVIOUS
<1>3. on = [stack EXCEPT ![n] = f]
  BY <1>0, <1>2 DEF Onward
<1>4. f \in Frame /\ f.obj = stack[n].obj /\ f.restored = stack[n].restored /\ f.child = stack[n].child + 1
  BY <1>1, <1>2, NextChildFrame
<1>5. on \in Seq(Frame) /\ Len(on) = n /\ DOMAIN on = 1 .. n /\ on[n] = f /\ \A i \in 1 .. n : i # n => on[i] = stack[i]
  BY <1>0, <1>1, <1>3, <1>4
<1> QED
  BY <1>0, <1>4, <1>5

\* The entity on top of the stack gets its id.
LEMMA RestoredFrames ==
    ASSUME NEW stack \in Seq(Frame), NEW n \in Nat, n = Len(stack), n > 0, NEW id \in {"none", "old", "new"},
           NEW other, other = WithId(stack, id)
    PROVE  /\ other \in Seq(Frame) /\ Len(other) = n /\ DOMAIN other = 1 .. n /\ DOMAIN stack = 1 .. n
           /\ other[n].restored = id
           /\ \A i \in 1 .. n : /\ other[i].obj = stack[i].obj /\ other[i].child = stack[i].child
                                /\ i # n => other[i].restored = stack[i].restored
<1>1. n \in 1 .. n /\ DOMAIN stack = 1 .. n /\ stack[n] \in Frame
  OBVIOUS
<1>2. PICK f : f = [stack[n] EXCEPT !.restored = id]
  OBVIOUS
<1>3. other = [stack EXCEPT ![n] = f]
  BY <1>2 DEF WithId
<1>4. f = [obj |-> stack[n].obj, child |-> stack[n].child, restored |-> id]
  BY <1>1, <1>2 DEF Frame
<1>5. f \in Frame /\ f.obj = stack[n].obj /\ f.child = stack[n].child /\ f.restored = id
  BY <1>1, <1>4 DEF Frame
<1>6. other \in Seq(Frame) /\ Len(other) = n /\ other[n] = f /\ \A i \in 1 .. n : i # n => other[i] = stack[i]
  BY <1>1, <1>3, <1>5
<1> QED
  BY <1>1, <1>5, <1>6

\* The walk goes on to the next child of the last frame.
Pushed(stack, more) ==
    LET n == Len(stack)
        p == stack[n].obj
        c == stack[n].child
    IN  /\ n > 0 /\ c < Len(Children[p])
        /\ more \in Seq(Frame) /\ Len(more) = n + 1
        /\ more[n + 1].obj = Children[p][c + 1] /\ more[n + 1].child = 0 /\ more[n].child = c + 1
        /\ \A i \in 1 .. n : more[i].obj = stack[i].obj /\ (i # n => more[i].child = stack[i].child)

\* That child was not met before.
LEMMA NextKeeps ==
    ASSUME NEW stack, NEW met, WalkInv(stack, met), NEW more, Pushed(stack, more)
    PROVE  /\ WalkInv(more, met \cup {more[Len(more)].obj}) /\ more[Len(more)].obj \notin met
           /\ more[Len(more)].obj \in Range(Children[stack[Len(stack)].obj])
<1>0. PICK n, p, c, next :
         /\ n \in Nat /\ n = Len(stack) /\ n > 0 /\ p = stack[n].obj /\ c = stack[n].child /\ c < Len(Children[p])
         /\ next = Children[p][c + 1]
         /\ more \in Seq(Frame) /\ Len(more) = n + 1 /\ more[n + 1].obj = next /\ more[n + 1].child = 0
         /\ more[n].child = c + 1
         /\ \A i \in 1 .. n : more[i].obj = stack[i].obj /\ (i # n => more[i].child = stack[i].child)
  BY DEF Pushed, WalkInv, PathInv
<1> USE <1>0
<1>1. PathInv(stack) /\ stack \in Seq(Frame) /\ DOMAIN stack = 1 .. n /\ DOMAIN more = 1 .. (n + 1)
  BY DEF WalkInv, PathInv
<1>2. n \in DOMAIN stack /\ stack[n] \in Frame
  BY <1>1
<1>4. p \in Persisted /\ c \in Nat /\ c + 1 \in DOMAIN Children[p]
  <2>1. p \in Persisted /\ c \in Nat
    BY <1>2 DEF Frame
  <2> QED
    BY <2>1, TreeIs
<1>6. next \in Persisted /\ next # Root /\ next \in Range(Children[p])
  BY <1>4, TreeIs DEF Range
<1>7. next \notin met
  <2>1. FrameInv(stack, met, n) /\ c + 1 > c
    BY <1>2, <1>4 DEF WalkInv
  <2> QED
    BY <1>4, <1>6, <2>1 DEF FrameInv
<1>11. Stacked(more) = Stacked(stack) \cup {next}
  <2>1. ASSUME NEW x \in Stacked(more) PROVE x \in Stacked(stack) \cup {next}
    <3>1. PICK i \in 1 .. (n + 1) : x = more[i].obj
      BY <1>1 DEF Stacked
    <3>2. i \in 1 .. n \/ i = n + 1
      OBVIOUS
    <3> QED
      BY <1>1, <3>1, <3>2 DEF Stacked
  <2>2. ASSUME NEW x \in Stacked(stack) PROVE x \in Stacked(more)
    <3>1. PICK i \in 1 .. n : x = stack[i].obj
      BY <1>1 DEF Stacked
    <3>2. i \in 1 .. (n + 1) /\ more[i].obj = x
      BY <3>1
    <3> QED
      BY <1>1, <3>2 DEF Stacked
  <2>3. next \in Stacked(more)
    <3>1. n + 1 \in DOMAIN more
      BY <1>1
    <3> QED
      BY <3>1 DEF Stacked
  <2> QED
    BY <2>1, <2>2, <2>3
<1>12. next \notin Stacked(stack) /\ Stacked(stack) \subseteq met /\ p \in met
  <2>1. Stacked(stack) \subseteq met /\ p \in Stacked(stack)
    BY <1>2 DEF WalkInv, Stacked
  <2> QED
    BY <1>7, <2>1
<1>13. PathInv(more)
  <2>1. more[1].obj = Root
    BY <1>1, <1>2 DEF PathInv
  <2>2. ASSUME NEW i \in 1 .. (n + 1) PROVE more[i].child \in 0 .. Len(Children[more[i].obj])
    <3>1. CASE i = n + 1
      BY <1>6, <3>1, TreeIs
    <3>2. CASE i = n
      <4>1. more[i].child = c + 1 /\ more[i].obj = p
        BY <3>2
      <4> QED
        BY <1>4, <4>1, TreeIs
    <3>3. CASE i \in 1 .. n /\ i # n
      BY <1>1, <3>3 DEF PathInv
    <3> QED
      BY <3>1, <3>2, <3>3
  <2>3. ASSUME NEW i \in 1 .. (n + 1), NEW j \in 1 .. (n + 1), more[i].obj = more[j].obj PROVE i = j
    <3>1. CASE i \in 1 .. n /\ j \in 1 .. n
      BY <1>1, <2>3, <3>1 DEF PathInv
    <3>2. CASE i = n + 1 /\ j \in 1 .. n
      BY <1>1, <1>12, <2>3, <3>2 DEF Stacked
    <3>3. CASE i \in 1 .. n /\ j = n + 1
      BY <1>1, <1>12, <2>3, <3>3 DEF Stacked
    <3>4. CASE i = n + 1 /\ j = n + 1
      BY <3>4
    <3> QED
      BY <3>1, <3>2, <3>3, <3>4
  <2>4. ASSUME NEW i \in 1 .. (n + 1), i + 1 \in 1 .. (n + 1)
        PROVE  /\ more[i].child \in DOMAIN Children[more[i].obj]
               /\ more[i + 1].obj = Children[more[i].obj][more[i].child]
    <3>1. CASE i = n
      <4>1. more[i].child = c + 1 /\ more[i].obj = p /\ more[i + 1].obj = next
        BY <3>1
      <4> QED
        BY <1>4, <1>6, <4>1
    <3>2. CASE i # n
      <4>1. i \in 1 .. n /\ i + 1 \in 1 .. n
        BY <2>4, <3>2
      <4>2. more[i].obj = stack[i].obj /\ more[i].child = stack[i].child /\ more[i + 1].obj = stack[i + 1].obj
        BY <3>2, <4>1
      <4> QED
        BY <1>1, <4>1, <4>2 DEF PathInv
    <3> QED
      BY <3>1, <3>2
  <2> QED
    BY <1>1, <2>1, <2>2, <2>3, <2>4 DEF PathInv
<1>14. ASSUME NEW x \in (met \cup {next}) \ Stacked(more), NEW k \in DOMAIN Children[x]
       PROVE  Children[x][k] \in (met \cup {next}) \ Stacked(more)
  <2>1. x \in met \ Stacked(stack)
    BY <1>11
  <2>2. Children[x][k] \in met \ Stacked(stack)
    BY <2>1 DEF WalkInv
  <2> QED
    BY <1>7, <1>11, <2>2
<1>15. ASSUME NEW x \in Persisted, NEW k \in DOMAIN Children[x], Children[x][k] \in met \cup {next}
       PROVE  x \in met \cup {next}
  <2>1. CASE Children[x][k] \in met
    BY <2>1 DEF WalkInv
  <2>2. CASE Children[x][k] = next
    <3>1. x = p
      BY <1>4, <1>6, <2>2, TreeIs
    <3> QED
      BY <1>12, <3>1
  <2> QED
    BY <1>15, <2>1, <2>2
<1>16. ASSUME NEW i \in 1 .. (n + 1) PROVE FrameInv(more, met \cup {next}, i)
  <2>1. CASE i = n + 1
    <3>1. more[i].obj = next /\ more[i].child = 0
      BY <2>1
    <3>2. ASSUME NEW k \in DOMAIN Children[next] PROVE ~(k <= 0) /\ Children[next][k] \notin met \cup {next}
      <4>1. ~(k <= 0)
        BY <1>6, TreeIs
      <4>2. Children[next][k] \notin met
        BY <1>6, <1>7 DEF WalkInv
      <4>3. Children[next][k] # next
        <5>1. ASSUME Children[next][k] = Children[p][c + 1] PROVE next = p
          BY <1>4, <1>6, <5>1, TreeIs
        <5> QED
          BY <1>6, <1>7, <1>12, <5>1
      <4> QED
        BY <4>1, <4>2, <4>3
    <3> QED
      BY <3>1, <3>2 DEF FrameInv
  <2>2. CASE i = n
    <3>1. more[i].obj = p /\ more[i].child = c + 1
      BY <2>2
    <3>2. i + 1 \in DOMAIN more
      BY <1>1, <2>2
    <3>3. ASSUME NEW k \in DOMAIN Children[p]
          PROVE  /\ k <= c + 1 => /\ Children[p][k] \in met \cup {next}
                                  /\ Children[p][k] \in Stacked(more) => k = c + 1
                 /\ k > c + 1 => Children[p][k] \notin met \cup {next}
      <4>1. k \in Nat
        BY <1>4, TreeIs
      <4>2. Children[p][k] = next <=> k = c + 1
        BY <1>4, <1>6, TreeIs
      <4>3. k <= c => Children[p][k] \in met /\ Children[p][k] \notin Stacked(stack)
        <5>1. n + 1 \notin DOMAIN stack
          BY <1>1
        <5> QED
          BY <1>2, <5>1 DEF WalkInv, FrameInv
      <4>4. k > c => Children[p][k] \notin met
        BY <1>2 DEF WalkInv, FrameInv
      <4>5. k <= c \/ k = c + 1 \/ k > c + 1
        BY <1>4, <4>1
      <4>6. k > c + 1 => k > c /\ k # c + 1
        BY <1>4, <4>1
      <4>7. k <= c + 1 => k <= c \/ k = c + 1
        BY <1>4, <4>1
      <4>8. Children[p][k] \in Stacked(more) => Children[p][k] \in Stacked(stack) \/ Children[p][k] = next
        BY <1>11
      <4> QED
        BY <4>2, <4>3, <4>4, <4>6, <4>7, <4>8
    <3> QED
      BY <3>1, <3>2, <3>3 DEF FrameInv
  <2>3. CASE i \in 1 .. n /\ i # n
    <3>1. more[i].obj = stack[i].obj /\ more[i].child = stack[i].child /\ i \in DOMAIN stack /\ i + 1 \in DOMAIN more
      BY <1>1, <2>3
    <3>2. PICK q, d : q = stack[i].obj /\ d = stack[i].child
      OBVIOUS
    <3>3. q \in Persisted /\ q # p
      <4>1. stack[i] \in Frame
        BY <1>1, <3>1
      <4>2. q # p
        BY <1>1, <1>2, <2>3, <3>1, <3>2 DEF PathInv
      <4> QED
        BY <3>2, <4>1, <4>2 DEF Frame
    <3>4. \A k \in DOMAIN Children[q] : Children[q][k] # next
      BY <1>4, <1>6, <3>3, TreeIs
    <3>5. FrameInv(stack, met, i)
      BY <3>1 DEF WalkInv
    <3>6. ASSUME NEW k \in DOMAIN Children[q]
          PROVE  /\ k <= d => /\ Children[q][k] \in met \cup {next}
                              /\ Children[q][k] \in Stacked(more) => k = d
                 /\ k > d => Children[q][k] \notin met \cup {next}
      BY <1>11, <3>2, <3>4, <3>5 DEF FrameInv
    <3> QED
      BY <3>1, <3>2, <3>6 DEF FrameInv
  <2> QED
    BY <2>1, <2>2, <2>3
<1>17. met \cup {next} \subseteq Persisted /\ Root \in met \cup {next} /\ Stacked(more) \subseteq met \cup {next}
  BY <1>6, <1>11 DEF WalkInv
<1>18. WalkInv(more, met \cup {next})
  BY <1>1, <1>13, <1>14, <1>15, <1>16, <1>17 DEF WalkInv
<1> QED
  BY <1>6, <1>7, <1>18

\* Where walkEntities() stops to go on: at the deepest frame that has a child left.
LEMMA WalkToIs ==
    ASSUME NEW stack, NEW met, WalkInv(stack, met)
    PROVE  \E m \in 0 .. Len(stack) :
              /\ WalkTo(stack) = SubSeq(stack, 1, m)
              /\ WalkTo(stack) \in Seq(Frame) /\ Len(WalkTo(stack)) = m
              /\ \A i \in 1 .. m : i \in DOMAIN stack /\ WalkTo(stack)[i] = stack[i]
              /\ m > 0 => stack[m].child < Len(Children[stack[m].obj])
              /\ WalkInv(WalkTo(stack), met)
<1>1. stack \in Seq(Frame) /\ Len(stack) \in Nat /\ DOMAIN stack = 1 .. Len(stack)
  BY DEF WalkInv, PathInv
<1>2. ASSUME NEW i \in DOMAIN stack, i \notin Unfinished(stack) PROVE stack[i].child = Len(Children[stack[i].obj])
  <2>1. stack[i].child \in 0 .. Len(Children[stack[i].obj]) /\ stack[i].obj \in Persisted
    <3>1. stack[i] \in Frame
      BY <1>1
    <3>2. stack[i].child \in 0 .. Len(Children[stack[i].obj])
      BY DEF WalkInv, PathInv
    <3> QED
      BY <3>1, <3>2 DEF Frame
  <2>2. ~ (stack[i].child < Len(Children[stack[i].obj]))
    BY <1>2 DEF Unfinished
  <2> QED
    BY <2>1, <2>2, TreeIs
<1>3. PICK m \in 0 .. Len(stack) :
         /\ WalkTo(stack) = SubSeq(stack, 1, m)
         /\ \A i \in DOMAIN stack : i > m => i \notin Unfinished(stack)
         /\ m > 0 => m \in Unfinished(stack)
  <2>1. CASE Unfinished(stack) = {}
    <3>1. SubSeq(stack, 1, 0) = <<>>
      BY <1>1
    <3>2. 0 \in 0 .. Len(stack) /\ WalkTo(stack) = SubSeq(stack, 1, 0)
      BY <1>1, <2>1, <3>1 DEF WalkTo
    <3> QED
      BY <2>1, <3>2
  <2>2. CASE Unfinished(stack) # {}
    <3>1. Unfinished(stack) \subseteq 1 .. Len(stack)
      BY <1>1 DEF Unfinished
    <3>2. PICK m : m = Max(Unfinished(stack))
      OBVIOUS
    <3>3. m \in Unfinished(stack) /\ \A i \in Unfinished(stack) : m >= i
      BY <1>1, <2>2, <3>1, <3>2, GreatestNumber
    <3>4. m \in 0 .. Len(stack) /\ WalkTo(stack) = SubSeq(stack, 1, m)
      BY <1>1, <2>2, <3>1, <3>2, <3>3 DEF WalkTo
    <3>5. ASSUME NEW i \in DOMAIN stack, i > m PROVE i \notin Unfinished(stack)
      BY <1>1, <3>3, <3>4, <3>5
    <3> QED
      BY <3>3, <3>4, <3>5
  <2> QED
    BY <2>1, <2>2
<1>4. WalkInv(SubSeq(stack, 1, m), met)
  BY <1>2, <1>3, LeftKeeps
<1>5. /\ SubSeq(stack, 1, m) \in Seq(Frame) /\ Len(SubSeq(stack, 1, m)) = m
      /\ \A i \in 1 .. m : i \in DOMAIN stack /\ SubSeq(stack, 1, m)[i] = stack[i]
  BY <1>1
<1>6. m > 0 => stack[m].child < Len(Children[stack[m].obj])
  BY <1>3 DEF Unfinished
<1> QED
  BY <1>3, <1>4, <1>5, <1>6

(* The import *)

\* The entities that were, or are, to be created, and all that were asked for.
Located(loc) == {l[1] : l \in loc}
Asked(upd, loc) == upd \cup Located(loc)

\* The id an entity has on the server now.
Status(o, created, upd) ==
    CASE o \in created -> "new" [] o \in upd -> "old" [] OTHER -> "none"

\* The references from one entity.
RefersTo(refs, o) == {t \in refs : t[1] = o}

\* Each entity is created once, in its container, by the id that has.
PlacesInv(stack, created, upd, loc) ==
    /\ created \subseteq Located(loc) /\ upd \cap Located(loc) = {}
    /\ \A l, m \in loc : l[1] = m[1] => l = m
    /\ \A l \in loc : l[1] \in Range(Children[l[2]]) /\ l[3] = Status(l[2], created, upd)
    /\ \A i \in DOMAIN stack : stack[i].restored = Status(stack[i].obj, created, upd)

\* What was sent with an entity refers to created ones only; the others hold theirs back.
RefersInv(created, upd, loc, refs, left) ==
    \A o \in Persisted :
        /\ o \notin Asked(upd, loc) => RefersTo(refs, o) = {}
        /\ o \in Located(loc) \ left =>
              Refers[o] \subseteq created /\ RefersTo(refs, o) = References(o, created)
        /\ o \notin Located(loc) /\ Refers[o] # {} => o \in left

HeldBack(loc, refs, left) == \A o \in Located(loc) \cap left : RefersTo(refs, o) = {}

ImportTypes ==
    /\ alwaysCreate \in BOOLEAN
    /\ importing \in {"WALKING", "UPDATING", "CREATING", "STALLED", "REF_RESOLVING", "COMPLETED",
                      "CANCEL", "CANCELLED"}
    /\ updated \subseteq Persisted
    /\ located \subseteq Persisted \X Persisted \X {"none", "old", "new"}

\* The entity on top of the stack is the one that was asked for last.
PhaseInv ==
    /\ importing \in {"WALKING", "UPDATING", "CREATING"} =>
          /\ treeStack # <<>> /\ CurrentEntry.child = 0
          /\ \A i \in DOMAIN treeStack : i # Len(treeStack) => treeStack[i].obj \in Asked(updated, located)
    /\ importing = "WALKING" => CurrentEntry.obj \notin Asked(updated, located)
    /\ importing = "UPDATING" => CurrentEntry.obj \in Asked(updated, located)
    /\ importing = "CREATING" => CurrentEntry.obj \in Located(located) \ idMap

\* In the end each created entity with references left is sent them, and has them unless
\* the server refused them.
LastInv ==
    /\ treeStack # <<>> =>
          HeldBack(located, referred, unresolved) /\ setsInTransit = {} /\ refused = {}
    /\ treeStack = <<>> =>
          /\ setsInTransit \subseteq unresolved \cap idMap /\ refused \subseteq unresolved \ setsInTransit
          /\ \A o \in idMap \cap unresolved :
                RefersTo(referred, o) = IF o \in setsInTransit \cup refused THEN {} ELSE References(o, idMap)
    /\ importing \in {"REF_RESOLVING", "COMPLETED"} => treeStack = <<>>
    /\ importing = "COMPLETED" => setsInTransit = {}

ImportInv ==
    /\ ImportTypes
    /\ WalkInv(treeStack, Asked(updated, located) \cup Stacked(treeStack))
    /\ PlacesInv(treeStack, idMap, updated, located)
    /\ RefersInv(idMap, updated, located, referred, unresolved)
    /\ PhaseInv
    /\ LastInv

\* The invariant holds when the walk starts at the world.
LEMMA ImportStarts == ImporterInit => ImportInv
<1> SUFFICES ASSUME ImporterInit PROVE ImportInv
  OBVIOUS
<1>1. /\ treeStack = <<[obj |-> Root, child |-> 0, restored |-> "none"]>>
      /\ Root \in Persisted
  BY TreeIs DEF ImporterInit, StackEntry
<1>2. treeStack \in Seq(Frame) /\ Len(treeStack) = 1 /\ DOMAIN treeStack = {1} /\ treeStack # <<>>
      /\ treeStack[1].obj = Root /\ treeStack[1].child = 0 /\ treeStack[1].restored = "none"
  BY <1>1 DEF Frame
<1>3. Stacked(treeStack) = {Root} /\ Located(located) = {} /\ Asked(updated, located) = {}
  BY <1>2 DEF Stacked, Located, Asked, ImporterInit
<1>4. WalkInv(treeStack, {Root})
  <2>1. PathInv(treeStack)
    <3>1. 2 \notin DOMAIN treeStack /\ \A i \in DOMAIN treeStack : i = 1
      BY <1>2
    <3>2. 0 \in 0 .. Len(Children[Root])
      BY <1>1, TreeIs
    <3>3. \A i \in DOMAIN treeStack : i + 1 \notin DOMAIN treeStack
      BY <1>2
    <3> QED
      BY <1>2, <3>1, <3>2, <3>3 DEF PathInv
  <2>2. \A k \in DOMAIN Children[Root] : ~ (k <= 0) /\ Children[Root][k] # Root
    BY <1>1, TreeIs
  <2>3. FrameInv(treeStack, {Root}, 1)
    BY <1>2, <2>2 DEF FrameInv
  <2>4. \A x \in Persisted : \A k \in DOMAIN Children[x] : Children[x][k] # Root
    BY TreeIs
  <2> QED
    BY <1>1, <1>2, <1>3, <2>1, <2>3, <2>4 DEF WalkInv
<1>5. PlacesInv(treeStack, idMap, updated, located)
  BY <1>2, <1>3 DEF PlacesInv, Status, ImporterInit
<1>6. RefersInv(idMap, updated, located, referred, unresolved)
  BY <1>3 DEF RefersInv, RefersTo, ImporterInit
<1>7. PhaseInv
  BY <1>2, <1>3 DEF PhaseInv, CurrentEntry, Last, ImporterInit
<1>8. LastInv
  BY <1>3 DEF LastInv, HeldBack, ImporterInit
<1>9. ImportTypes
  BY DEF ImportTypes, ImporterInit
<1> QED
  BY <1>3, <1>4, <1>5, <1>6, <1>7, <1>8, <1>9 DEF ImportInv

\* Nothing in an entity was met before the walk goes on from it.
LEMMA NothingInside ==
    ASSUME NEW stack, NEW met, WalkInv(stack, met), stack # <<>>, Last(stack).child = 0
    PROVE  /\ Range(Children[Last(stack).obj]) \cap met = {}
           /\ Len(stack) \in DOMAIN stack /\ Last(stack) \in Frame /\ Last(stack).obj \in Stacked(stack)
           /\ \A i \in DOMAIN stack : i # Len(stack) => stack[i].obj # Last(stack).obj
<1>1. stack \in Seq(Frame) /\ Len(stack) \in DOMAIN stack /\ stack[Len(stack)] \in Frame
  BY DEF WalkInv, PathInv
<1>2. FrameInv(stack, met, Len(stack))
  BY <1>1 DEF WalkInv
<1>3. stack[Len(stack)].obj \in Persisted
  BY <1>1 DEF Frame
<1>4. \A k \in DOMAIN Children[stack[Len(stack)].obj] : k > 0
  BY <1>3, TreeIs
<1>5. Range(Children[Last(stack).obj]) \cap met = {}
  BY <1>2, <1>4 DEF FrameInv, Range, Last
<1>6. \A i \in DOMAIN stack : i # Len(stack) => stack[i].obj # Last(stack).obj
  BY <1>1 DEF WalkInv, PathInv, Last
<1> QED
  BY <1>1, <1>5, <1>6 DEF Last, Stacked

\* createEntity(), for the entity that is on top of the new stack.
LEMMA CreationKeeps ==
    ASSUME ImportTypes, NEW s \in Seq(Frame), s # <<>>, NEW o \in Persisted, NEW created,
           NEW more, more = Append(s, StackEntry(o, "none")),
           WalkInv(more, Asked(updated, located) \cup {o}), o \notin Asked(updated, located),
           \A i \in DOMAIN s : s[i].obj \in Asked(updated, located),
           o \in Range(Children[Last(s).obj]),
           PlacesInv(s, created, updated, located),
           RefersInv(created, updated, located, referred, unresolved),
           HeldBack(located, referred, unresolved), setsInTransit = {}, refused = {}, refused' = refused,
           Creation(s, o, created), idMap' = created, alwaysCreate' = alwaysCreate
    PROVE  ImportInv'
<1>1. PICK n \in Nat : n = Len(s)
  OBVIOUS
<1>2. /\ n > 0 /\ n \in DOMAIN s /\ DOMAIN s = 1 .. n /\ Last(s) = s[n] /\ s[n] \in Frame
  BY <1>1 DEF Last
<1>3. /\ StackEntry(o, "none") \in Frame /\ StackEntry(o, "none").obj = o
      /\ StackEntry(o, "none").child = 0 /\ StackEntry(o, "none").restored = "none"
  BY DEF StackEntry, Frame
<1>4. /\ more \in Seq(Frame) /\ Len(more) = n + 1 /\ DOMAIN more = 1 .. (n + 1)
      /\ more[n + 1] = StackEntry(o, "none") /\ \A i \in 1 .. n : more[i] = s[i]
  BY <1>1, <1>3
<1>5. PICK p, r : p = s[n].obj /\ r = s[n].restored
  OBVIOUS
<1>6. p \in Persisted /\ r \in {"none", "old", "new"}
  BY <1>2, <1>5 DEF Frame
<1>7. /\ importing' = "CREATING" /\ treeStack' = more /\ setsInTransit' = {} /\ updated' = updated
      /\ located' = located \cup {<<o, p, r>>}
  BY <1>2, <1>5 DEF Creation
<1>8. Located(located') = Located(located) \cup {o}
  <2>1. ASSUME NEW x \in Located(located') PROVE x \in Located(located) \cup {o}
    BY <1>7, <2>1 DEF Located
  <2>2. ASSUME NEW x \in Located(located) PROVE x \in Located(located')
    BY <1>7, <2>2 DEF Located
  <2>3. o \in Located(located')
    <3>1. <<o, p, r>> \in located' /\ <<o, p, r>>[1] = o
      BY <1>7
    <3> QED
      BY <3>1 DEF Located
  <2> QED
    BY <2>1, <2>2, <2>3
<1>9. Asked(updated', located') = Asked(updated, located) \cup {o}
  BY <1>7, <1>8 DEF Asked
<1>10. Stacked(more) \subseteq Asked(updated, located) \cup {o}
  BY DEF WalkInv
<1>11. WalkInv(treeStack', Asked(updated', located') \cup Stacked(treeStack'))
  <2>1. Asked(updated', located') \cup Stacked(treeStack') = Asked(updated, located) \cup {o}
    BY <1>7, <1>9, <1>10
  <2> QED
    BY <1>7, <2>1
<1>12. ImportTypes'
  BY <1>6, <1>7 DEF ImportTypes
<1>13. o \notin created /\ o \notin updated /\ o \notin Located(located)
  BY DEF PlacesInv, Asked
<1>14. PlacesInv(treeStack', idMap', updated', located')
  <2>1. created \subseteq Located(located') /\ updated \cap Located(located') = {}
    BY <1>8, <1>13 DEF PlacesInv
  <2>2. ASSUME NEW l \in located' PROVE l = <<o, p, r>> \/ (l \in located /\ l[1] # o)
    BY <1>7, <1>13, <2>2 DEF Located
  <2>3. ASSUME NEW l \in located', NEW m \in located', l[1] = m[1] PROVE l = m
    <3>1. CASE l \in located /\ m \in located
      BY <2>3, <3>1 DEF PlacesInv
    <3>2. <<o, p, r>>[1] = o
      OBVIOUS
    <3>3. CASE l = <<o, p, r>> \/ m = <<o, p, r>>
      BY <2>2, <2>3, <3>2, <3>3
    <3> QED
      BY <2>2, <3>1, <3>3
  <2>4. ASSUME NEW l \in located' PROVE l[1] \in Range(Children[l[2]]) /\ l[3] = Status(l[2], created, updated)
    <3>1. CASE l \in located
      BY <3>1 DEF PlacesInv
    <3>2. CASE l = <<o, p, r>>
      <4>1. r = Status(p, created, updated)
        BY <1>2, <1>5 DEF PlacesInv
      <4>2. o \in Range(Children[p])
        BY <1>2, <1>5
      <4>3. l[1] = o /\ l[2] = p /\ l[3] = r
        BY <3>2
      <4> QED
        BY <4>1, <4>2, <4>3
    <3> QED
      BY <2>2, <3>1, <3>2
  <2>5. ASSUME NEW i \in DOMAIN more PROVE more[i].restored = Status(more[i].obj, created, updated)
    <3>1. CASE i \in 1 .. n
      BY <1>2, <1>4, <3>1 DEF PlacesInv
    <3>2. CASE i = n + 1
      <4>1. more[i].obj = o /\ more[i].restored = "none"
        BY <1>3, <1>4, <3>2
      <4> QED
        BY <1>13, <4>1 DEF Status
    <3> QED
      BY <1>4, <3>1, <3>2
  <2> QED
    BY <1>7, <2>1, <2>3, <2>4, <2>5 DEF PlacesInv
<1>15. ASSUME NEW x \in Persisted
       PROVE  /\ x # o => RefersTo(referred', x) = RefersTo(referred, x) /\ (x \in unresolved' <=> x \in unresolved)
              /\ Refers[o] \subseteq created => RefersTo(referred', o) = References(o, created) /\ o \notin unresolved'
              /\ ~(Refers[o] \subseteq created) => o \in unresolved' /\ RefersTo(referred', o) = {}
  <2>1. RefersTo(referred, o) = {}
    BY DEF RefersInv
  <2>2. \A t \in References(o, created) : t[1] = o
    BY DEF References
  <2>3. CASE Refers[o] \subseteq created
    <3>1. referred' = referred \cup References(o, created) /\ unresolved' = unresolved \ {o}
      BY <2>3 DEF Creation
    <3> QED
      BY <2>1, <2>2, <2>3, <3>1 DEF RefersTo
  <2>4. CASE ~(Refers[o] \subseteq created)
    <3>1. referred' = referred /\ unresolved' = unresolved
      BY <2>4 DEF Creation
    <3>2. o \in unresolved
      BY <1>13, <2>4 DEF RefersInv
    <3> QED
      BY <2>1, <2>4, <3>1, <3>2 DEF RefersTo
  <2> QED
    BY <2>3, <2>4
<1>16. RefersInv(idMap', updated', located', referred', unresolved')
  <2> SUFFICES ASSUME NEW x \in Persisted
               PROVE  /\ x \notin Asked(updated', located') => RefersTo(referred', x) = {}
                      /\ x \in Located(located') \ unresolved' =>
                            Refers[x] \subseteq created /\ RefersTo(referred', x) = References(x, created)
                      /\ x \notin Located(located') /\ Refers[x] # {} => x \in unresolved'
    BY DEF RefersInv
  <2>1. CASE x = o
    BY <1>8, <1>9, <1>15, <2>1
  <2>2. CASE x # o
    BY <1>8, <1>9, <1>15, <2>2 DEF RefersInv
  <2> QED
    BY <2>1, <2>2
<1>17. HeldBack(located', referred', unresolved')
  <2> SUFFICES ASSUME NEW x \in Located(located') \cap unresolved' PROVE RefersTo(referred', x) = {}
    BY DEF HeldBack
  <2>1. x \in Persisted
    BY <1>12 DEF ImportTypes, Located
  <2>2. CASE x = o
    BY <1>15, <2>1, <2>2
  <2>3. CASE x # o
    BY <1>8, <1>15, <2>1, <2>3 DEF HeldBack
  <2> QED
    BY <2>2, <2>3
<1>18. PhaseInv'
  <2>1. CurrentEntry' = more[n + 1] /\ treeStack' # <<>>
    BY <1>4, <1>7 DEF CurrentEntry, Last
  <2>2. CurrentEntry'.obj = o /\ CurrentEntry'.child = 0
    BY <1>3, <1>4, <2>1
  <2>3. ASSUME NEW i \in DOMAIN treeStack', i # Len(treeStack') PROVE treeStack'[i].obj \in Asked(updated', located')
    <3>1. i \in 1 .. n
      BY <1>4, <1>7, <2>3
    <3> QED
      BY <1>2, <1>4, <1>7, <1>9, <3>1
  <2>4. o \in Located(located') \ idMap'
    BY <1>8, <1>13
  <2> QED
    BY <1>7, <2>1, <2>2, <2>3, <2>4 DEF PhaseInv
<1>19. LastInv'
  <2>1. treeStack' # <<>>
    BY <1>4, <1>7
  <2> QED
    BY <1>7, <1>17, <2>1 DEF LastInv
<1> QED
  BY <1>11, <1>12, <1>14, <1>16, <1>18, <1>19 DEF ImportInv

\* walkEntities(), when all on the stack were dealt with.
LEMMA WalkKeeps ==
    ASSUME ImportTypes, NEW stack, NEW created, WalkInv(stack, Asked(updated, located)),
           PlacesInv(stack, created, updated, located),
           RefersInv(created, updated, located, referred, unresolved),
           HeldBack(located, referred, unresolved), setsInTransit = {}, refused = {}, refused' = refused,
           WalkEntities(stack, created), alwaysCreate' = alwaysCreate
    PROVE  ImportInv'
<1>1. PICK rest, n : rest = WalkTo(stack) /\ n = Len(rest)
  OBVIOUS
<1>2. /\ n \in Nat /\ rest \in Seq(Frame) /\ WalkInv(rest, Asked(updated, located))
      /\ \A i \in 1 .. n : i \in DOMAIN stack /\ rest[i] = stack[i]
      /\ n > 0 => rest[n].child < Len(Children[rest[n].obj])
  <2>1. PICK m \in 0 .. Len(stack) :
              /\ rest \in Seq(Frame) /\ Len(rest) = m
              /\ \A i \in 1 .. m : i \in DOMAIN stack /\ rest[i] = stack[i]
              /\ m > 0 => stack[m].child < Len(Children[stack[m].obj])
              /\ WalkInv(rest, Asked(updated, located))
    BY <1>1, WalkToIs
  <2>2. m = n /\ n \in Nat
    BY <1>1, <2>1
  <2> QED
    BY <2>1, <2>2
<1>3. PICK on, next, more : /\ on = Onward(rest)
                            /\ next = Children[on[n].obj][on[n].child]
                            /\ more = Append(on, StackEntry(next, "none"))
  OBVIOUS
<1>4. /\ idMap' = created
      /\ rest = <<>> => treeStack' = <<>> /\ SendResolved(created)
      /\ rest # <<>> /\ alwaysCreate => Creation(on, next, created)
      /\ rest # <<>> /\ ~alwaysCreate =>
            /\ importing' = "WALKING" /\ treeStack' = more
            /\ UNCHANGED <<unresolved, setsInTransit, updated, located, referred>>
  BY <1>1, <1>3 DEF WalkEntities, Onward
<1>5. CASE rest = <<>>
  <2>1. /\ treeStack' = <<>> /\ importing' = IF unresolved = {} THEN "COMPLETED" ELSE "REF_RESOLVING"
        /\ setsInTransit' = unresolved \cap created
        /\ UNCHANGED <<unresolved, updated, located, referred>>
    BY <1>4, <1>5 DEF SendResolved
  <2>2. WalkInv(treeStack', Asked(updated', located') \cup Stacked(treeStack'))
    <3>1. Stacked(<<>>) = {}
      BY DEF Stacked
    <3>2. Asked(updated', located') \cup Stacked(treeStack') = Asked(updated, located)
      BY <2>1, <3>1
    <3> QED
      BY <1>2, <1>5, <2>1, <3>2
  <2>3. PlacesInv(treeStack', idMap', updated', located')
    <3>1. DOMAIN treeStack' = {}
      BY <2>1
    <3> QED
      BY <1>4, <2>1, <3>1 DEF PlacesInv
  <2>4. RefersInv(idMap', updated', located', referred', unresolved')
    BY <1>4, <2>1 DEF RefersInv
  <2>5. PhaseInv'
    BY <2>1 DEF PhaseInv
  <2>6. LastInv'
    <3>1. \A o \in created \cap unresolved : RefersTo(referred, o) = {} /\ o \in setsInTransit'
      BY <2>1 DEF PlacesInv, HeldBack
    <3> QED
      BY <1>4, <2>1, <3>1 DEF LastInv
  <2>7. ImportTypes'
    BY <2>1 DEF ImportTypes
  <2> QED
    BY <2>2, <2>3, <2>4, <2>5, <2>6, <2>7 DEF ImportInv
<1>6. CASE rest # <<>>
  <2>1. n > 0 /\ n \in 1 .. n /\ DOMAIN rest = 1 .. n
    BY <1>1, <1>2, <1>6
  <2>2. PICK p, c : p = rest[n].obj /\ c = rest[n].child
    OBVIOUS
  <2>3. p \in Persisted /\ c \in Nat /\ c < Len(Children[p])
    <3>1. rest[n] \in Frame
      BY <1>2, <2>1
    <3> QED
      BY <1>2, <2>1, <2>2, <3>1 DEF Frame
  <2>4. /\ on \in Seq(Frame) /\ Len(on) = n /\ DOMAIN on = 1 .. n
        /\ \A i \in 1 .. n : /\ on[i].obj = rest[i].obj /\ on[i].restored = rest[i].restored
                             /\ i # n => on[i].child = rest[i].child
        /\ on[n].child = c + 1
    BY <1>1, <1>2, <1>3, <2>1, <2>2, OnwardFrames
  <2>5. next = Children[p][c + 1] /\ c + 1 \in DOMAIN Children[p] /\ next \in Persisted
    <3>1. next = Children[p][c + 1]
      BY <1>3, <2>1, <2>2, <2>4
    <3>2. c + 1 \in DOMAIN Children[p]
      BY <2>3, TreeIs
    <3> QED
      BY <2>3, <3>1, <3>2, TreeIs
  <2>6. /\ StackEntry(next, "none") \in Frame /\ StackEntry(next, "none").obj = next
        /\ StackEntry(next, "none").child = 0 /\ StackEntry(next, "none").restored = "none"
    BY <2>5 DEF StackEntry, Frame
  <2>7. /\ more \in Seq(Frame) /\ Len(more) = n + 1 /\ more[n + 1] = StackEntry(next, "none")
        /\ DOMAIN more = 1 .. (n + 1)
        /\ \A i \in 1 .. n : /\ more[i] = on[i]
                             /\ more[i].obj = rest[i].obj /\ more[i].restored = rest[i].restored
                             /\ i # n => more[i].child = rest[i].child
    <3>1. PICK e : e = StackEntry(next, "none")
      OBVIOUS
    <3>2. more = Append(on, e) /\ e \in Frame
      BY <1>3, <2>6, <3>1
    <3>3. /\ more \in Seq(Frame) /\ Len(more) = n + 1 /\ more[n + 1] = e /\ DOMAIN more = 1 .. (n + 1)
          /\ \A i \in 1 .. n : more[i] = on[i]
      BY <1>2, <2>4, <3>2
    <3> QED
      BY <2>4, <3>1, <3>3
  <2>8. more[n].child = c + 1 /\ more[n + 1].obj = next /\ more[n + 1].child = 0
    BY <2>1, <2>4, <2>6, <2>7
  <2>9. /\ WalkInv(more, Asked(updated, located) \cup {next}) /\ next \notin Asked(updated, located)
        /\ next \in Range(Children[p])
    <3>1. \A i \in 1 .. n : more[i].obj = rest[i].obj /\ (i # n => more[i].child = rest[i].child)
      BY <2>7
    <3>2. Pushed(rest, more)
      BY <1>1, <1>2, <2>1, <2>2, <2>3, <2>5, <2>7, <2>8, <3>1 DEF Pushed
    <3>3. more[Len(more)].obj = next /\ rest[Len(rest)].obj = p
      BY <1>1, <2>2, <2>7, <2>8
    <3> QED
      BY <1>2, <3>2, <3>3, NextKeeps
  <2>10. \A i \in 1 .. n : rest[i].obj \in Asked(updated, located)
    BY <1>2, <2>1 DEF WalkInv, Stacked
  <2>11. \A i \in 1 .. n : rest[i].restored = Status(rest[i].obj, created, updated)
    BY <1>2 DEF PlacesInv
  <2>12. CASE alwaysCreate
    <3>1. PlacesInv(on, created, updated, located)
      BY <2>4, <2>11 DEF PlacesInv
    <3>2. on # <<>> /\ Last(on).obj = p
      BY <2>1, <2>2, <2>4 DEF Last
    <3>3. Creation(on, next, created)
      BY <1>4, <1>6, <2>12
    <3>4. \A i \in DOMAIN on : on[i].obj \in Asked(updated, located)
      BY <2>4, <2>10
    <3> QED
      BY <1>3, <1>4, <2>4, <2>5, <2>9, <3>1, <3>2, <3>3, <3>4, CreationKeeps
  <2>13. CASE ~alwaysCreate
    <3>1. /\ importing' = "WALKING" /\ treeStack' = more
          /\ UNCHANGED <<unresolved, setsInTransit, updated, located, referred>>
      BY <1>4, <1>6, <2>13
    <3>2. next \notin created /\ next \notin updated
      BY <2>9 DEF PlacesInv, Asked
    <3>3. Stacked(more) \subseteq Asked(updated, located) \cup {next} /\ next \in Stacked(more)
      <4>1. n + 1 \in DOMAIN more
        BY <1>2, <2>7
      <4> QED
        BY <2>8, <2>9, <4>1 DEF WalkInv, Stacked
    <3>4. WalkInv(treeStack', Asked(updated', located') \cup Stacked(treeStack'))
      <4>1. Asked(updated', located') \cup Stacked(treeStack') = Asked(updated, located) \cup {next}
        BY <3>1, <3>3
      <4> QED
        BY <2>9, <3>1, <4>1
    <3>5. ASSUME NEW i \in DOMAIN more PROVE more[i].restored = Status(more[i].obj, created, updated)
      <4>1. CASE i \in 1 .. n
        BY <2>7, <2>11, <4>1
      <4>2. CASE i = n + 1
        <5>1. more[i].obj = next /\ more[i].restored = "none"
          BY <2>6, <2>7, <4>2
        <5> QED
          BY <3>2, <5>1 DEF Status
      <4> QED
        BY <1>2, <2>7, <4>1, <4>2
    <3>6. PlacesInv(treeStack', idMap', updated', located')
      BY <1>4, <3>1, <3>5 DEF PlacesInv
    <3>7. RefersInv(idMap', updated', located', referred', unresolved')
      BY <1>4, <3>1 DEF RefersInv
    <3>8. PhaseInv'
      <4>1. CurrentEntry' = more[n + 1] /\ treeStack' # <<>>
        BY <1>2, <2>7, <3>1 DEF CurrentEntry, Last
      <4>2. ASSUME NEW i \in DOMAIN treeStack', i # Len(treeStack') PROVE treeStack'[i].obj \in Asked(updated', located')
        <5>1. i \in 1 .. n
          BY <1>2, <2>7, <3>1, <4>2
        <5> QED
          BY <2>7, <2>10, <3>1, <5>1
      <4>3. CurrentEntry'.obj = next /\ CurrentEntry'.child = 0
        BY <2>8, <4>1
      <4> QED
        BY <2>9, <3>1, <4>1, <4>2, <4>3 DEF PhaseInv
    <3>9. LastInv'
      <4>1. treeStack' # <<>>
        BY <1>2, <2>7, <3>1
      <4> QED
        BY <3>1, <4>1 DEF LastInv, HeldBack
    <3>10. ImportTypes'
      BY <3>1 DEF ImportTypes
    <3> QED
      BY <3>4, <3>6, <3>7, <3>8, <3>9, <3>10 DEF ImportInv
  <2> QED
    BY <2>12, <2>13
<1> QED
  BY <1>5, <1>6

\* While nothing is being resolved, all on the stack but the top were dealt with.
LEMMA TopIs ==
    ASSUME ImportInv, importing \in {"WALKING", "UPDATING", "CREATING"}
    PROVE  /\ treeStack \in Seq(Frame) /\ treeStack # <<>> /\ Len(treeStack) \in Nat /\ Len(treeStack) > 0
           /\ Len(treeStack) \in DOMAIN treeStack /\ DOMAIN treeStack = 1 .. Len(treeStack)
           /\ CurrentEntry = treeStack[Len(treeStack)] /\ CurrentEntry \in Frame /\ CurrentEntry.child = 0
           /\ CurrentEntry.obj \in Persisted
           /\ \A i \in DOMAIN treeStack : i # Len(treeStack) =>
                 treeStack[i].obj \in Asked(updated, located) /\ treeStack[i].obj # CurrentEntry.obj
           /\ Stacked(treeStack) \subseteq Asked(updated, located) \cup {CurrentEntry.obj}
           /\ CurrentEntry.obj \in Stacked(treeStack)
           /\ \A l \in located : l[2] # CurrentEntry.obj
<1>1. treeStack # <<>> /\ CurrentEntry.child = 0 /\ CurrentEntry = Last(treeStack)
  BY DEF ImportInv, PhaseInv, CurrentEntry
<1>2. treeStack \in Seq(Frame) /\ WalkInv(treeStack, Asked(updated, located) \cup Stacked(treeStack))
  BY DEF ImportInv, WalkInv, PathInv
<1>3. /\ Range(Children[CurrentEntry.obj]) \cap (Asked(updated, located) \cup Stacked(treeStack)) = {}
      /\ Len(treeStack) \in DOMAIN treeStack /\ CurrentEntry \in Frame /\ CurrentEntry.obj \in Stacked(treeStack)
      /\ \A i \in DOMAIN treeStack : i # Len(treeStack) => treeStack[i].obj # CurrentEntry.obj
  BY <1>1, <1>2, NothingInside
<1>4. \A i \in DOMAIN treeStack : i # Len(treeStack) => treeStack[i].obj \in Asked(updated, located)
  BY DEF ImportInv, PhaseInv
<1>5. Stacked(treeStack) \subseteq Asked(updated, located) \cup {CurrentEntry.obj}
  BY <1>1, <1>4 DEF Stacked, Last
<1>6. ASSUME NEW l \in located, l[2] = CurrentEntry.obj PROVE FALSE
  <2>1. l[1] \in Range(Children[l[2]]) /\ l[1] \in Asked(updated, located)
    BY DEF ImportInv, PlacesInv, Asked, Located
  <2> QED
    BY <1>3, <1>6, <2>1
<1>7. CurrentEntry.obj \in Persisted
  BY <1>3 DEF Frame
<1> QED
  BY <1>1, <1>2, <1>3, <1>4, <1>5, <1>6, <1>7 DEF Last

\* infoArrived() of an entity that is on the server and of the same type: it is updated.
LEMMA InfoExistsKeeps ==
    ASSUME ImportInv, InfoExists, UNCHANGED <<alwaysCreate, refused>>
    PROVE  ImportInv'
<1>1. PICK o, n : o = CurrentEntry.obj /\ n = Len(treeStack)
  OBVIOUS
<1>2. /\ importing = "WALKING" /\ importing' = "UPDATING" /\ updated' = updated \cup {o}
      /\ treeStack' = WithId(treeStack, "old")
      /\ referred' = referred \cup References(o, {})
      /\ UNCHANGED <<idMap, unresolved, setsInTransit, located>>
  BY <1>1 DEF InfoExists, RestoredAs, WithId
<1>3. /\ treeStack \in Seq(Frame) /\ treeStack # <<>> /\ n \in Nat /\ n > 0
      /\ n \in DOMAIN treeStack /\ DOMAIN treeStack = 1 .. n
      /\ CurrentEntry = treeStack[n] /\ CurrentEntry.child = 0 /\ o \in Persisted
      /\ \A i \in 1 .. n : i # n => treeStack[i].obj \in Asked(updated, located) /\ treeStack[i].obj # o
      /\ Stacked(treeStack) \subseteq Asked(updated, located) \cup {o} /\ o \in Stacked(treeStack)
      /\ \A l \in located : l[2] # o
  BY <1>1, <1>2, TopIs
<1>4. /\ treeStack' \in Seq(Frame) /\ Len(treeStack') = n /\ DOMAIN treeStack' = 1 .. n
      /\ treeStack'[n].restored = "old"
      /\ \A i \in 1 .. n : /\ treeStack'[i].obj = treeStack[i].obj /\ treeStack'[i].child = treeStack[i].child
                           /\ i # n => treeStack'[i].restored = treeStack[i].restored
  BY <1>1, <1>2, <1>3, RestoredFrames
<1>5. o \notin Asked(updated, located) /\ o \notin idMap /\ o \notin Located(located)
  BY <1>1, <1>2 DEF ImportInv, PhaseInv, PlacesInv, Asked
<1>6. Asked(updated', located') = Asked(updated, located) \cup {o}
  BY <1>2 DEF Asked
<1>7. WalkInv(treeStack', Asked(updated', located') \cup Stacked(treeStack'))
  <2>1. WalkInv(treeStack', Asked(updated, located) \cup Stacked(treeStack))
    <3>1. WalkInv(treeStack, Asked(updated, located) \cup Stacked(treeStack))
      BY DEF ImportInv
    <3> QED
      BY <1>3, <1>4, <3>1, SameWalk
  <2>2. Stacked(treeStack') = Stacked(treeStack)
    BY <1>3, <1>4 DEF Stacked
  <2>3. Asked(updated', located') \cup Stacked(treeStack') = Asked(updated, located) \cup Stacked(treeStack)
    BY <1>3, <1>6, <2>2
  <2> QED
    BY <2>1, <2>3
<1>8. \A x : x # o => Status(x, idMap, updated') = Status(x, idMap, updated)
  BY <1>2 DEF Status
<1>9. PlacesInv(treeStack', idMap', updated', located')
  <2>1. PlacesInv(treeStack, idMap, updated, located)
    BY DEF ImportInv
  <2>2. Status(o, idMap, updated') = "old"
    BY <1>2, <1>5 DEF Status
  <2>3. ASSUME NEW i \in 1 .. n PROVE treeStack'[i].restored = Status(treeStack'[i].obj, idMap, updated')
    <3>1. CASE i = n
      BY <1>1, <1>3, <1>4, <2>2, <3>1
    <3>2. CASE i # n
      <4>1. treeStack[i].restored = Status(treeStack[i].obj, idMap, updated)
        BY <1>3, <2>1 DEF PlacesInv
      <4> QED
        BY <1>3, <1>4, <1>8, <3>2, <4>1
    <3> QED
      BY <3>1, <3>2
  <2>4. updated' \cap Located(located) = {}
    BY <1>2, <1>5, <2>1 DEF PlacesInv
  <2>5. \A l \in located : l[3] = Status(l[2], idMap, updated')
    BY <1>3, <1>8, <2>1 DEF PlacesInv
  <2> QED
    BY <1>2, <1>4, <2>1, <2>3, <2>4, <2>5 DEF PlacesInv
<1>10. \A x : x # o => RefersTo(referred', x) = RefersTo(referred, x)
  <2>1. \A t \in References(o, {}) : t[1] = o
    BY DEF References
  <2> QED
    BY <1>2, <2>1 DEF RefersTo
<1>11. RefersInv(idMap', updated', located', referred', unresolved')
  <2>1. RefersInv(idMap, updated, located, referred, unresolved)
    BY DEF ImportInv
  <2> SUFFICES ASSUME NEW x \in Persisted
               PROVE  /\ x \notin Asked(updated', located') => RefersTo(referred', x) = {}
                      /\ x \in Located(located) \ unresolved =>
                            Refers[x] \subseteq idMap /\ RefersTo(referred', x) = References(x, idMap)
                      /\ x \notin Located(located) /\ Refers[x] # {} => x \in unresolved
    BY <1>2 DEF RefersInv
  <2>2. CASE x = o
    BY <1>5, <1>6, <2>1, <2>2 DEF RefersInv
  <2>3. CASE x # o
    BY <1>6, <1>10, <2>1, <2>3 DEF RefersInv
  <2> QED
    BY <2>2, <2>3
<1>12. PhaseInv'
  <2>1. CurrentEntry' = treeStack'[n] /\ treeStack' # <<>>
    BY <1>3, <1>4 DEF CurrentEntry, Last
  <2>2. CurrentEntry'.obj = o /\ CurrentEntry'.child = 0
    BY <1>1, <1>3, <1>4, <2>1
  <2>3. \A i \in DOMAIN treeStack' : i # Len(treeStack') => treeStack'[i].obj \in Asked(updated', located')
    BY <1>3, <1>4, <1>6
  <2> QED
    BY <1>2, <1>6, <2>1, <2>2, <2>3 DEF PhaseInv
<1>13. LastInv'
  <2>1. HeldBack(located, referred, unresolved) /\ setsInTransit = {} /\ refused = {}
    BY <1>2, <1>3 DEF ImportInv, LastInv
  <2>2. HeldBack(located', referred', unresolved')
    BY <1>2, <1>5, <1>10, <2>1 DEF HeldBack
  <2>3. treeStack' # <<>>
    BY <1>3, <1>4
  <2> QED
    BY <1>2, <2>1, <2>2, <2>3 DEF LastInv
<1>14. ImportTypes'
  BY <1>2, <1>3 DEF ImportInv, ImportTypes
<1> QED
  BY <1>7, <1>9, <1>11, <1>12, <1>13, <1>14 DEF ImportInv

\* infoArrived() of any other entity: it is created.
LEMMA InfoOtherKeeps ==
    ASSUME ImportInv, InfoOther, UNCHANGED <<alwaysCreate, refused>>
    PROVE  ImportInv'
<1>1. PICK o, n, s : o = CurrentEntry.obj /\ n = Len(treeStack) /\ s = Front(treeStack)
  OBVIOUS
<1>2. importing = "WALKING" /\ o # Root /\ idMap' = idMap /\ Creation(s, o, idMap)
  BY <1>1 DEF InfoOther
<1>3. /\ treeStack \in Seq(Frame) /\ treeStack # <<>> /\ n \in Nat /\ n > 0
      /\ n \in DOMAIN treeStack /\ DOMAIN treeStack = 1 .. n
      /\ CurrentEntry = treeStack[n] /\ CurrentEntry \in Frame /\ CurrentEntry.child = 0 /\ o \in Persisted
      /\ \A i \in 1 .. n : i # n => treeStack[i].obj \in Asked(updated, located)
      /\ Stacked(treeStack) \subseteq Asked(updated, located) \cup {o} /\ o \in Stacked(treeStack)
  BY <1>1, <1>2, TopIs
<1>4. WalkInv(treeStack, Asked(updated, located) \cup Stacked(treeStack)) /\ PathInv(treeStack)
  BY DEF ImportInv, WalkInv
<1>5. n > 1 /\ n - 1 \in DOMAIN treeStack
  <2>1. treeStack[1].obj = Root
    BY <1>3, <1>4 DEF PathInv
  <2>2. n # 1
    BY <1>1, <1>2, <1>3, <2>1
  <2> QED
    BY <1>3, <2>2
<1>6. /\ s \in Seq(Frame) /\ Len(s) = n - 1 /\ s # <<>> /\ DOMAIN s = 1 .. (n - 1) /\ Last(s) = treeStack[n - 1]
      /\ \A i \in 1 .. (n - 1) : s[i] = treeStack[i] /\ i \in DOMAIN treeStack /\ i # n
  <2>1. s = SubSeq(treeStack, 1, n - 1)
    BY <1>1 DEF Front
  <2>2. s \in Seq(Frame) /\ Len(s) = n - 1 /\ \A i \in 1 .. (n - 1) : s[i] = treeStack[i]
    BY <1>3, <1>5, <2>1
  <2> QED
    BY <1>3, <1>5, <2>2 DEF Last
<1>7. o \notin Asked(updated, located) /\ o \notin idMap /\ o \notin updated
  BY <1>1, <1>2 DEF ImportInv, PhaseInv, PlacesInv, Asked
<1>8. treeStack[n] = StackEntry(o, "none")
  <2>1. treeStack[n].restored = "none"
    <3>1. treeStack[n].restored = Status(o, idMap, updated)
      BY <1>1, <1>3 DEF ImportInv, PlacesInv
    <3> QED
      BY <1>7, <3>1 DEF Status
  <2>2. treeStack[n].obj = o /\ treeStack[n].child = 0 /\ treeStack[n] \in Frame
    BY <1>1, <1>3
  <2> QED
    BY <2>1, <2>2 DEF StackEntry, Frame
<1>9. treeStack = Append(s, StackEntry(o, "none"))
  <2>1. PICK e : e = treeStack[n]
    OBVIOUS
  <2>2. e \in Frame
    BY <1>3, <2>1
  <2>3. PICK t : t = Append(s, e)
    OBVIOUS
  <2>4. t \in Seq(Frame) /\ Len(t) = n /\ t[n] = e /\ \A i \in 1 .. (n - 1) : t[i] = s[i]
    BY <1>3, <1>5, <1>6, <2>2, <2>3
  <2>5. \A i \in 1 .. n : t[i] = treeStack[i]
    BY <1>3, <1>6, <2>1, <2>4
  <2>6. t = treeStack
    BY <1>1, <1>3, <2>4, <2>5
  <2> QED
    BY <1>8, <2>1, <2>3, <2>6
<1>10. o \in Range(Children[Last(s).obj])
  <2>1. n - 1 \in DOMAIN treeStack /\ (n - 1) + 1 = n
    BY <1>3, <1>5
  <2>2. /\ treeStack[n - 1].child \in DOMAIN Children[treeStack[n - 1].obj]
        /\ treeStack[n].obj = Children[treeStack[n - 1].obj][treeStack[n - 1].child]
    BY <1>3, <1>4, <2>1 DEF PathInv
  <2> QED
    BY <1>1, <1>3, <1>6, <2>2 DEF Range
<1>11. WalkInv(treeStack, Asked(updated, located) \cup {o})
  <2>1. Asked(updated, located) \cup Stacked(treeStack) = Asked(updated, located) \cup {o}
    BY <1>3
  <2> QED
    BY <1>4, <2>1
<1>12. PlacesInv(s, idMap, updated, located)
  BY <1>6 DEF ImportInv, PlacesInv
<1>13. \A i \in DOMAIN s : s[i].obj \in Asked(updated, located)
  BY <1>3, <1>6
<1>14. /\ RefersInv(idMap, updated, located, referred, unresolved) /\ ImportTypes
       /\ HeldBack(located, referred, unresolved) /\ setsInTransit = {} /\ refused = {}
  BY <1>2, <1>3 DEF ImportInv, LastInv
<1> QED
  BY <1>2, <1>3, <1>6, <1>7, <1>9, <1>10, <1>11, <1>12, <1>13, <1>14, CreationKeeps

\* The update was seen, or the creation was refused.
LEMMA WalkOnKeeps ==
    ASSUME ImportInv, SightOfUpdate \/ CreateRefused, UNCHANGED <<alwaysCreate, refused>>
    PROVE  ImportInv'
<1>1. importing \in {"UPDATING", "CREATING"} /\ WalkEntities(treeStack, idMap)
  BY DEF SightOfUpdate, CreateRefused
<1>2. CurrentEntry.obj \in Asked(updated, located)
  BY <1>1 DEF ImportInv, PhaseInv, Asked
<1>3. Asked(updated, located) \cup Stacked(treeStack) = Asked(updated, located)
  BY <1>1, <1>2, TopIs
<1>4. WalkInv(treeStack, Asked(updated, located))
  BY <1>3 DEF ImportInv
<1>5. /\ RefersInv(idMap, updated, located, referred, unresolved) /\ ImportTypes
      /\ PlacesInv(treeStack, idMap, updated, located)
      /\ HeldBack(located, referred, unresolved) /\ setsInTransit = {} /\ refused = {}
  <2>1. treeStack # <<>>
    BY <1>1 DEF ImportInv, PhaseInv
  <2> QED
    BY <2>1 DEF ImportInv, LastInv
<1> QED
  BY <1>1, <1>4, <1>5, WalkKeeps

\* The answer to a Create operation: the entity has its new id, and the walk goes on.
LEMMA InfoCreatedKeeps ==
    ASSUME ImportInv, InfoCreated, UNCHANGED <<alwaysCreate, refused>>
    PROVE  ImportInv'
<1>1. PICK o, n, stack, created :
         /\ o = CurrentEntry.obj /\ n = Len(treeStack) /\ created = idMap \cup {o}
         /\ stack = WithId(treeStack, "new")
  OBVIOUS
<1>2. importing = "CREATING" /\ WalkEntities(stack, created)
  BY <1>1 DEF InfoCreated, RestoredAs, WithId
<1>3. /\ treeStack \in Seq(Frame) /\ treeStack # <<>> /\ n \in Nat /\ n > 0
      /\ n \in DOMAIN treeStack /\ DOMAIN treeStack = 1 .. n
      /\ CurrentEntry = treeStack[n] /\ o \in Persisted
      /\ \A i \in 1 .. n : i # n => treeStack[i].obj # o
      /\ Stacked(treeStack) \subseteq Asked(updated, located) \cup {o}
      /\ \A l \in located : l[2] # o
  BY <1>1, <1>2, TopIs
<1>4. /\ stack \in Seq(Frame) /\ DOMAIN stack = 1 .. n /\ stack[n].restored = "new"
      /\ \A i \in 1 .. n : /\ stack[i].obj = treeStack[i].obj /\ stack[i].child = treeStack[i].child
                           /\ i # n => stack[i].restored = treeStack[i].restored
  BY <1>1, <1>3, RestoredFrames
<1>5. o \in Located(located) /\ o \notin idMap /\ o \in Asked(updated, located)
  BY <1>1, <1>2 DEF ImportInv, PhaseInv, Asked
<1>6. WalkInv(stack, Asked(updated, located))
  <2>1. Asked(updated, located) \cup Stacked(treeStack) = Asked(updated, located)
    BY <1>3, <1>5
  <2>2. WalkInv(treeStack, Asked(updated, located))
    BY <2>1 DEF ImportInv
  <2> QED
    BY <1>3, <1>4, <2>2, SameWalk
<1>7. \A x : x # o => Status(x, created, updated) = Status(x, idMap, updated)
  BY <1>1 DEF Status
<1>8. PlacesInv(stack, created, updated, located)
  <2>1. PlacesInv(treeStack, idMap, updated, located)
    BY DEF ImportInv
  <2>2. Status(o, created, updated) = "new"
    BY <1>1, <1>5, <2>1 DEF Status, PlacesInv
  <2>3. ASSUME NEW i \in 1 .. n PROVE stack[i].restored = Status(stack[i].obj, created, updated)
    <3>1. CASE i = n
      BY <1>1, <1>3, <1>4, <2>2, <3>1
    <3>2. CASE i # n
      <4>1. treeStack[i].restored = Status(treeStack[i].obj, idMap, updated)
        BY <1>3, <2>1 DEF PlacesInv
      <4> QED
        BY <1>3, <1>4, <1>7, <3>2, <4>1
    <3> QED
      BY <3>1, <3>2
  <2>4. created \subseteq Located(located)
    BY <1>1, <1>5, <2>1 DEF PlacesInv
  <2>5. \A l \in located : l[3] = Status(l[2], created, updated)
    BY <1>3, <1>7, <2>1 DEF PlacesInv
  <2> QED
    BY <1>4, <2>1, <2>3, <2>4, <2>5 DEF PlacesInv
<1>9. RefersInv(created, updated, located, referred, unresolved)
  <2>1. RefersInv(idMap, updated, located, referred, unresolved)
    BY DEF ImportInv
  <2>2. ASSUME NEW x \in Persisted, Refers[x] \subseteq idMap
        PROVE  Refers[x] \subseteq created /\ References(x, created) = References(x, idMap)
    BY <1>1, <2>2 DEF References
  <2> QED
    BY <2>1, <2>2 DEF RefersInv
<1>10. ImportTypes /\ HeldBack(located, referred, unresolved) /\ setsInTransit = {} /\ refused = {}
  BY <1>3 DEF ImportInv, LastInv
<1> QED
  BY <1>2, <1>6, <1>8, <1>9, <1>10, WalkKeeps

\* An update was refused, or the import is cancelled: nothing changes but the state.
LEMMA StoppedKeeps ==
    ASSUME ImportInv, UpdateRefused \/ CancelImport \/ AnswerDropped, UNCHANGED <<alwaysCreate, refused>>
    PROVE  ImportInv'
<1>1. /\ importing' \in {"STALLED", "CANCEL", "CANCELLED"}
      /\ UNCHANGED <<treeStack, idMap, unresolved, setsInTransit, updated, located, referred>>
  BY DEF UpdateRefused, CancelImport, AnswerDropped
<1>2. PhaseInv' /\ LastInv' /\ ImportTypes'
  BY <1>1 DEF ImportInv, PhaseInv, LastInv, ImportTypes
<1> QED
  BY <1>1, <1>2 DEF ImportInv

\* The answer to a Set operation of the references held back.
LEMMA SetResultKeeps ==
    ASSUME ImportInv, NEW o \in Persisted, NEW applied \in BOOLEAN, SetResult(o, applied),
           alwaysCreate' = alwaysCreate
    PROVE  ImportInv'
<1>1. /\ o \in setsInTransit /\ treeStack = <<>>
      /\ setsInTransit' = setsInTransit \ {o}
      /\ \/ applied /\ referred' = referred \cup References(o, idMap) /\ refused' = refused
         \/ ~applied /\ referred' = referred /\ refused' = refused \cup {o}
      /\ importing' = importing \/ (importing' = "COMPLETED" /\ setsInTransit' = {})
      /\ UNCHANGED <<treeStack, idMap, unresolved, updated, located>>
  BY DEF SetResult, ImportInv, LastInv
<1>2. o \in unresolved /\ o \in idMap /\ o \in Located(located) /\ o \in Asked(updated, located)
  BY <1>1 DEF ImportInv, LastInv, PlacesInv, Asked
<1>3. RefersTo(referred, o) = {} /\ o \notin refused
  BY <1>1, <1>2 DEF ImportInv, LastInv
<1>4. /\ \A x : x # o => RefersTo(referred', x) = RefersTo(referred, x)
      /\ RefersTo(referred', o) = IF o \in refused' THEN {} ELSE References(o, idMap)
  <2>1. \A t \in References(o, idMap) : t[1] = o
    BY DEF References
  <2> QED
    BY <1>1, <1>3, <2>1 DEF RefersTo
<1>5. RefersInv(idMap', updated', located', referred', unresolved')
  <2>1. RefersInv(idMap, updated, located, referred, unresolved)
    BY DEF ImportInv
  <2> SUFFICES ASSUME NEW x \in Persisted
               PROVE  /\ x \notin Asked(updated, located) => RefersTo(referred', x) = {}
                      /\ x \in Located(located) \ unresolved =>
                            Refers[x] \subseteq idMap /\ RefersTo(referred', x) = References(x, idMap)
                      /\ x \notin Located(located) /\ Refers[x] # {} => x \in unresolved
    BY <1>1 DEF RefersInv
  <2>2. CASE x = o
    BY <1>2, <2>2
  <2>3. CASE x # o
    BY <1>4, <2>1, <2>3 DEF RefersInv
  <2> QED
    BY <2>2, <2>3
<1>6. LastInv'
  <2>1. /\ treeStack' = <<>> /\ setsInTransit' \subseteq unresolved' \cap idMap'
        /\ refused' \subseteq unresolved' \ setsInTransit'
    BY <1>1, <1>2 DEF ImportInv, LastInv
  <2>2. ASSUME NEW x \in idMap \cap unresolved
        PROVE  RefersTo(referred', x) = IF x \in setsInTransit' \cup refused' THEN {} ELSE References(x, idMap)
    <3>1. RefersTo(referred, x) = IF x \in setsInTransit \cup refused THEN {} ELSE References(x, idMap)
      BY <1>1 DEF ImportInv, LastInv
    <3>2. CASE x = o
      BY <1>1, <1>4, <3>2
    <3>3. CASE x # o
      BY <1>1, <1>4, <3>1, <3>3
    <3> QED
      BY <3>2, <3>3
  <2>3. importing' = "COMPLETED" => setsInTransit' = {}
    BY <1>1 DEF ImportInv, LastInv
  <2> QED
    BY <1>1, <2>1, <2>2, <2>3 DEF LastInv
<1>7. PhaseInv' /\ ImportTypes'
  BY <1>1 DEF PhaseInv, ImportInv, ImportTypes
<1> QED
  BY <1>1, <1>5, <1>6, <1>7 DEF ImportInv

\* What the invariant says when the import is over.
LEMMA ImportImplies == ImportInv => ImportFaithful
<1> SUFFICES ASSUME ImportInv PROVE ImportFaithful
  OBVIOUS
<1>1. ASSUME NEW l \in located
      PROVE  /\ l[1] \in Range(Children[l[2]])
             /\ l[3] = CASE l[2] \in idMap -> "new" [] l[2] \in updated -> "old" [] OTHER -> "none"
  BY DEF ImportInv, PlacesInv, Status
<1>2. ASSUME importing = "COMPLETED", NEW o \in Persisted \ updated
      PROVE  Cardinality({l \in located : l[1] = o}) = 1
  <2>1. treeStack = <<>> /\ Stacked(<<>>) = {}
    BY <1>2 DEF ImportInv, LastInv, Stacked
  <2>2. WalkInv(<<>>, Asked(updated, located))
    <3>1. Asked(updated, located) \cup Stacked(treeStack) = Asked(updated, located)
      BY <2>1
    <3> QED
      BY <2>1, <3>1 DEF ImportInv
  <2>3. o \in Located(located)
    BY <2>2, AllMet DEF Asked
  <2>4. PICK l \in located : l[1] = o
    BY <2>3 DEF Located
  <2>5. {m \in located : m[1] = o} = {l}
    BY <2>4 DEF ImportInv, PlacesInv
  <2> QED
    BY <2>5, FS_Singleton
<1>3. ASSUME importing = "COMPLETED", NEW o \in idMap
      PROVE  {t \in referred : t[1] = o} = IF o \in refused THEN {} ELSE References(o, idMap)
  <2>1. o \in Located(located) /\ o \in Persisted
    BY DEF ImportInv, PlacesInv, ImportTypes, Located
  <2>2. CASE o \in unresolved
    BY <1>3, <2>2 DEF ImportInv, LastInv, RefersTo
  <2>3. CASE o \notin unresolved
    <3>1. o \notin refused
      BY <1>3, <2>3 DEF ImportInv, LastInv
    <3> QED
      BY <2>1, <2>3, <3>1 DEF ImportInv, RefersInv, RefersTo
  <2> QED
    BY <2>2, <2>3
<1> QED
  BY <1>1, <1>2, <1>3 DEF ImportFaithful

\* What is created is where it was and refers to what it referred to, in every import; a
\* reference is missing only where the server refused the Set operation for it.
THEOREM ImportAlwaysFaithful == ImporterSpec => []ImportFaithful
<1>1. ImportInv /\ [ImporterNext]_importerVars => ImportInv'
  <2> SUFFICES ASSUME ImportInv, [ImporterNext]_importerVars PROVE ImportInv'
    OBVIOUS
  <2>1. CASE UNCHANGED importerVars
    BY <2>1 DEF importerVars, ImportInv, ImportTypes, PhaseInv, LastInv, CurrentEntry
  <2>2. CASE ImporterNext
    <3>1. alwaysCreate' = alwaysCreate
      BY <2>2 DEF ImporterNext
    <3>2. CASE InfoExists /\ UNCHANGED refused
      BY <3>1, <3>2, InfoExistsKeeps
    <3>3. CASE InfoOther /\ UNCHANGED refused
      BY <3>1, <3>3, InfoOtherKeeps
    <3>4. CASE (SightOfUpdate \/ CreateRefused) /\ UNCHANGED refused
      BY <3>1, <3>4, WalkOnKeeps
    <3>5. CASE (UpdateRefused \/ CancelImport \/ AnswerDropped) /\ UNCHANGED refused
      BY <3>1, <3>5, StoppedKeeps
    <3>6. CASE InfoCreated /\ UNCHANGED refused
      BY <3>1, <3>6, InfoCreatedKeeps
    <3>7. CASE \E o \in Persisted, applied \in BOOLEAN : SetResult(o, applied)
      BY <3>1, <3>7, SetResultKeeps
    <3> QED
      BY <2>2, <3>2, <3>3, <3>4, <3>5, <3>6, <3>7 DEF ImporterNext
  <2> QED
    BY <2>1, <2>2
<1> QED
  BY <1>1, ImportStarts, ImportImplies, PTL DEF ImporterSpec

-----------------------------------------------------------------------------
\* The orders of a finite set have each of its members once.
LEMMA SetToSeqsAre ==
    ASSUME NEW S, IsFiniteSet(S), NEW s \in SetToSeqs(S)
    PROVE  /\ s \in Seq(S) /\ IsInjective(s) /\ ToSet(s) = S
<1>1. PICK n \in Nat : n = Cardinality(S)
  BY FS_CardinalityType
<1>2. s \in [1 .. n -> S] /\ \A i, j \in 1 .. n : i # j => s[i] # s[j]
  BY <1>1 DEF SetToSeqs
<1>3. s \in Injection(1 .. n, S)
  BY <1>2 DEF Injection, IsInjective
<1>4. IsFiniteSet(1 .. n) /\ Cardinality(1 .. n) = n
  BY <1>1, FS_Interval
<1>5. s \in Surjection(1 .. n, S)
  BY <1>1, <1>3, <1>4, FS_Injection
<1>6. S = {s[i] : i \in 1 .. n}
  BY <1>2, <1>5 DEF Surjection
<1> QED
  BY <1>2, <1>6 DEF ToSet, IsInjective

(* The lists of properties *)

\* extractListPrependAppend(), for lists of any values and any length: what is before and
\* after the type's list, with that list between them, is the list of the entity.
LEMMA AllListsRestored == ListsRestored
<1> SUFFICES ASSUME NEW type \in Lists, NEW own \in Lists,
                    ExtractPrependAppend(type, own) # [prepend |-> <<>>, append |-> <<>>]
             PROVE  LET r == ExtractPrependAppend(type, own) IN r.prepend \o type \o r.append = own
  BY DEF ListsRestored
<1>1. PICK from, to : from = SplitAround(type, own).from /\ to = SplitAround(type, own).to
  OBVIOUS
<1>2. /\ Len(type) < Len(own) /\ from <= to /\ SubSeq(own, from, to) = type
      /\ ExtractPrependAppend(type, own) =
            [prepend |-> SubSeq(own, 1, from - 1), append |-> SubSeq(own, to + 1, Len(own))]
  BY <1>1 DEF ExtractPrependAppend
<1>3. type \in Seq(Values) /\ own \in Seq(Values)
  BY ExporterAssumption DEF Lists, SeqOf
<1>4. PICK n \in Nat : n = Len(own) /\ n > 0
  BY <1>2, <1>3
<1>5. from \in Nat /\ from >= 1
  <2>1. PICK T : T = {i \in DOMAIN own : type # <<>> => own[i] = Head(type)} \cup {Len(own) + 1}
    OBVIOUS
  <2>2. from = Min(T)
    BY <1>1, <2>1 DEF SplitAround
  <2>3. T \subseteq Nat /\ T # {} /\ \A i \in T : i >= 1
    BY <1>3, <2>1
  <2>4. Min(T) \in T
    BY <2>3, LeastNumber DEF Min
  <2> QED
    BY <2>2, <2>3, <2>4
<1>6. to \in Nat /\ to <= n
  <2>1. PICK T : T = {i \in DOMAIN own : type # <<>> => own[i] = Last(type)} \cup {1}
    OBVIOUS
  <2>2. to = Max(T)
    BY <1>1, <2>1 DEF SplitAround
  <2>3. T \subseteq 1 .. n /\ T # {}
    BY <1>3, <1>4, <2>1
  <2>4. Max(T) \in T
    <3>1. \A U : U \subseteq 1 .. n /\ U # {} => Max(U) \in U
      BY GreatestNumber
    <3> QED
      BY <2>3, <3>1, Zenon
  <2>5. to \in 1 .. n
    BY <2>2, <2>3, <2>4, Zenon
  <2> QED
    BY <2>5
<1>7. ASSUME NEW k \in Nat, NEW m \in Nat, k <= m, m <= n
      PROVE  SubSeq(own, 1, k) \o SubSeq(own, k + 1, m) = SubSeq(own, 1, m)
  <2>1. 1 \in 1 .. Len(own) + 1 /\ k \in 1 - 1 .. Len(own) /\ m \in k .. Len(own)
    BY <1>4, <1>7
  <2> QED
    BY <1>3, <2>1, ConcatAdjacentSubSeq
<1>8. SubSeq(own, 1, from - 1) \o SubSeq(own, from, to) = SubSeq(own, 1, to)
  <2>1. from - 1 \in Nat /\ from - 1 <= to /\ (from - 1) + 1 = from
    BY <1>2, <1>5, <1>6
  <2>2. SubSeq(own, 1, from - 1) \o SubSeq(own, (from - 1) + 1, to) = SubSeq(own, 1, to)
    BY <1>6, <1>7, <2>1
  <2> QED
    BY <2>1, <2>2
<1>9. SubSeq(own, 1, to) \o SubSeq(own, to + 1, Len(own)) = own
  <2>1. SubSeq(own, 1, to) \o SubSeq(own, to + 1, n) = SubSeq(own, 1, n)
    BY <1>6, <1>7
  <2> QED
    BY <1>3, <1>4, <2>1, SubSeqFull
<1>10. PICK a, b : a = SubSeq(own, 1, from - 1) /\ b = SubSeq(own, to + 1, Len(own))
  OBVIOUS
<1>11. (a \o type) \o b = own
  BY <1>2, <1>8, <1>9, <1>10
<1>12. ExtractPrependAppend(type, own) = [prepend |-> a, append |-> b]
  BY <1>2, <1>10
<1>13. PICK r : r = ExtractPrependAppend(type, own)
  OBVIOUS
<1>14. r.prepend = a /\ r.append = b
  BY <1>12, <1>13
<1> QED
  BY <1>11, <1>13, <1>14

(* The walk of the exporter *)

Entities == Exported \cup {0}
EntityGets == [what : {"entity"}, id : Entities]
RuleGets == [what : {"rule"}, id : Types]
Entries == [id : Nat, children : Seq(Entities)]

\* The entities that are asked for or are to be, in that order.
IdsOf(req) == [i \in DOMAIN req |-> req[i].id]
Pending(req, queue) == IdsOf(req) \o queue

\* What is pending is what the dumped ones hold, each once; and what they hold is dumped,
\* pending or skipped.
PendingInv(pending, dumped) ==
    /\ dumped \subseteq Kept /\ IsFiniteSet(dumped)
    /\ pending \in Seq(Entities) /\ IsInjective(pending) /\ ToSet(pending) \cap dumped = {}
    /\ \A e \in ToSet(pending) \cup dumped : e = 0 \/ Holder[e] \in dumped
    /\ \A e \in Entities : (e = 0 \/ Holder[e] \in dumped) =>
          e \in dumped \/ e \in ToSet(pending) \/ Skipped(e)
    /\ dumped # {} => 0 \in dumped

\* What was written about the entities so far.
DumpInv(map, ids) ==
    /\ DOMAIN ids = DOMAIN map
    /\ \A d \in DOMAIN map :
          /\ map[d] \in Entries /\ ids[d] = map[d].id
          /\ ToSet(map[d].children) = {f \in DOMAIN map \ {0} : Holder[f] = d}
          /\ IsInjective(map[d].children)
          /\ IF preserveIds THEN map[d].id = d ELSE map[d].id < Cardinality(DOMAIN map)
    /\ \A d, f \in DOMAIN map : map[d].id = map[f].id => d = f

AskingTypes ==
    /\ requested \in Seq(RuleGets) /\ requested # <<>>
    /\ entityQueue = <<>> /\ entityMap = <<>> /\ idMapping = <<>>
    /\ exporting # "COMPLETE"

AskingEntities ==
    /\ requested \in Seq(EntityGets) /\ Len(requested) <= MaxOutstanding
    /\ entityQueue \in Seq(Entities)
    /\ exporting = "COMPLETE" => requested = <<>> /\ entityQueue = <<>>
    /\ PendingInv(Pending(requested, entityQueue), DOMAIN entityMap)
    /\ DumpInv(entityMap, idMapping)

\* A world that did not change.
ExportInv ==
    /\ changes \in Nat
    /\ changes = 0 => holder = Holder /\ preserveIds \in BOOLEAN /\ (AskingTypes \/ AskingEntities)

Joined(u, s, t) == u = s \o t
JoinedOf(S, u, s, t) ==
    /\ u \in Seq(S) /\ Len(u) = Len(s) + Len(t) /\ DOMAIN u = 1 .. (Len(s) + Len(t))
    /\ \A i \in 1 .. Len(s) : u[i] = s[i]
    /\ \A i \in 1 .. Len(t) : u[Len(s) + i] = t[i]

\* The members of two sequences one after the other.
LEMMA JoinedIs ==
    ASSUME NEW S, NEW s \in Seq(S), NEW t \in Seq(S), NEW u, Joined(u, s, t)
    PROVE  JoinedOf(S, u, s, t)
<1>1. PICK n, m : n = Len(s) /\ m = Len(t)
  OBVIOUS
<1>2. n \in Nat /\ m \in Nat
  BY <1>1
<1>3. /\ u \in Seq(S) /\ Len(u) = n + m
      /\ \A i \in 1 .. n + m : u[i] = IF i <= n THEN s[i] ELSE t[i - n]
  BY <1>1, ConcatProperties DEF Joined
<1>4. \A i \in 1 .. n : i \in 1 .. n + m /\ i <= n
  BY <1>2
<1>5. \A i \in 1 .. m : n + i \in 1 .. n + m /\ ~(n + i <= n) /\ (n + i) - n = i
  BY <1>2
<1>6. DOMAIN u = 1 .. (n + m)
  BY <1>3
<1>7. \A i \in 1 .. n : u[i] = s[i]
  BY <1>3, <1>4
<1>8. ASSUME NEW i \in 1 .. m PROVE u[n + i] = t[i]
  BY <1>3, <1>5
<1> QED
  BY <1>1, <1>3, <1>6, <1>7, <1>8 DEF JoinedOf

\* The ids of the entities asked for.
LEMMA IdsOfAre ==
    ASSUME NEW req \in Seq(EntityGets), NEW n, n = Len(req)
    PROVE  IdsOf(req) \in Seq(Entities) /\ Len(IdsOf(req)) = n /\ \A i \in 1 .. n : IdsOf(req)[i] = req[i].id
<1>1. \A x \in EntityGets : x.id \in Entities
  BY DEF EntityGets
<1>2. n \in Nat /\ DOMAIN req = 1 .. n /\ \A i \in 1 .. n : req[i] \in EntityGets
  OBVIOUS
<1> QED
  BY <1>1, <1>2 DEF IdsOf

\* What the assumption says of the entities and where they are.
LEMMA ExportedIs ==
    /\ Exported \subseteq Nat /\ 0 \notin Exported /\ IsFiniteSet(Exported)
    /\ \A e \in Exported : Holder[e] \in Entities /\ Holder[e] # Destroyed
    /\ Entities \subseteq Nat /\ 0 \in Entities /\ \A e \in Entities : e # 0 => e \in Exported
  BY ExporterAssumption DEF Entities

\* The entities to be kept are the least set that has the world and what is in its members,
\* without what is skipped.
LEMMA KeptIs ==
    ASSUME holder = Holder
    PROVE  /\ Kept \subseteq Entities /\ \A e \in Kept : ~Skipped(e)
           /\ \A e \in Entities : ~Skipped(e) /\ (e = 0 \/ Holder[e] \in Kept) => e \in Kept
           /\ \A S \in SUBSET Entities :
                 (/\ \A e \in S : ~Skipped(e)
                  /\ \A e \in Entities : ~Skipped(e) /\ (e = 0 \/ Holder[e] \in S) => e \in S)
                 => Kept \subseteq S
<1> DEFINE Wanted == {e \in Entities : ~Skipped(e)}
           Closed(S) == \A f \in Wanted : (f = 0 \/ Holder[f] \in S) => f \in S
<1>1. Kept = {e \in Wanted : \A S \in SUBSET Wanted : Closed(S) => e \in S}
  BY DEF Kept, Entities
<1>2. Kept \subseteq Entities /\ \A e \in Kept : ~Skipped(e)
  BY <1>1
<1>3. ASSUME NEW e \in Entities, ~Skipped(e), e = 0 \/ Holder[e] \in Kept PROVE e \in Kept
  <2> SUFFICES ASSUME NEW S \in SUBSET Wanted, Closed(S) PROVE e \in S
    BY <1>1, <1>3
  <2>1. Kept \subseteq S
    BY <1>1
  <2> QED
    BY <1>3, <2>1
<1>4. ASSUME NEW S \in SUBSET Entities, \A e \in S : ~Skipped(e),
             \A e \in Entities : ~Skipped(e) /\ (e = 0 \/ Holder[e] \in S) => e \in S
      PROVE  Kept \subseteq S
  <2>1. S \in SUBSET Wanted /\ Closed(S)
    BY <1>4
  <2> QED
    BY <1>1, <2>1
<1> QED
  BY <1>2, <1>3, <1>4

\* When nothing is pending any more, what is dumped is what is to be kept.
LEMMA AllDumped ==
    ASSUME holder = Holder, NEW dumped, PendingInv(<<>>, dumped)
    PROVE  dumped = Kept
<1>1. ToSet(<<>>) = {}
  BY DEF ToSet
<1>2. dumped \subseteq Kept /\ dumped \subseteq Entities /\ \A e \in dumped : ~Skipped(e)
  BY KeptIs DEF PendingInv
<1>3. \A e \in Entities : ~Skipped(e) /\ (e = 0 \/ Holder[e] \in dumped) => e \in dumped
  BY <1>1 DEF PendingInv
<1> QED
  BY <1>2, <1>3, KeptIs

\* What the invariant says when the export is complete.
LEMMA ExportImplies == ExportInv => ExportFaithful
<1> SUFFICES ASSUME ExportInv, exporting = "COMPLETE", changes = 0
             PROVE  /\ DOMAIN entityMap = Kept
                    /\ \A e \in Kept :
                          /\ ToSet(entityMap[e].children) = {f \in Kept \ {0} : holder[f] = e}
                          /\ IsInjective(entityMap[e].children)
                          /\ idMapping[e] = entityMap[e].id
                          /\ \A f \in Kept \ {e} : entityMap[f].id # entityMap[e].id
  BY AllListsRestored DEF ExportFaithful
<1>1. holder = Holder /\ AskingEntities
  BY DEF ExportInv, AskingTypes
<1>2. requested = <<>> /\ entityQueue = <<>>
  BY <1>1 DEF AskingEntities
<1>3. Pending(requested, entityQueue) = <<>>
  BY <1>2 DEF Pending, IdsOf
<1>4. DOMAIN entityMap = Kept
  BY <1>1, <1>3, AllDumped DEF AskingEntities
<1>5. DumpInv(entityMap, idMapping)
  BY <1>1 DEF AskingEntities
<1> QED
  BY <1>1, <1>4, <1>5 DEF DumpInv

\* The invariant holds when the root type is asked for.
LEMMA ExportStarts == ExporterInit => ExportInv
<1> SUFFICES ASSUME ExporterInit PROVE ExportInv
  OBVIOUS
<1>1. RuleGet(RootType) \in RuleGets
  BY ExporterAssumption DEF RuleGet, RuleGets
<1>2. requested \in Seq(RuleGets) /\ requested # <<>>
  BY <1>1 DEF ExporterInit
<1>3. AskingTypes
  BY <1>2 DEF AskingTypes, ExporterInit
<1> QED
  BY <1>3 DEF ExportInv, ExporterInit

\* operationGetRuleResult(): more types are asked for, or the world after the last one.
LEMMA GetRuleResultKeeps ==
    ASSUME ExportInv, GetRuleResult, UNCHANGED <<exportTransient, preserveIds>>
    PROVE  ExportInv'
<1>1. UNCHANGED <<exporting, holder, changes, entityQueue, entityMap, idMapping>>
  BY DEF GetRuleResult
<1> SUFFICES ASSUME changes = 0 PROVE AskingTypes' \/ AskingEntities'
  BY <1>1 DEF ExportInv
<1>2. requested # <<>> /\ Head(requested).what = "rule" /\ exporting = "RUNNING"
  BY DEF GetRuleResult, Answering
<1>3. AskingTypes
  <2>1. ASSUME AskingEntities PROVE FALSE
    <3>1. Head(requested) \in EntityGets
      BY <1>2, <2>1 DEF AskingEntities
    <3> QED
      BY <1>2, <3>1 DEF EntityGets
  <2> QED
    BY <2>1 DEF ExportInv
<1>4. PICK t, more, rest : /\ t = Head(requested).id
                           /\ more = [i \in DOMAIN Subtypes[t] |-> RuleGet(Subtypes[t][i])]
                           /\ rest = Tail(requested) \o more
                           /\ requested' = IF rest = <<>> THEN <<EntityGet(0)>> ELSE rest
  BY DEF GetRuleResult
<1>5. t \in Types /\ Subtypes[t] \in Seq(Types)
  <2>1. Head(requested) \in RuleGets
    BY <1>2, <1>3 DEF AskingTypes
  <2> QED
    BY <1>4, <2>1, ExporterAssumption DEF RuleGets
<1>6. more \in Seq(RuleGets)
  <2>1. \A u \in Types : RuleGet(u) \in RuleGets
    BY DEF RuleGet, RuleGets
  <2>2. Len(Subtypes[t]) \in Nat /\ DOMAIN Subtypes[t] = 1 .. Len(Subtypes[t]) /\ \A i \in DOMAIN Subtypes[t] : Subtypes[t][i] \in Types
    BY <1>5
  <2> QED
    BY <1>4, <2>1, <2>2
<1>7. rest \in Seq(RuleGets)
  BY <1>2, <1>3, <1>4, <1>6 DEF AskingTypes
<1>8. CASE rest # <<>>
  BY <1>1, <1>3, <1>4, <1>7, <1>8 DEF AskingTypes
<1>9. CASE rest = <<>>
  <2>1. EntityGet(0) \in EntityGets /\ EntityGet(0).id = 0
    BY ExportedIs DEF EntityGet, EntityGets
  <2>2. requested' = <<EntityGet(0)>>
    BY <1>4, <1>9
  <2>3. /\ requested' \in Seq(EntityGets) /\ Len(requested') = 1 /\ DOMAIN requested' = {1}
        /\ requested'[1].id = 0
    BY <2>1, <2>2
  <2>4. entityQueue' = <<>> /\ entityMap' = <<>> /\ idMapping' = <<>> /\ exporting' = "RUNNING"
    BY <1>1, <1>2, <1>3 DEF AskingTypes
  <2>5. PICK p : p = Pending(requested', entityQueue')
    OBVIOUS
  <2>6. p \in Seq(Entities) /\ Len(p) = 1 /\ DOMAIN p = {1} /\ p[1] = 0
    <3>1. PICK q : q = IdsOf(requested')
      OBVIOUS
    <3>2. 1 \in 1 .. 1
      OBVIOUS
    <3>3. q \in Seq(Entities) /\ Len(q) = 1 /\ q[1] = 0
      BY <2>3, <3>1, <3>2, IdsOfAre
    <3>4. p = q \o <<>>
      BY <2>4, <2>5, <3>1 DEF Pending
    <3> QED
      BY <3>3, <3>4
  <2>7. ToSet(p) = {0} /\ IsInjective(p)
    BY <2>6 DEF ToSet, IsInjective
  <2>8. DOMAIN entityMap' = {}
    BY <2>4
  <2>9. PendingInv(p, DOMAIN entityMap)'
    <3>1. IsFiniteSet({})
      BY FS_EmptySet
    <3> QED
      BY <2>6, <2>7, <2>8, <3>1 DEF PendingInv
  <2>10. DumpInv(entityMap, idMapping)'
    BY <2>4, <2>8 DEF DumpInv
  <2>11. 1 <= MaxOutstanding
    BY ExporterAssumption
  <2> QED
    BY <2>3, <2>4, <2>5, <2>9, <2>10, <2>11 DEF AskingEntities
<1> QED
  BY <1>8, <1>9

\* The least of two numbers.
LEMMA LessOfTwo ==
    ASSUME NEW a \in Int, NEW b \in Int
    PROVE  Min({a, b}) = IF a <= b THEN a ELSE b
<1>1. PICK m : m = IF a <= b THEN a ELSE b
  OBVIOUS
<1>2. m \in {a, b} /\ \A y \in {a, b} : m <= y
  BY <1>1
<1>3. \A x \in {a, b} : (\A y \in {a, b} : x <= y) => x = m
  BY <1>1
<1>4. Min({a, b}) = m
  BY <1>2, <1>3 DEF Min
<1> QED
  BY <1>1, <1>4

\* pollQueue() changes nothing about what is pending.
LEMMA PolledKeeps ==
    ASSUME NEW rest \in Seq(EntityGets), NEW queue \in Seq(Entities), Len(rest) < MaxOutstanding,
           PollQueue(rest, queue), exporting = "RUNNING"
    PROVE  /\ requested' \in Seq(EntityGets) /\ Len(requested') <= MaxOutstanding
           /\ entityQueue' \in Seq(Entities)
           /\ exporting' = "COMPLETE" => requested' = <<>> /\ entityQueue' = <<>>
           /\ Pending(requested', entityQueue') = Pending(rest, queue)
<1>1. PICK k, q : k = Len(rest) /\ q = Len(queue)
  OBVIOUS
<1>2. k \in Nat /\ q \in Nat /\ MaxOutstanding \in Nat /\ DOMAIN rest = 1 .. k /\ DOMAIN queue = 1 .. q
  BY <1>1, ExporterAssumption
<1>3. PICK n : n = Min({MaxOutstanding - k, q})
  OBVIOUS
<1>4. n \in Nat /\ n <= q /\ k + n <= MaxOutstanding /\ (q = 0 => n = 0)
  <2>1. n = IF MaxOutstanding - k <= q THEN MaxOutstanding - k ELSE q
    BY <1>2, <1>3, LessOfTwo
  <2> QED
    BY <1>1, <1>2, <2>1
<1>5. PICK asked : asked = [i \in 1 .. n |-> EntityGet(queue[i])]
  OBVIOUS
<1>6. asked \in Seq(EntityGets) /\ Len(asked) = n /\ \A i \in 1 .. n : asked[i].id = queue[i]
  <2>1. \A i \in 1 .. n : EntityGet(queue[i]) \in EntityGets /\ EntityGet(queue[i]).id = queue[i]
    <3>1. \A i \in 1 .. n : queue[i] \in Entities
      BY <1>2, <1>4
    <3> QED
      BY <3>1 DEF EntityGet, EntityGets
  <2> QED
    BY <1>4, <1>5, <2>1
<1>7. requested' = rest \o asked /\ entityQueue' = SubSeq(queue, n + 1, q)
  BY <1>1, <1>3, <1>5 DEF PollQueue
<1>8. /\ requested' \in Seq(EntityGets) /\ Len(requested') = k + n /\ DOMAIN requested' = 1 .. (k + n)
      /\ \A i \in 1 .. k : requested'[i] = rest[i]
      /\ \A i \in 1 .. n : requested'[k + i] = asked[i]
  <2>1. Len(rest) = k /\ Len(asked) = n
    BY <1>1, <1>6
  <2>2. PICK u : u = requested'
    OBVIOUS
  <2>3. /\ u \in Seq(EntityGets) /\ Len(u) = Len(rest) + Len(asked)
        /\ DOMAIN u = 1 .. (Len(rest) + Len(asked))
        /\ \A i \in 1 .. Len(rest) : u[i] = rest[i]
        /\ \A i \in 1 .. Len(asked) : u[Len(rest) + i] = asked[i]
    <3>1. asked \in Seq(EntityGets) /\ Joined(u, rest, asked)
      BY <1>6, <1>7, <2>2 DEF Joined
    <3>2. JoinedOf(EntityGets, u, rest, asked)
      BY <3>1, JoinedIs, Zenon
    <3> QED
      BY <3>2 DEF JoinedOf
  <2>4. Len(u) = k + n /\ DOMAIN u = 1 .. (k + n)
    BY <2>1, <2>3
  <2>5. \A i \in 1 .. k : u[i] = rest[i]
    BY <2>1, <2>3
  <2>6. \A i \in 1 .. n : u[k + i] = asked[i]
    BY <2>1, <2>3
  <2> QED
    BY <2>2, <2>3, <2>4, <2>5, <2>6
<1>9. /\ entityQueue' \in Seq(Entities) /\ Len(entityQueue') = q - n
      /\ \A i \in 1 .. (q - n) : entityQueue'[i] = queue[n + i]
  <2>1. \A i \in (n + 1) .. q : queue[i] \in Entities
    BY <1>2, <1>4
  <2>2. n + 1 \in Int /\ q \in Int
    BY <1>2, <1>4
  <2>3. PICK s : s = SubSeq(queue, n + 1, q)
    OBVIOUS
  <2>4. /\ s \in Seq(Entities) /\ Len(s) = IF n + 1 <= q THEN q - (n + 1) + 1 ELSE 0
        /\ \A i \in 1 .. q - (n + 1) + 1 : s[i] = queue[(n + 1) + i - 1]
    BY <2>1, <2>2, <2>3, SubSeqProperties
  <2>5. Len(s) = q - n /\ q - (n + 1) + 1 = q - n /\ \A i \in 1 .. (q - n) : (n + 1) + i - 1 = n + i
    BY <1>2, <1>4, <2>4
  <2> QED
    BY <1>7, <2>3, <2>4, <2>5
<1>10. exporting' = "COMPLETE" => requested' = <<>> /\ entityQueue' = <<>>
  <2>1. exporting' = "COMPLETE" => queue = <<>> /\ rest = <<>>
    BY DEF PollQueue
  <2>2. queue = <<>> /\ rest = <<>> => k = 0 /\ q = 0 /\ n = 0
    BY <1>1, <1>4
  <2>3. k + n = 0 => requested' = <<>>
    BY <1>8
  <2>4. q - n = 0 => entityQueue' = <<>>
    BY <1>9
  <2> QED
    BY <2>1, <2>2, <2>3, <2>4
<1>11. Pending(requested', entityQueue') = Pending(rest, queue)
  <2>1. PICK u, v : u = Pending(requested', entityQueue') /\ v = Pending(rest, queue)
    OBVIOUS
  <2>2. PICK f, g : f = IdsOf(requested') /\ g = IdsOf(rest)
    OBVIOUS
  <2>3. u = f \o entityQueue' /\ v = g \o queue
    BY <2>1, <2>2 DEF Pending
  <2>5. g \in Seq(Entities) /\ Len(g) = k /\ \A i \in 1 .. k : g[i] = rest[i].id
    BY <1>1, <2>2, IdsOfAre
  <2>6. f \in Seq(Entities) /\ Len(f) = k + n /\ \A i \in 1 .. (k + n) : f[i] = requested'[i].id
    BY <1>8, <2>2, IdsOfAre
  <2>7. /\ u \in Seq(Entities) /\ Len(u) = k + q
        /\ \A i \in 1 .. (k + n) : u[i] = f[i]
        /\ \A i \in 1 .. (q - n) : u[(k + n) + i] = entityQueue'[i]
    <3>1. (k + n) + (q - n) = k + q
      BY <1>2, <1>4
    <3>2. /\ u \in Seq(Entities) /\ Len(u) = (k + n) + (q - n)
          /\ \A i \in 1 .. (k + n) : u[i] = f[i]
          /\ \A i \in 1 .. (q - n) : u[(k + n) + i] = entityQueue'[i]
      <4>1. PICK w : w = entityQueue'
        OBVIOUS
      <4>2. /\ u \in Seq(Entities) /\ Len(u) = Len(f) + Len(w)
            /\ \A i \in 1 .. Len(f) : u[i] = f[i]
            /\ \A i \in 1 .. Len(w) : u[Len(f) + i] = w[i]
        <5>1. f \in Seq(Entities) /\ w \in Seq(Entities) /\ Joined(u, f, w)
          BY <1>9, <2>3, <2>6, <4>1 DEF Joined
        <5>2. JoinedOf(Entities, u, f, w)
          BY <5>1, JoinedIs, Zenon
        <5> QED
          BY <5>2 DEF JoinedOf
      <4>3. Len(f) = k + n /\ Len(w) = q - n
        BY <1>9, <2>6, <4>1
      <4>4. Len(u) = (k + n) + (q - n)
        BY <4>2, <4>3
      <4>5. \A i \in 1 .. (k + n) : u[i] = f[i]
        BY <4>2, <4>3
      <4>6. \A i \in 1 .. (q - n) : u[(k + n) + i] = w[i]
        BY <4>2, <4>3
      <4> QED
        BY <4>1, <4>2, <4>4, <4>5, <4>6
    <3> QED
      BY <3>1, <3>2
  <2>8. /\ v \in Seq(Entities) /\ Len(v) = k + q
        /\ \A i \in 1 .. k : v[i] = g[i]
        /\ \A i \in 1 .. q : v[k + i] = queue[i]
    <3>1. /\ v \in Seq(Entities) /\ Len(v) = Len(g) + Len(queue)
          /\ \A i \in 1 .. Len(g) : v[i] = g[i]
          /\ \A i \in 1 .. Len(queue) : v[Len(g) + i] = queue[i]
      <4>1. g \in Seq(Entities) /\ queue \in Seq(Entities) /\ Joined(v, g, queue)
        BY <2>3, <2>5 DEF Joined
      <4>2. JoinedOf(Entities, v, g, queue)
        BY <4>1, JoinedIs, Zenon
      <4> QED
        BY <4>2 DEF JoinedOf
    <3>2. Len(g) = k /\ Len(queue) = q
      BY <1>1, <2>5
    <3>3. Len(v) = k + q
      BY <3>1, <3>2
    <3>4. \A i \in 1 .. k : v[i] = g[i]
      BY <3>1, <3>2
    <3>5. \A i \in 1 .. q : v[k + i] = queue[i]
      BY <3>1, <3>2
    <3> QED
      BY <3>1, <3>3, <3>4, <3>5
  <2>9. ASSUME NEW i \in 1 .. (k + q) PROVE u[i] = v[i]
    <3>1. CASE i \in 1 .. k
      <4>1. i \in 1 .. (k + n)
        BY <1>2, <1>4, <3>1
      <4> QED
        BY <1>8, <2>5, <2>6, <2>7, <2>8, <3>1, <4>1
    <3>2. CASE i > k /\ i <= k + n
      <4>1. PICK j \in 1 .. n : i = k + j
        <5>1. i - k \in 1 .. n /\ i = k + (i - k)
          BY <1>2, <1>4, <3>2
        <5> QED
          BY <5>1
      <4>2. i \in 1 .. (k + n) /\ j \in 1 .. q
        BY <1>2, <1>4, <3>2
      <4>3. u[i] = asked[j].id /\ v[i] = queue[j]
        BY <1>8, <2>6, <2>7, <2>8, <4>1, <4>2
      <4> QED
        BY <1>6, <4>3
    <3>3. CASE i > k + n
      <4>1. PICK j \in 1 .. (q - n) : i = (k + n) + j
        <5>1. i - (k + n) \in 1 .. (q - n) /\ i = (k + n) + (i - (k + n))
          BY <1>2, <1>4, <3>3
        <5> QED
          BY <5>1
      <4>2. n + j \in 1 .. q /\ i = k + (n + j)
        BY <1>2, <1>4, <4>1
      <4>3. u[i] = entityQueue'[j] /\ v[i] = queue[n + j]
        BY <2>7, <2>8, <4>1, <4>2
      <4> QED
        BY <1>9, <4>3
    <3> QED
      BY <1>2, <1>4, <3>1, <3>2, <3>3
  <2>10. u = v
    BY <2>7, <2>8, <2>9, SeqEqual
  <2> QED
    BY <2>1, <2>10
<1> QED
  BY <1>4, <1>8, <1>9, <1>10, <1>11

\* The entity at the front is dealt with, and what is in it is queued.
LEMMA PendingNext ==
    ASSUME NEW req \in Seq(EntityGets), req # <<>>, NEW queue \in Seq(Entities), NEW content \in Seq(Entities)
    PROVE  /\ Pending(req, queue) \in Seq(Entities) /\ Pending(req, queue) # <<>>
           /\ Head(Pending(req, queue)) = Head(req).id
           /\ Pending(Tail(req), queue \o content) = Tail(Pending(req, queue)) \o content
<1>2. PICK ids : ids = IdsOf(req)
  OBVIOUS
<1>3. ids \in Seq(Entities) /\ ids # <<>> /\ Head(ids) = Head(req).id /\ Len(ids) = Len(req)
  <2>1. ids \in Seq(Entities) /\ Len(ids) = Len(req) /\ \A i \in 1 .. Len(req) : ids[i] = req[i].id
    BY <1>2, IdsOfAre
  <2>2. Len(req) \in Nat /\ Len(req) > 0
    OBVIOUS
  <2> QED
    BY <2>1, <2>2
<1>4. PICK rest : rest = Tail(req)
  OBVIOUS
<1>5. rest \in Seq(EntityGets) /\ Len(rest) = Len(req) - 1 /\ \A i \in 1 .. Len(rest) : rest[i] = req[i + 1]
  BY <1>4, HeadTailProperties
<1>6. IdsOf(rest) = Tail(ids)
  <2>1. PICK n, a, b : n = Len(req) - 1 /\ a = IdsOf(rest) /\ b = Tail(ids)
    OBVIOUS
  <2>2. a \in Seq(Entities) /\ Len(a) = n /\ \A i \in 1 .. n : a[i] = req[i + 1].id
    BY <1>5, <2>1, IdsOfAre
  <2>3. b \in Seq(Entities) /\ Len(b) = n /\ \A i \in 1 .. n : b[i] = ids[i + 1]
    BY <1>3, <2>1, HeadTailProperties
  <2>4. \A i \in 1 .. n : i + 1 \in 1 .. Len(req)
    BY <2>1
  <2>5. \A i \in 1 .. Len(req) : ids[i] = req[i].id
    BY <1>2, IdsOfAre
  <2>6. \A i \in 1 .. Len(a) : a[i] = b[i]
    BY <2>2, <2>3, <2>4, <2>5
  <2>7. a = b
    BY <2>2, <2>3, <2>6, SeqEqual
  <2> QED
    BY <2>1, <2>7
<1>7. Pending(req, queue) = ids \o queue /\ Pending(rest, queue \o content) = Tail(ids) \o (queue \o content)
  BY <1>2, <1>6 DEF Pending
<1>8. ids \o queue \in Seq(Entities) /\ ids \o queue # <<>> /\ Head(ids \o queue) = Head(ids)
  BY <1>3
<1>9. Tail(ids \o queue) = Tail(ids) \o queue
  BY <1>3
<1>10. Tail(ids) \in Seq(Entities) /\ Tail(ids) \o (queue \o content) = (Tail(ids) \o queue) \o content
  <2>1. Tail(ids) \in Seq(Entities)
    BY <1>3
  <2> QED
    BY <2>1, ConcatAssociative
<1> QED
  BY <1>3, <1>4, <1>7, <1>8, <1>9, <1>10

\* A sequence without repetitions from which the first member goes, and to which others are
\* added, has no repetitions.
LEMMA ShiftedSequence ==
    ASSUME NEW S, NEW p \in Seq(S), p # <<>>, IsInjective(p), NEW c \in Seq(S), IsInjective(c),
           ToSet(c) \cap ToSet(p) = {}, NEW q, q = Tail(p) \o c
    PROVE  /\ q \in Seq(S) /\ IsInjective(q) /\ ToSet(q) = (ToSet(p) \ {Head(p)}) \cup ToSet(c)
           /\ Head(p) \in ToSet(p)
<1>1. PICK n \in Nat, m \in Nat : n + 1 = Len(p) /\ m = Len(c)
  <2>1. Len(p) \in Nat /\ Len(p) > 0 /\ Len(c) \in Nat
    OBVIOUS
  <2>2. Len(p) - 1 \in Nat /\ (Len(p) - 1) + 1 = Len(p)
    BY <2>1
  <2> QED
    BY <2>1, <2>2
<1>2. DOMAIN p = 1 .. (n + 1) /\ DOMAIN c = 1 .. m /\ Head(p) = p[1]
  BY <1>1
<1>3. /\ Tail(p) \in Seq(S) /\ Len(Tail(p)) = n /\ \A i \in 1 .. n : Tail(p)[i] = p[i + 1]
  BY <1>1
<1>4. /\ q \in Seq(S) /\ Len(q) = n + m /\ DOMAIN q = 1 .. (n + m)
      /\ \A i \in 1 .. n : q[i] = p[i + 1]
      /\ \A i \in 1 .. (n + m) : i > n => q[i] = c[i - n]
  <2>1. /\ q \in Seq(S) /\ Len(q) = n + m
        /\ \A i \in 1 .. (n + m) : q[i] = IF i <= n THEN Tail(p)[i] ELSE c[i - n]
    <3>1. /\ Tail(p) \o c \in Seq(S) /\ Len(Tail(p) \o c) = Len(Tail(p)) + Len(c)
          /\ \A i \in 1 .. Len(Tail(p)) + Len(c) :
                (Tail(p) \o c)[i] = IF i <= Len(Tail(p)) THEN Tail(p)[i] ELSE c[i - Len(Tail(p))]
      BY <1>3, ConcatProperties
    <3> QED
      BY <1>1, <1>3, <3>1
  <2>2. \A i \in 1 .. n : i \in 1 .. (n + m) /\ i <= n
    OBVIOUS
  <2>3. \A i \in 1 .. (n + m) : i > n => ~(i <= n)
    OBVIOUS
  <2> QED
    BY <1>3, <2>1, <2>2, <2>3
<1>5. ASSUME NEW i \in 1 .. (n + m)
      PROVE  \/ i <= n /\ i + 1 \in DOMAIN p /\ q[i] = p[i + 1]
             \/ i > n /\ i - n \in DOMAIN c /\ q[i] = c[i - n]
  <2>1. CASE i <= n
    BY <1>2, <1>4, <2>1
  <2>2. CASE i > n
    BY <1>2, <1>4, <2>2
  <2>3. i <= n \/ i > n
    OBVIOUS
  <2> QED
    BY <2>1, <2>2, <2>3, Zenon
<1>6. ToSet(q) = (ToSet(p) \ {Head(p)}) \cup ToSet(c)
  <2>1. ASSUME NEW x \in ToSet(q) PROVE x \in (ToSet(p) \ {Head(p)}) \cup ToSet(c)
    <3>1. PICK i \in 1 .. (n + m) : x = q[i]
      BY <1>4 DEF ToSet
    <3>2. CASE i <= n /\ i + 1 \in DOMAIN p /\ q[i] = p[i + 1]
      <4>1. p[i + 1] # p[1]
        <5>1. 1 \in DOMAIN p /\ i + 1 # 1
          BY <1>2
        <5> QED
          BY <3>2, <5>1 DEF IsInjective
      <4> QED
        BY <1>2, <3>1, <3>2, <4>1 DEF ToSet
    <3>3. CASE i > n /\ i - n \in DOMAIN c /\ q[i] = c[i - n]
      BY <3>1, <3>3 DEF ToSet
    <3> QED
      BY <1>5, <3>2, <3>3
  <2>2. ASSUME NEW x \in ToSet(p) \ {Head(p)} PROVE x \in ToSet(q)
    <3>1. PICK i \in 1 .. (n + 1) : x = p[i] /\ i # 1
      BY <1>2 DEF ToSet
    <3>2. i - 1 \in 1 .. n /\ i - 1 \in 1 .. (n + m) /\ (i - 1) + 1 = i
      BY <3>1
    <3>3. q[i - 1] = x
      BY <1>4, <3>1, <3>2
    <3> QED
      BY <1>4, <3>2, <3>3 DEF ToSet
  <2>3. ASSUME NEW x \in ToSet(c) PROVE x \in ToSet(q)
    <3>1. PICK j \in 1 .. m : x = c[j]
      BY <1>2 DEF ToSet
    <3>2. n + j \in 1 .. (n + m) /\ n + j > n /\ (n + j) - n = j
      BY <3>1
    <3>3. q[n + j] = x
      BY <1>4, <3>1, <3>2
    <3> QED
      BY <1>4, <3>2, <3>3 DEF ToSet
  <2> QED
    BY <2>1, <2>2, <2>3
<1>7. IsInjective(q)
  <2> SUFFICES ASSUME NEW i \in 1 .. (n + m), NEW j \in 1 .. (n + m), q[i] = q[j] PROVE i = j
    BY <1>4 DEF IsInjective
  <2>1. CASE i <= n /\ j <= n
    <3>1. i + 1 \in DOMAIN p /\ j + 1 \in DOMAIN p /\ p[i + 1] = p[j + 1]
      BY <1>5, <2>1
    <3>2. i + 1 = j + 1
      BY <3>1 DEF IsInjective
    <3> QED
      BY <3>2
  <2>2. CASE i > n /\ j > n
    <3>0. ~(i <= n) /\ ~(j <= n)
      BY <2>2
    <3>1. i - n \in DOMAIN c /\ j - n \in DOMAIN c /\ c[i - n] = c[j - n]
      BY <1>5, <3>0, Zenon
    <3>2. i - n = j - n
      BY <3>1 DEF IsInjective
    <3> QED
      BY <3>2
  <2>3. ASSUME NEW a \in 1 .. (n + m), NEW b \in 1 .. (n + m), a <= n, b > n, q[a] = q[b] PROVE FALSE
    <3>0. ~(a > n) /\ ~(b <= n)
      BY <2>3
    <3>1. a + 1 \in DOMAIN p /\ b - n \in DOMAIN c /\ q[a] = p[a + 1] /\ q[b] = c[b - n]
      BY <1>5, <3>0, Zenon
    <3> QED
      BY <2>3, <3>1 DEF ToSet
  <2>4. (i <= n \/ i > n) /\ (j <= n \/ j > n)
    OBVIOUS
  <2> QED
    BY <2>1, <2>2, <2>3, <2>4, Zenon
<1>8. Head(p) \in ToSet(p)
  <2>1. 1 \in DOMAIN p
    BY <1>2
  <2> QED
    BY <1>2, <2>1 DEF ToSet
<1> QED
  BY <1>4, <1>6, <1>7, <1>8

\* An entity is entered under its container, with its id in the dump.
NewId(e, dumped) == IF preserveIds \/ e = 0 THEN e ELSE Cardinality(dumped)
Entered(e, dumped, persisted) ==
    /\ DOMAIN entityMap' = dumped \cup {e} /\ DOMAIN idMapping' = dumped \cup {e}
    /\ entityMap'[e] = [id |-> persisted, children |-> <<>>] /\ idMapping'[e] = persisted
    /\ \A d \in dumped :
          /\ idMapping'[d] = idMapping[d]
          /\ entityMap'[d] \in Entries /\ entityMap'[d].id = entityMap[d].id
          /\ entityMap'[d].children = IF e # 0 /\ d = Holder[e] THEN Append(entityMap[d].children, e)
                                     ELSE entityMap[d].children

\* dumpEntity(), of an entity that was not dumped and whose container was.
LEMMA DumpedIs ==
    ASSUME NEW e \in Entities, NEW dumped, dumped = DOMAIN entityMap, e \notin dumped,
           e # 0 => Holder[e] \in dumped, holder = Holder,
           DumpInv(entityMap, idMapping), DumpEntity(e),
           NEW persisted, persisted = NewId(e, dumped), persisted \in Nat
    PROVE  Entered(e, dumped, persisted)
<1> USE DEF Entered
<1>1. DOMAIN idMapping = dumped /\ \A d \in dumped : entityMap[d] \in Entries
  BY DEF DumpInv
<1>2. idMapping' = WithEntry(idMapping, e, persisted)
  BY <1>1 DEF DumpEntity, NewId
<1>3. /\ DOMAIN idMapping' = dumped \cup {e} /\ idMapping'[e] = persisted
      /\ \A d \in dumped : idMapping'[d] = idMapping[d]
  BY <1>1, <1>2 DEF WithEntry
<1>4. PICK new, full : new = [id |-> persisted, children |-> <<>>] /\ full = WithEntry(entityMap, e, new)
  OBVIOUS
<1>5. [EntryOf(entityMap, e) EXCEPT !.id = persisted] = new
  BY <1>4 DEF EntryOf
<1>6. entityMap' = IF e = 0 THEN full
                   ELSE WithEntry(full, Holder[e], [EntryOf(full, Holder[e]) EXCEPT !.children = Append(@, e)])
  BY <1>4, <1>5 DEF DumpEntity, NewId
<1>7. DOMAIN full = dumped \cup {e} /\ full[e] = new /\ \A d \in dumped : full[d] = entityMap[d]
  BY <1>4 DEF WithEntry
<1>8. CASE e = 0
  BY <1>1, <1>3, <1>4, <1>6, <1>7, <1>8
<1>9. CASE e # 0
  <2>1. PICK up, more : up = Holder[e] /\ more = [entityMap[up] EXCEPT !.children = Append(@, e)]
    OBVIOUS
  <2>2. up \in dumped /\ up # e /\ entityMap[up] \in Entries
    BY <1>1, <1>9, <2>1
  <2>3. /\ more \in Entries /\ more.id = entityMap[up].id /\ more.children = Append(entityMap[up].children, e)
    <3>1. more = [id |-> entityMap[up].id, children |-> Append(entityMap[up].children, e)]
      BY <2>1, <2>2 DEF Entries
    <3>2. entityMap[up].id \in Nat /\ entityMap[up].children \in Seq(Entities)
      BY <2>2 DEF Entries
    <3>3. Append(entityMap[up].children, e) \in Seq(Entities)
      BY <3>2
    <3> QED
      BY <3>1, <3>2, <3>3 DEF Entries
  <2>4. EntryOf(full, up) = entityMap[up]
    BY <1>7, <2>2 DEF EntryOf
  <2>5. entityMap' = WithEntry(full, up, more)
    BY <1>6, <1>9, <2>1, <2>4
  <2>6. /\ DOMAIN entityMap' = dumped \cup {e} /\ entityMap'[e] = new /\ entityMap'[up] = more
        /\ \A d \in dumped : d # up => entityMap'[d] = entityMap[d]
    BY <1>7, <2>2, <2>5 DEF WithEntry
  <2>7. ASSUME NEW d \in dumped
        PROVE  /\ entityMap'[d] \in Entries /\ entityMap'[d].id = entityMap[d].id
               /\ entityMap'[d].children = IF e # 0 /\ d = Holder[e] THEN Append(entityMap[d].children, e)
                                          ELSE entityMap[d].children
    <3>1. CASE d = up
      BY <1>9, <2>1, <2>3, <2>6, <3>1
    <3>2. CASE d # up
      BY <1>1, <1>9, <2>1, <2>6, <3>2
    <3> QED
      BY <3>1, <3>2
  <2> QED
    BY <1>3, <1>4, <2>6, <2>7
<1> QED
  BY <1>8, <1>9

\* dumpEntity() keeps what was written true, and gives the entity an id of its own.
LEMMA DumpKeeps ==
    ASSUME NEW e \in Entities, NEW dumped, dumped = DOMAIN entityMap, e \notin dumped, IsFiniteSet(dumped),
           e # 0 => Holder[e] \in dumped, e = 0 => dumped = {}, holder = Holder,
           \A d \in dumped : d \in Entities /\ (d = 0 \/ Holder[d] \in dumped),
           preserveIds \in BOOLEAN, preserveIds' = preserveIds,
           DumpInv(entityMap, idMapping), DumpEntity(e)
    PROVE  DumpInv(entityMap, idMapping)' /\ DOMAIN entityMap' = dumped \cup {e}
<1>0. PICK persisted : persisted = NewId(e, dumped)
  OBVIOUS
<1>1. PICK n : n = Cardinality(dumped) /\ persisted = IF preserveIds \/ e = 0 THEN e ELSE n
  BY <1>0 DEF NewId
<1>2. n \in Nat /\ Cardinality(dumped \cup {e}) = n + 1
  BY <1>1, FS_CardinalityType, FS_AddElement
<1>3. persisted \in Nat /\ e \in Nat
  BY <1>1, <1>2, ExportedIs
<1>4. /\ DOMAIN entityMap' = dumped \cup {e} /\ DOMAIN idMapping' = dumped \cup {e}
      /\ entityMap'[e] = [id |-> persisted, children |-> <<>>] /\ idMapping'[e] = persisted
      /\ \A d \in dumped :
            /\ idMapping'[d] = idMapping[d]
            /\ entityMap'[d] \in Entries /\ entityMap'[d].id = entityMap[d].id
            /\ entityMap'[d].children = IF e # 0 /\ d = Holder[e] THEN Append(entityMap[d].children, e)
                                       ELSE entityMap[d].children
  <2>1. Entered(e, dumped, persisted)
    BY <1>0, <1>3, DumpedIs, Zenon
  <2> QED
    BY <2>1 DEF Entered
<1>5. entityMap'[e].id = persisted /\ entityMap'[e].children = <<>> /\ entityMap'[e] \in Entries
  BY <1>3, <1>4 DEF Entries
<1>6. \A d \in dumped : d # 0 => Holder[d] # e
  OBVIOUS
<1>7. ASSUME NEW d \in dumped
      PROVE  /\ entityMap[d] \in Entries /\ idMapping[d] = entityMap[d].id
             /\ ToSet(entityMap[d].children) = {f \in dumped \ {0} : Holder[f] = d}
             /\ IsInjective(entityMap[d].children)
             /\ IF preserveIds THEN entityMap[d].id = d ELSE entityMap[d].id < n
  BY <1>1 DEF DumpInv
<1>8. ASSUME NEW d \in dumped \cup {e}
      PROVE  /\ entityMap'[d] \in Entries /\ idMapping'[d] = entityMap'[d].id
             /\ ToSet(entityMap'[d].children) = {f \in (dumped \cup {e}) \ {0} : Holder[f] = d}
             /\ IsInjective(entityMap'[d].children)
             /\ IF preserveIds THEN entityMap'[d].id = d ELSE entityMap'[d].id < n + 1
  <2>1. CASE d = e
    <3>1. ToSet(<<>>) = {} /\ IsInjective(<<>>)
      BY DEF ToSet, IsInjective
    <3>2. {f \in (dumped \cup {e}) \ {0} : Holder[f] = e} = {}
      <4>1. e # 0 => Holder[e] # e
        OBVIOUS
      <4> QED
        BY <1>6, <4>1
    <3>3. IF preserveIds THEN persisted = e ELSE persisted < n + 1
      BY <1>1, <1>2
    <3> QED
      BY <1>4, <1>5, <2>1, <3>1, <3>2, <3>3
  <2>2. CASE d # e
    <3>1. d \in dumped
      BY <2>2
    <3>2. PICK s, t : s = entityMap[d].children /\ t = entityMap'[d].children
      OBVIOUS
    <3>3. s \in Seq(Entities) /\ entityMap[d].id \in Nat
      BY <1>7, <3>1, <3>2 DEF Entries
    <3>4. CASE e # 0 /\ d = Holder[e]
      <4>1. t = Append(s, e) /\ e \notin ToSet(s)
        BY <1>4, <1>7, <3>1, <3>2, <3>4
      <4>2. PICK m \in Nat : m = Len(s)
        BY <3>3
      <4>3. DOMAIN s = 1 .. m /\ DOMAIN t = 1 .. (m + 1) /\ t[m + 1] = e /\ \A i \in 1 .. m : t[i] = s[i]
        BY <3>3, <4>1, <4>2
      <4>4. \A i \in 1 .. (m + 1) : i \in 1 .. m \/ i = m + 1
        OBVIOUS
      <4>5. \A i \in 1 .. m : i \in 1 .. (m + 1)
        OBVIOUS
      <4>6. m + 1 \in 1 .. (m + 1)
        OBVIOUS
      <4>7. ToSet(t) = ToSet(s) \cup {e}
        <5>1. ASSUME NEW x \in ToSet(t) PROVE x \in ToSet(s) \cup {e}
          <6>1. PICK i \in 1 .. (m + 1) : x = t[i]
            BY <4>3 DEF ToSet
          <6> QED
            BY <4>3, <4>4, <6>1 DEF ToSet
        <5>2. ASSUME NEW x \in ToSet(s) PROVE x \in ToSet(t)
          <6>1. PICK i \in 1 .. m : x = s[i]
            BY <4>3 DEF ToSet
          <6> QED
            BY <4>3, <4>5, <6>1 DEF ToSet
        <5>3. e \in ToSet(t)
          BY <4>3, <4>6 DEF ToSet
        <5> QED
          BY <5>1, <5>2, <5>3
      <4>8. IsInjective(t)
        <5> SUFFICES ASSUME NEW i \in 1 .. (m + 1), NEW j \in 1 .. (m + 1), t[i] = t[j] PROVE i = j
          BY <4>3 DEF IsInjective
        <5>1. CASE i \in 1 .. m /\ j \in 1 .. m
          BY <1>7, <3>1, <3>2, <4>3, <5>1 DEF IsInjective
        <5>2. \A k \in 1 .. m : t[k] # e
          BY <4>1, <4>3 DEF ToSet
        <5> QED
          BY <4>3, <4>4, <5>1, <5>2
      <4>9. {f \in (dumped \cup {e}) \ {0} : Holder[f] = d} = {f \in dumped \ {0} : Holder[f] = d} \cup {e}
        BY <3>4
      <4> QED
        BY <1>2, <1>4, <1>7, <3>1, <3>2, <3>3, <4>7, <4>8, <4>9
    <3>5. CASE ~(e # 0 /\ d = Holder[e])
      <4>1. t = s
        BY <1>4, <3>1, <3>2, <3>5
      <4>2. {f \in (dumped \cup {e}) \ {0} : Holder[f] = d} = {f \in dumped \ {0} : Holder[f] = d}
        BY <3>5
      <4> QED
        BY <1>2, <1>4, <1>7, <3>1, <3>2, <3>3, <4>1, <4>2
    <3> QED
      BY <3>4, <3>5
  <2> QED
    BY <2>1, <2>2
<1>9. ASSUME NEW d \in dumped PROVE entityMap'[d].id # persisted
  <2>1. CASE preserveIds
    BY <1>1, <1>4, <1>7, <2>1
  <2>2. CASE ~preserveIds
    <3>1. persisted = n
      BY <1>1, <2>2
    <3>2. entityMap[d].id < n /\ entityMap[d].id \in Nat
      BY <1>7, <2>2 DEF Entries
    <3> QED
      BY <1>2, <1>4, <3>1, <3>2
  <2> QED
    BY <2>1, <2>2
<1>10. ASSUME NEW d \in dumped \cup {e}, NEW f \in dumped \cup {e}, entityMap'[d].id = entityMap'[f].id PROVE d = f
  <2>1. CASE d \in dumped /\ f \in dumped
    BY <1>4, <1>10, <2>1 DEF DumpInv
  <2>2. CASE d = e \/ f = e
    BY <1>5, <1>9, <1>10, <2>2
  <2> QED
    BY <2>1, <2>2
<1> QED
  BY <1>2, <1>4, <1>8, <1>10 DEF DumpInv

Unmoved == UNCHANGED <<exportTransient, preserveIds, holder, transientTypes>>

\* What is skipped and what is kept follows from what the world and the types are.
LEMMA KeptStays ==
    ASSUME Unmoved
    PROVE  Kept' = Kept /\ \A e : Skipped(e)' = Skipped(e)
  BY DEF Unmoved, Kept, Skipped

\* The content of an entity.
LEMMA ContentIs ==
    ASSUME holder = Holder, NEW e \in Entities, NEW content \in ContentOf(e)
    PROVE  content \in Seq(Entities) /\ IsInjective(content) /\ ToSet(content) = {f \in Exported : Holder[f] = e}
<1>1. PICK S : S = {f \in Exported : Holder[f] = e}
  OBVIOUS
<1>2. IsFiniteSet(S) /\ S \subseteq Entities
  BY <1>1, ExportedIs, FS_Subset DEF Entities
<1>3. content \in SetToSeqs(S)
  BY <1>1 DEF ContentOf
<1>4. content \in Seq(S) /\ IsInjective(content) /\ ToSet(content) = S
  BY <1>2, <1>3, SetToSeqsAre
<1>5. content \in Seq(Entities)
  BY <1>2, <1>4
<1> QED
  BY <1>1, <1>4, <1>5

\* An entity that is skipped is no longer pending.
LEMMA SkippedNext ==
    ASSUME NEW p \in Seq(Entities), p # <<>>, NEW dumped, PendingInv(p, dumped), Skipped(Head(p)),
           NEW q, q = Tail(p) \o <<>>
    PROVE  PendingInv(q, dumped)
<1>1. <<>> \in Seq(Entities) /\ IsInjective(<<>>) /\ ToSet(<<>>) = {}
  BY DEF IsInjective, ToSet
<1>2. PICK c : c = <<>>
  OBVIOUS
<1>3. c \in Seq(Entities) /\ IsInjective(c) /\ ToSet(c) = {} /\ q = Tail(p) \o c
  BY <1>1, <1>2
<1>4. IsInjective(p)
  BY DEF PendingInv
<1>5. /\ q \in Seq(Entities) /\ IsInjective(q) /\ ToSet(q) = (ToSet(p) \ {Head(p)}) \cup ToSet(c)
      /\ Head(p) \in ToSet(p)
  BY <1>3, <1>4, ShiftedSequence
<1>6. ToSet(q) = ToSet(p) \ {Head(p)}
  BY <1>3, <1>5
<1> QED
  BY <1>5, <1>6 DEF PendingInv

\* The first of the pending ones makes room for what is in it.
Advanced(p, e, content, q) == p # <<>> /\ e = Head(p) /\ q = Tail(p) \o content

\* An entity that is dumped is no longer pending, and what is in it is.
LEMMA DumpedNext ==
    ASSUME NEW p \in Seq(Entities), NEW dumped, PendingInv(p, dumped), holder = Holder,
           NEW e, ~Skipped(e), NEW content \in ContentOf(e), NEW q, Advanced(p, e, content, q)
    PROVE  /\ e \in Entities /\ e \notin dumped /\ (e # 0 => Holder[e] \in dumped) /\ (e = 0 => dumped = {})
           /\ content \in Seq(Entities)
           /\ PendingInv(q, dumped \cup {e})
<1>0. p # <<>> /\ e = Head(p) /\ q = Tail(p) \o content
  BY DEF Advanced
<1>1. IsInjective(p) /\ ToSet(p) \cap dumped = {}
  BY DEF PendingInv
<1>2. e \in Entities /\ e \in ToSet(p)
  <2>1. 1 \in DOMAIN p /\ e = p[1] /\ p[1] \in Entities
    BY <1>0
  <2> QED
    BY <2>1 DEF ToSet
<1>3. e \notin dumped /\ (e # 0 => Holder[e] \in dumped) /\ (e = 0 => dumped = {})
  BY <1>1, <1>2 DEF PendingInv
<1>4. content \in Seq(Entities) /\ IsInjective(content) /\ ToSet(content) = {f \in Exported : Holder[f] = e}
  BY <1>2, ContentIs
<1>5. ToSet(content) \cap ToSet(p) = {}
  <2>1. \A f \in ToSet(p) : f = 0 \/ Holder[f] \in dumped
    BY DEF PendingInv
  <2> QED
    BY <1>3, <1>4, <2>1, ExportedIs
<1>6. /\ q \in Seq(Entities) /\ IsInjective(q) /\ ToSet(q) = (ToSet(p) \ {e}) \cup ToSet(content)
  BY <1>0, <1>1, <1>4, <1>5, ShiftedSequence
<1>7. PICK all : all = dumped \cup {e}
  OBVIOUS
<1>8. all \subseteq Kept
  <2>1. dumped \subseteq Kept
    BY DEF PendingInv
  <2>2. e \in Kept
    BY <1>2, <1>3, <2>1, KeptIs
  <2> QED
    BY <1>7, <2>1, <2>2
<1>9. IsFiniteSet(all)
  BY <1>7, FS_AddElement DEF PendingInv
<1>10. ToSet(q) \cap all = {}
  <2>1. \A f \in dumped : f = 0 \/ Holder[f] \in dumped
    BY DEF PendingInv
  <2>2. ToSet(content) \cap dumped = {}
    BY <1>3, <1>4, <2>1, ExportedIs
  <2>3. e \notin ToSet(content)
    BY <1>3, <1>4, ExportedIs
  <2> QED
    BY <1>1, <1>6, <1>7, <2>2, <2>3
<1>11. \A f \in ToSet(q) \cup all : f = 0 \/ Holder[f] \in all
  <2>1. \A f \in ToSet(p) \cup dumped : f = 0 \/ Holder[f] \in dumped
    BY DEF PendingInv
  <2> QED
    BY <1>2, <1>4, <1>6, <1>7, <2>1
<1>12. \A f \in Entities : (f = 0 \/ Holder[f] \in all) => f \in all \/ f \in ToSet(q) \/ Skipped(f)
  <2>1. \A f \in Entities : (f = 0 \/ Holder[f] \in dumped) => f \in dumped \/ f \in ToSet(p) \/ Skipped(f)
    BY DEF PendingInv
  <2>2. \A f \in Entities : f # 0 /\ Holder[f] = e => f \in ToSet(content)
    BY <1>4, ExportedIs
  <2> QED
    BY <1>6, <1>7, <2>1, <2>2
<1>13. 0 \in all
  BY <1>3, <1>7 DEF PendingInv
<1>14. PendingInv(q, all)
  BY <1>6, <1>8, <1>9, <1>10, <1>11, <1>12, <1>13 DEF PendingInv
<1> QED
  BY <1>2, <1>3, <1>4, <1>7, <1>14

\* infoArrived(): the entity is skipped, or dumped and its content queued.
LEMMA InfoArrivedKeeps ==
    ASSUME ExportInv, InfoArrived, UNCHANGED <<exportTransient, preserveIds>>
    PROVE  ExportInv'
<1>1. UNCHANGED <<holder, changes, transientTypes>> /\ Unmoved
  BY DEF InfoArrived, Unmoved
<1> SUFFICES ASSUME changes = 0 PROVE AskingEntities'
  BY <1>1 DEF ExportInv
<1>2. requested # <<>> /\ Head(requested).what = "entity" /\ exporting = "RUNNING"
  BY DEF InfoArrived, Answering
<1>3. AskingEntities /\ holder = Holder /\ preserveIds \in BOOLEAN
  <2>1. ASSUME AskingTypes PROVE FALSE
    <3>1. Head(requested) \in RuleGets
      BY <1>2, <2>1 DEF AskingTypes
    <3> QED
      BY <1>2, <3>1 DEF RuleGets
  <2> QED
    BY <2>1 DEF ExportInv
<1>4. PICK e, rest, p, dumped :
         /\ e = Head(requested).id /\ rest = Tail(requested)
         /\ p = Pending(requested, entityQueue) /\ dumped = DOMAIN entityMap
  OBVIOUS
<1>5. requested \in Seq(EntityGets) /\ Len(requested) <= MaxOutstanding /\ entityQueue \in Seq(Entities)
  BY <1>3 DEF AskingEntities
<1>6. rest \in Seq(EntityGets) /\ Len(rest) < MaxOutstanding
  <2>1. Len(requested) \in Nat /\ Len(requested) > 0 /\ rest \in Seq(EntityGets) /\ Len(rest) = Len(requested) - 1
    BY <1>2, <1>4, <1>5
  <2> QED
    BY <1>5, <2>1, ExporterAssumption
<1>7. PendingInv(p, dumped) /\ DumpInv(entityMap, idMapping)
  BY <1>3, <1>4 DEF AskingEntities
<1>8. <<>> \in Seq(Entities)
  OBVIOUS
<1>9. p \in Seq(Entities) /\ p # <<>> /\ Head(p) = e
  BY <1>2, <1>4, <1>5, <1>8, PendingNext
<1>10. ASSUME NEW q, NEW all, PendingInv(q, all) PROVE PendingInv(q, all)'
  BY <1>1, <1>10, KeptStays DEF PendingInv
<1>11. CASE Skipped(e)
  <2>1. UNCHANGED <<entityMap, idMapping>> /\ PollQueue(rest, entityQueue)
    BY <1>4, <1>11 DEF InfoArrived
  <2>2. PICK q : q = Pending(rest, entityQueue)
    OBVIOUS
  <2>3. q = Tail(p) \o <<>>
    <3>1. entityQueue \o <<>> = entityQueue
      BY <1>5
    <3>2. Pending(rest, entityQueue \o <<>>) = Tail(p) \o <<>>
      BY <1>2, <1>4, <1>5, <1>8, PendingNext
    <3> QED
      BY <2>2, <3>1, <3>2
  <2>4. PendingInv(q, dumped)
    BY <1>7, <1>9, <1>11, <2>3, SkippedNext
  <2>5. /\ requested' \in Seq(EntityGets) /\ Len(requested') <= MaxOutstanding
        /\ entityQueue' \in Seq(Entities)
        /\ exporting' = "COMPLETE" => requested' = <<>> /\ entityQueue' = <<>>
        /\ Pending(requested', entityQueue') = q
    BY <1>2, <1>5, <1>6, <2>1, <2>2, PolledKeeps
  <2>6. PendingInv(q, dumped)'
    BY <1>10, <2>4
  <2>7. DumpInv(entityMap, idMapping)'
    BY <1>7, <2>1 DEF DumpInv
  <2>8. dumped = DOMAIN entityMap'
    BY <1>4, <2>1
  <2>9. PendingInv(Pending(requested, entityQueue), DOMAIN entityMap)'
    BY <2>5, <2>6, <2>8
  <2> QED
    BY <2>5, <2>7, <2>9 DEF AskingEntities
<1>12. CASE ~Skipped(e)
  <2>1. PICK content \in ContentOf(e) : PollQueue(rest, entityQueue \o content)
    BY <1>4, <1>12 DEF InfoArrived
  <2>2. DumpEntity(e)
    BY <1>4, <1>12 DEF InfoArrived
  <2>3. PICK q : q = Tail(p) \o content
    OBVIOUS
  <2>4. /\ e \in Entities /\ e \notin dumped /\ (e # 0 => Holder[e] \in dumped) /\ (e = 0 => dumped = {})
        /\ content \in Seq(Entities)
        /\ PendingInv(q, dumped \cup {e})
    <3>1. Advanced(p, e, content, q)
      BY <1>9, <2>3 DEF Advanced
    <3>2. holder = Holder /\ PendingInv(p, dumped) /\ p \in Seq(Entities)
      BY <1>3, <1>7, <1>9
    <3> QED
      BY <1>12, <3>1, <3>2, DumpedNext
  <2>5. PICK queue : queue = entityQueue \o content
    OBVIOUS
  <2>6. queue \in Seq(Entities) /\ Pending(rest, queue) = q /\ PollQueue(rest, queue)
    <3>1. queue \in Seq(Entities)
      BY <1>5, <2>4, <2>5
    <3>2. Pending(rest, entityQueue \o content) = Tail(p) \o content
      BY <1>2, <1>4, <1>5, <2>4, PendingNext
    <3> QED
      BY <2>1, <2>3, <2>5, <3>1, <3>2
  <2>7. /\ requested' \in Seq(EntityGets) /\ Len(requested') <= MaxOutstanding
        /\ entityQueue' \in Seq(Entities)
        /\ exporting' = "COMPLETE" => requested' = <<>> /\ entityQueue' = <<>>
        /\ Pending(requested', entityQueue') = q
    BY <1>2, <1>6, <2>6, PolledKeeps
  <2>8. IsFiniteSet(dumped) /\ \A d \in dumped : d \in Entities /\ (d = 0 \/ Holder[d] \in dumped)
    BY <1>3, <1>7, KeptIs DEF PendingInv
  <2>9. DumpInv(entityMap, idMapping)' /\ DOMAIN entityMap' = dumped \cup {e}
    BY <1>3, <1>4, <1>7, <2>2, <2>4, <2>8, DumpKeeps
  <2>10. PendingInv(q, dumped \cup {e})'
    BY <1>10, <2>4
  <2>11. PendingInv(Pending(requested, entityQueue), DOMAIN entityMap)'
    BY <2>7, <2>9, <2>10
  <2> QED
    BY <2>7, <2>9, <2>11 DEF AskingEntities
<1> QED
  BY <1>11, <1>12

\* Each step of the exporter keeps the invariant.
LEMMA ExportSteps ==
    ASSUME ExportInv, [ExporterNext]_exporterVars
    PROVE  ExportInv'
<1>1. CASE GetRuleResult /\ UNCHANGED <<exportTransient, preserveIds>>
  BY <1>1, GetRuleResultKeeps
<1>2. CASE InfoArrived /\ UNCHANGED <<exportTransient, preserveIds>>
  BY <1>2, InfoArrivedKeeps
<1>3. CASE ErrorArrived
  <2>1. changes' = changes /\ holder[Head(requested).id] = Destroyed /\ Head(requested).id \in Exported
    BY <1>3 DEF ErrorArrived, Gone
  <2>2. changes # 0
    BY <2>1, ExportedIs DEF ExportInv
  <2> QED
    BY <2>1, <2>2 DEF ExportInv
<1>4. CASE Cancel /\ UNCHANGED <<exportTransient, preserveIds>>
  <2>1. /\ UNCHANGED <<holder, changes, requested, entityQueue, transientTypes, entityMap, idMapping, preserveIds>>
        /\ Unmoved /\ exporting' = "CANCELLED"
    BY <1>4 DEF Cancel, Unmoved
  <2>2. ASSUME NEW q, NEW all, PendingInv(q, all) PROVE PendingInv(q, all)'
    BY <2>1, <2>2, KeptStays DEF PendingInv
  <2>3. AskingTypes => AskingTypes'
    BY <2>1 DEF AskingTypes
  <2>4. ASSUME AskingEntities PROVE AskingEntities'
    <3>1. PICK p, dumped : p = Pending(requested, entityQueue) /\ dumped = DOMAIN entityMap
      OBVIOUS
    <3>2. PendingInv(p, dumped) /\ DumpInv(entityMap, idMapping)
      BY <2>4, <3>1 DEF AskingEntities
    <3>3. PendingInv(p, dumped)'
      BY <2>2, <3>2
    <3>4. PendingInv(Pending(requested, entityQueue), DOMAIN entityMap)'
      BY <2>1, <3>1, <3>3
    <3>5. DumpInv(entityMap, idMapping)'
      BY <2>1, <3>2 DEF DumpInv
    <3> QED
      BY <2>1, <2>4, <3>4, <3>5 DEF AskingEntities
  <2> QED
    BY <2>1, <2>3, <2>4 DEF ExportInv
<1>5. CASE \E e \in Exported, to \in Exported \cup {0, Destroyed} : Change(e, to)
  <2>1. changes' = changes + 1
    BY <1>5 DEF Change
  <2>2. changes' \in Nat /\ changes' # 0
    BY <2>1 DEF ExportInv
  <2> QED
    BY <2>2 DEF ExportInv
<1>6. CASE UNCHANGED exporterVars
  <2>1. /\ UNCHANGED <<holder, changes, requested, entityQueue, transientTypes, entityMap, idMapping, preserveIds, exporting>>
        /\ Unmoved
    BY <1>6 DEF exporterVars, Unmoved
  <2>2. ASSUME NEW q, NEW all, PendingInv(q, all) PROVE PendingInv(q, all)'
    BY <2>1, <2>2, KeptStays DEF PendingInv
  <2>3. AskingTypes => AskingTypes'
    BY <2>1 DEF AskingTypes
  <2>4. ASSUME AskingEntities PROVE AskingEntities'
    <3>1. PICK p, dumped : p = Pending(requested, entityQueue) /\ dumped = DOMAIN entityMap
      OBVIOUS
    <3>2. PendingInv(p, dumped) /\ DumpInv(entityMap, idMapping)
      BY <2>4, <3>1 DEF AskingEntities
    <3>3. PendingInv(p, dumped)'
      BY <2>2, <3>2
    <3>4. PendingInv(Pending(requested, entityQueue), DOMAIN entityMap)'
      BY <2>1, <3>1, <3>3
    <3>5. DumpInv(entityMap, idMapping)'
      BY <2>1, <3>2 DEF DumpInv
    <3> QED
      BY <2>1, <2>4, <3>4, <3>5 DEF AskingEntities
  <2> QED
    BY <2>1, <2>3, <2>4 DEF ExportInv
<1> QED
  BY <1>1, <1>2, <1>3, <1>4, <1>5, <1>6 DEF ExporterNext

\* An export that completes in a world that did not change wrote each entity to be kept once,
\* under its container and with an id of its own, and no list lost or gained a value
\* (EntityExporterBase, pollQueue(), infoArrived(), dumpEntity(), extractListPrependAppend()).
THEOREM ExportAlwaysFaithful == ExporterSpec => []ExportFaithful
<1>1. ExporterInit => ExportInv
  BY ExportStarts
<1>2. ExportInv /\ [ExporterNext]_exporterVars => ExportInv'
  BY ExportSteps
<1>3. ExportInv => ExportFaithful
  BY ExportImplies
<1> QED
  BY <1>1, <1>2, <1>3, PTL DEF ExporterSpec

=============================================================================
