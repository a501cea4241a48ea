--------------------------- MODULE ExchangeProofs ---------------------------
(***************************************************************************)
(* Proofs about the parts that handle what comes from elsewhere: the queue *)
(* of commands for a PostgreSQL server, what a mind of the AI client       *)
(* perceives and remembers, the stream of a network connection, the        *)
(* navigation mesh, the minds that the AI client lends and the types of    *)
(* entities.  The parts share no variables.                                *)
(***************************************************************************)
EXTENDS PostgresQueue, Memory, Streams, Awareness, AIClient, Rules, SequenceTheorems, FiniteSetTheorems,
        WellFoundedInduction, TLAPS

-----------------------------------------------------------------------------
(* The queue of DatabasePostgres *)

Query == [command : Nat, done : BOOLEAN]

\* The commands are numbered: those up to Base have left the queue, and AtFront is next.
Base == scheduled - Len(pendingQueries)
AtFront == Base + 1

QueueTypes ==
    /\ scheduled \in Nat /\ pendingQueries \in Seq(Query) /\ Len(pendingQueries) <= scheduled
    /\ queryInProgress \in BOOLEAN
    /\ connection \in {"ok", "broken", "bad", "null"}
    /\ session \in {"idle", "sent", "ran", "half"}

\* The queue holds the commands behind b, in order.
Numbered(b) == \A i \in DOMAIN pendingQueries : pendingQueries[i].command = b + i

HasRun(c) == \E i \in DOMAIN ran : ran[i] = c

\* What m_queryInProgress says of the command at the front: it is under way on this
\* connection, or it was on one that is lost.  Only that one can have its result read.
UnderWay ==
    /\ queryInProgress => pendingQueries # <<>>
    /\ session # "idle" => queryInProgress /\ connection = "ok"
    /\ session = "idle" /\ queryInProgress => AtFront \in stranded
    /\ session \in {"ran", "half"} => HasRun(AtFront)
    /\ \A i \in DOMAIN pendingQueries :
          pendingQueries[i].done => i = 1 /\ queryInProgress /\ HasRun(AtFront)

\* Nothing behind command n has run or was lost, and what may still run has not run.
RanTo(n) == ran \in Seq(Nat) /\ \A i \in DOMAIN ran : ran[i] \in 1 .. n /\ ran[i] \notin orphans
LostTo(n) == stranded \subseteq 1 .. n /\ orphans \subseteq stranded
\* Every command that left the queue has run or was lost with its connection.
Accounted(n) == \A c \in 1 .. n : HasRun(c) \/ c \in stranded
\* No command ran twice, and only lost ones ran late.
Ordered ==
    /\ IsInjective(ran)
    /\ \A i, j \in DOMAIN ran : i < j /\ ran[j] < ran[i] => ran[j] \in stranded

Limit == IF queryInProgress /\ session # "sent" THEN AtFront ELSE Base

PostgresInv ==
    /\ QueueTypes /\ Numbered(Base) /\ UnderWay
    /\ RanTo(Limit) /\ LostTo(Limit) /\ Accounted(Base) /\ Ordered

\* The invariant after a step, in terms of the last command b that has left the queue.
LEMMA InvAt ==
    ASSUME NEW b \in Nat, NEW n \in Nat, QueueTypes', scheduled' = b + Len(pendingQueries'),
           n = IF queryInProgress' /\ session' # "sent" THEN b + 1 ELSE b
    PROVE  /\ Base' = b /\ AtFront' = b + 1 /\ Limit' = n
           /\ Numbered(b)' /\ UnderWay' /\ RanTo(n)' /\ LostTo(n)' /\ Accounted(b)' /\ Ordered'
              => PostgresInv'
<1>1. Len(pendingQueries') \in Nat
  BY DEF QueueTypes
<1>2. Base' = b /\ AtFront' = b + 1 /\ Limit' = n
  BY <1>1 DEF Base, AtFront, Limit
<1> QED
  BY <1>2 DEF PostgresInv

\* Base is a number, and the front of the queue is the command behind it.
LEMMA FrontIs ==
    ASSUME PostgresInv
    PROVE  /\ Base \in Nat /\ scheduled = Base + Len(pendingQueries) /\ AtFront = Base + 1
           /\ Limit = IF queryInProgress /\ session # "sent" THEN Base + 1 ELSE Base
           /\ pendingQueries # <<>> => FrontQuery.command = AtFront /\ 1 \in DOMAIN pendingQueries
                                       /\ FrontQuery = pendingQueries[1]
<1>1. Len(pendingQueries) \in Nat /\ Base \in Nat /\ scheduled = Base + Len(pendingQueries)
  BY DEF PostgresInv, QueueTypes, Base
<1>2. pendingQueries # <<>> => 1 \in DOMAIN pendingQueries /\ FrontQuery = pendingQueries[1]
  BY DEF PostgresInv, QueueTypes, FrontQuery
<1>3. pendingQueries # <<>> => FrontQuery.command = AtFront
  BY <1>1, <1>2 DEF PostgresInv, Numbered, AtFront
<1> QED
  BY <1>1, <1>2, <1>3 DEF AtFront, Limit

\* When no query is in progress, all that is waiting has yet to be sent.
ReadyToLaunch(q, b) ==
    /\ q \in Seq(Query) /\ b \in Nat
    /\ \A i \in DOMAIN q : q[i].command = b + i /\ ~ q[i].done

LEMMA WaitingIsReady ==
    ASSUME PostgresInv, ~ queryInProgress
    PROVE  /\ ReadyToLaunch(pendingQueries, Base) /\ session = "idle" /\ Limit = Base
  BY FrontIs DEF PostgresInv, QueueTypes, Numbered, UnderWay, ReadyToLaunch

\* launchNewQuery() on a queue of which nothing was sent.
LEMMA LaunchKeeps ==
    ASSUME NEW q, NEW b, ReadyToLaunch(q, b), connection \in {"ok", "broken", "bad", "null"},
           RanTo(b), LostTo(b), Accounted(b), Ordered,
           LaunchNewQuery(q), pendingQueries' = q, scheduled' = b + Len(q),
           UNCHANGED <<ran, orphans>>
    PROVE  PostgresInv'
<1>0. b \in Nat /\ q \in Seq(Query) /\ Len(q) \in Nat /\ (q # <<>> => Head(q) = q[1] /\ 1 \in DOMAIN q)
  BY DEF ReadyToLaunch
<1>1. QueueTypes' /\ Numbered(b)'
  <2>1. scheduled' \in Nat /\ pendingQueries' \in Seq(Query) /\ Len(pendingQueries') <= scheduled'
    BY <1>0
  <2>2. /\ queryInProgress' \in BOOLEAN /\ connection' \in {"ok", "broken", "bad", "null"}
        /\ session' \in {"idle", "sent", "ran", "half"}
    BY DEF LaunchNewQuery
  <2>3. Numbered(b)'
    BY DEF ReadyToLaunch, Numbered
  <2> QED
    BY <2>1, <2>2, <2>3 DEF QueueTypes
<1>2. /\ q # <<>> => Head(q).command = b + 1
      /\ stranded' = stranded \/ (stranded' = stranded \cup {b + 1} /\ queryInProgress' /\ session' = "idle")
      /\ queryInProgress' => q # <<>>
      /\ session' # "idle" => queryInProgress' /\ connection' = "ok" /\ session' = "sent" /\ stranded' = stranded
      /\ queryInProgress' /\ session' = "idle" => b + 1 \in stranded'
  BY <1>0 DEF ReadyToLaunch, LaunchNewQuery
<1>3. PICK n \in Nat : b <= n /\ n = IF queryInProgress' /\ session' # "sent" THEN b + 1 ELSE b
  BY <1>0
<1>4. Base' = b /\ AtFront' = b + 1 /\ Limit' = n
  BY <1>0, <1>1, <1>3, InvAt
<1>5. UnderWay'
  BY <1>2, <1>4 DEF UnderWay, ReadyToLaunch
<1>6. RanTo(n)'
  BY <1>0, <1>3 DEF RanTo
<1>7. LostTo(n)'
  <2>1. stranded \subseteq 1 .. n /\ orphans \subseteq stranded
    BY <1>0, <1>3 DEF LostTo
  <2>2. CASE stranded' = stranded
    BY <2>1, <2>2 DEF LostTo
  <2>3. CASE stranded' = stranded \cup {b + 1} /\ n = b + 1
    BY <2>1, <2>3, <1>0 DEF LostTo
  <2> QED
    BY <1>2, <1>3, <2>2, <2>3
<1>8. Accounted(b)' /\ Ordered'
  BY <1>2 DEF Accounted, HasRun, Ordered
<1> QED
  BY <1>0, <1>1, <1>3, <1>5, <1>6, <1>7, <1>8, InvAt

\* A step that changes at most the connection, when nothing is under way on it.
LEMMA QuietKeeps ==
    ASSUME PostgresInv, UNCHANGED <<scheduled, pendingQueries, queryInProgress, session, ran, orphans, stranded>>,
           connection' \in {"ok", "broken", "bad", "null"}, connection' = connection \/ session = "idle"
    PROVE  PostgresInv'
  BY DEF PostgresInv, QueueTypes, Numbered, UnderWay, HasRun, RanTo, LostTo, Accounted, Ordered, Base, AtFront,
         Limit

\* scheduleCommand(): the new commands are behind all others and were not sent.
LEMMA PushKeeps ==
    ASSUME PostgresInv, NEW k \in Nat, Push(k)
    PROVE  PostgresInv'
<1>1. PICK b \in Nat, n \in Nat :
        /\ b = Base /\ n = IF queryInProgress /\ session # "sent" THEN b + 1 ELSE b
        /\ scheduled = b + Len(pendingQueries) /\ AtFront = b + 1 /\ Limit = n
  BY FrontIs
<1>2. /\ pendingQueries \in Seq(Query) /\ Len(pendingQueries) \in Nat /\ scheduled \in Nat
      /\ scheduled' = scheduled + k /\ ran' = ran /\ orphans' = orphans
      /\ connection \in {"ok", "broken", "bad", "null"}
  BY DEF PostgresInv, QueueTypes, Push
<1>3. PICK new : /\ new = [i \in 1 .. k |-> [command |-> scheduled + i, done |-> FALSE]]
                 /\ pendingQueries' = pendingQueries \o new
  BY DEF Push
<1>4. /\ new \in Seq(Query) /\ Len(new) = k
      /\ \A i \in 1 .. k : new[i].command = scheduled + i /\ ~ new[i].done
  <2>1. \A i \in 1 .. k : [command |-> scheduled + i, done |-> FALSE] \in Query
    BY <1>2 DEF Query
  <2> QED
    BY <1>3, <2>1
<1>5. PICK q : q = pendingQueries \o new
  OBVIOUS
<1>6. /\ pendingQueries' = q /\ q \in Seq(Query) /\ Len(q) = Len(pendingQueries) + k
      /\ \A i \in 1 .. Len(pendingQueries) : q[i] = pendingQueries[i]
      /\ \A i \in DOMAIN q : i > Len(pendingQueries) =>
            /\ i - Len(pendingQueries) \in 1 .. k
            /\ q[i] = new[i - Len(pendingQueries)]
  <2>1. pendingQueries' = q /\ q \in Seq(Query) /\ Len(q) = Len(pendingQueries) + k
    <3>1. pendingQueries' = q
      BY <1>3, <1>5
    <3>2. pendingQueries \o new \in Seq(Query)
      BY <1>2, <1>4
    <3>3. Len(pendingQueries \o new) = Len(pendingQueries) + Len(new)
      BY <1>2, <1>4
    <3> QED
      BY <1>4, <1>5, <3>1, <3>2, <3>3
  <2>2. \A i \in 1 .. Len(pendingQueries) : q[i] = pendingQueries[i]
    BY <1>2, <1>4, <1>5
  <2>3. \A i \in DOMAIN q : i > Len(pendingQueries) => q[i] = new[i - Len(pendingQueries)]
    BY <1>2, <1>4, <1>5
  <2>4. \A i \in DOMAIN q : i > Len(pendingQueries) => i - Len(pendingQueries) \in 1 .. k
    BY <1>2, <2>1
  <2> QED
    BY <2>1, <2>2, <2>3, <2>4
<1>7. \A i \in DOMAIN q : q[i].command = b + i
  <2> SUFFICES ASSUME NEW i \in DOMAIN q PROVE q[i].command = b + i
    OBVIOUS
  <2>1. i \in Nat /\ i >= 1 /\ i <= Len(q)
    BY <1>6
  <2>2. CASE i <= Len(pendingQueries)
    <3>1. i \in DOMAIN pendingQueries
      BY <1>2, <2>1, <2>2
    <3> QED
      BY <1>1, <1>2, <1>6, <2>1, <2>2, <3>1 DEF PostgresInv, Numbered
  <2>3. CASE i > Len(pendingQueries)
    BY <1>1, <1>2, <1>4, <1>6, <2>1, <2>3
  <2> QED
    BY <1>2, <2>1, <2>2, <2>3
<1>8. \A i \in DOMAIN q : q[i].done => i \in DOMAIN pendingQueries /\ pendingQueries[i].done
  BY <1>2, <1>4, <1>6
<1>9. scheduled' = b + Len(q)
  BY <1>1, <1>2, <1>6
<1>10. CASE queryInProgress
  <2>1. UNCHANGED <<queryInProgress, connection, session, stranded>>
    BY <1>10 DEF Push
  <2>2. QueueTypes'
    BY <1>2, <1>6, <1>9, <2>1 DEF PostgresInv, QueueTypes
  <2>3. AtFront' = b + 1
    BY <1>1, <1>6, <1>9, <2>1, <2>2, InvAt
  <2>4. UnderWay'
    <3>1. pendingQueries' # <<>>
      BY <1>2, <1>6, <1>10 DEF PostgresInv, UnderWay
    <3>2. HasRun(b + 1) => HasRun(b + 1)'
      BY <1>2 DEF HasRun
    <3> QED
      BY <1>1, <1>6, <1>8, <2>1, <2>3, <3>1, <3>2 DEF PostgresInv, UnderWay, HasRun
  <2>5. Numbered(b)' /\ RanTo(n)' /\ LostTo(n)' /\ Accounted(b)' /\ Ordered'
    BY <1>1, <1>2, <1>6, <1>7, <2>1 DEF PostgresInv, Numbered, RanTo, LostTo, Accounted, HasRun, Ordered
  <2> QED
    BY <1>1, <1>6, <1>9, <2>1, <2>2, <2>4, <2>5, InvAt
<1>11. CASE ~ queryInProgress
  <2>1. ReadyToLaunch(pendingQueries, b) /\ n = b
    BY <1>1, <1>11, WaitingIsReady
  <2>2. ReadyToLaunch(q, b)
    BY <1>6, <1>7, <1>8, <2>1 DEF ReadyToLaunch
  <2>3. LaunchNewQuery(q)
    BY <1>3, <1>5, <1>11 DEF Push
  <2>4. RanTo(b) /\ LostTo(b) /\ Accounted(b) /\ Ordered
    BY <1>1, <2>1 DEF PostgresInv
  <2> QED
    BY <1>2, <1>6, <1>9, <2>2, <2>3, <2>4, LaunchKeeps
<1> QED
  BY <1>10, <1>11

\* A connection is given up: the command that was under way on it is stranded.
LEMMA StrandKeeps ==
    ASSUME PostgresInv, Strand, UNCHANGED <<scheduled, pendingQueries, queryInProgress, ran>>,
           connection' \in {"ok", "broken", "bad", "null"}
    PROVE  PostgresInv'
<1>1. PICK b \in Nat, n \in Nat, m \in Nat :
        /\ b = Base /\ n = IF queryInProgress /\ session # "sent" THEN b + 1 ELSE b
        /\ m = IF queryInProgress' /\ session' # "sent" THEN b + 1 ELSE b
        /\ scheduled' = b + Len(pendingQueries') /\ AtFront = b + 1 /\ Limit = n
  BY FrontIs
<1>2. QueueTypes' /\ session' = "idle"
  BY DEF PostgresInv, QueueTypes, Strand
<1>3. Base' = b /\ AtFront' = b + 1 /\ Limit' = m
  BY <1>1, <1>2, InvAt
<1>4. session # "idle" => pendingQueries # <<>> /\ queryInProgress
  BY DEF PostgresInv, UnderWay
<1>5. /\ session = "idle" => stranded' = stranded /\ n = m
      /\ session # "idle" => stranded' = stranded \cup {b + 1} /\ m = b + 1
      /\ orphans' = orphans \/ (orphans' = orphans \cup {b + 1} /\ session = "sent" /\ n = b)
  BY <1>1, <1>2, <1>4, FrontIs DEF Strand
<1>6. RanTo(n) /\ LostTo(n) /\ n <= m
  BY <1>1, <1>2, <1>4 DEF PostgresInv
<1>7. RanTo(m)'
  BY <1>5, <1>6 DEF RanTo
<1>8. LostTo(m)'
  <2>1. stranded \subseteq 1 .. m /\ orphans \subseteq stranded
    BY <1>6 DEF LostTo
  <2>2. stranded' \subseteq 1 .. m
    <3>1. stranded' = stranded \/ (stranded' = stranded \cup {b + 1} /\ b + 1 \in 1 .. m)
      BY <1>1, <1>5
    <3> QED
      BY <2>1, <3>1
  <2>3. orphans' \subseteq stranded'
    BY <1>5, <2>1
  <2> QED
    BY <2>2, <2>3 DEF LostTo
<1>9. UnderWay'
  BY <1>1, <1>2, <1>3, <1>5 DEF PostgresInv, UnderWay, HasRun
<1>10. Numbered(b)' /\ Accounted(b)' /\ Ordered'
  BY <1>1, <1>5 DEF PostgresInv, Numbered, Accounted, HasRun, Ordered
<1> QED
  BY <1>1, <1>2, <1>7, <1>8, <1>9, <1>10, InvAt

\* The front has run, or is lost: it leaves the queue, of which nothing else was sent.
LEMMA PopIsReady ==
    ASSUME PostgresInv, queryInProgress, session = "sent" \/ session = "idle" \/ HasRun(AtFront)
    PROVE  /\ ReadyToLaunch(Tail(pendingQueries), Base + 1) /\ scheduled = Base + 1 + Len(Tail(pendingQueries))
           /\ session # "sent" => Accounted(Base + 1)
<1>1. PICK b \in Nat : b = Base /\ scheduled = b + Len(pendingQueries) /\ AtFront = b + 1
  BY FrontIs
<1>2. PICK q : q = Tail(pendingQueries)
  OBVIOUS
<1>3. pendingQueries \in Seq(Query) /\ pendingQueries # <<>> /\ Len(pendingQueries) \in Nat
  BY DEF PostgresInv, QueueTypes, UnderWay
<1>4. /\ q \in Seq(Query) /\ Len(q) = Len(pendingQueries) - 1
      /\ \A i \in DOMAIN q : q[i] = pendingQueries[i + 1] /\ i + 1 \in DOMAIN pendingQueries /\ i \in Nat /\ i >= 1
  BY <1>2, <1>3
<1>5. \A i \in DOMAIN q : q[i].command = (b + 1) + i
  BY <1>1, <1>4 DEF PostgresInv, Numbered
<1>6. \A i \in DOMAIN q : ~ q[i].done
  BY <1>4 DEF PostgresInv, UnderWay
<1>7. scheduled = b + 1 + Len(q)
  BY <1>1, <1>3, <1>4
<1>8. session # "sent" => Accounted(b + 1)
  BY <1>1 DEF PostgresInv, UnderWay, Accounted
<1> QED
  BY <1>1, <1>2, <1>4, <1>5, <1>6, <1>7, <1>8 DEF ReadyToLaunch

\* A command runs that is behind all that have run, or that was stranded before.
LEMMA RunsOnce ==
    ASSUME NEW n \in Nat, RanTo(n), NEW c \in Nat, ran' = Append(ran, c), Ordered, stranded' = stranded,
           c > n \/ (c \in stranded /\ ~ HasRun(c))
    PROVE  /\ Ordered' /\ HasRun(c)' /\ ran' \in Seq(Nat)
           /\ \A d : HasRun(d) => HasRun(d)'
           /\ \A i \in DOMAIN ran' : ran'[i] = c \/ \E j \in DOMAIN ran : ran'[i] = ran[j]
<1>1. /\ ran \in Seq(Nat) /\ Len(ran) \in Nat /\ ran' \in Seq(Nat) /\ Len(ran') = Len(ran) + 1
      /\ ran'[Len(ran) + 1] = c /\ \A i \in 1 .. Len(ran) : ran'[i] = ran[i]
      /\ DOMAIN ran = 1 .. Len(ran) /\ DOMAIN ran' = 1 .. (Len(ran) + 1)
  BY DEF RanTo
<1>2. \A i \in DOMAIN ran' : i = Len(ran) + 1 \/ i \in DOMAIN ran
  BY <1>1
<1>3. \A i \in DOMAIN ran : ran[i] # c /\ ran[i] \in Nat /\ (ran[i] > c => c \in stranded)
  BY <1>1 DEF RanTo, HasRun
<1>4. IsInjective(ran')
  BY <1>1, <1>2, <1>3 DEF Ordered, IsInjective
<1>5. \A i, j \in DOMAIN ran' : i < j /\ ran'[j] < ran'[i] => ran'[j] \in stranded'
  <2> SUFFICES ASSUME NEW i \in DOMAIN ran', NEW j \in DOMAIN ran', i < j, ran'[j] < ran'[i]
               PROVE  ran'[j] \in stranded
    OBVIOUS
  <2>1. i \in DOMAIN ran
    BY <1>1
  <2>2. CASE j = Len(ran) + 1
    BY <1>1, <1>3, <2>1, <2>2
  <2>3. CASE j \in DOMAIN ran
    BY <1>1, <2>1, <2>3 DEF Ordered
  <2> QED
    BY <1>2, <2>2, <2>3
<1>6. HasRun(c)' /\ \A d : HasRun(d) => HasRun(d)'
  BY <1>1 DEF HasRun
<1>7. \A i \in DOMAIN ran' : ran'[i] = c \/ \E j \in DOMAIN ran : ran'[i] = ran[j]
  BY <1>1, <1>2
<1> QED
  BY <1>1, <1>4, <1>5, <1>6, <1>7 DEF Ordered

\* clearPendingQuery() waits for the front, which leaves the queue.
LEMMA ClearKeeps ==
    ASSUME PostgresInv, queryInProgress, ClearPendingQuery, UNCHANGED <<scheduled, orphans, stranded>>
    PROVE  PostgresInv'
<1>1. CASE UNCHANGED <<pendingQueries, queryInProgress, session, connection, ran>>
  BY <1>1, QuietKeeps DEF PostgresInv, QueueTypes
<1>2. CASE /\ pendingQueries' = Tail(pendingQueries) /\ queryInProgress' = FALSE /\ session' = "idle"
           /\ ran' = IF session = "sent" THEN Append(ran, FrontQuery.command) ELSE ran
           /\ connection' = IF connection = "broken" THEN "bad" ELSE connection
  <2>0. PICK q : q = Tail(pendingQueries)
    OBVIOUS
  <2>1. PICK b \in Nat, n \in Nat :
          /\ b = Base /\ n = IF queryInProgress /\ session # "sent" THEN b + 1 ELSE b
          /\ AtFront = b + 1 /\ Limit = n /\ FrontQuery.command = b + 1 /\ q = Tail(pendingQueries)
    <3>1. pendingQueries # <<>>
      BY DEF PostgresInv, UnderWay
    <3> QED
      BY <2>0, <3>1, FrontIs
  <2>2. PICK m \in Nat : m = b + 1 /\ n <= m
    BY <2>1
  <2>3. session = "sent" \/ session = "idle" \/ HasRun(AtFront)
    BY DEF PostgresInv, QueueTypes, UnderWay
  <2>4. ReadyToLaunch(q, m) /\ scheduled' = m + Len(q) /\ (session # "sent" => Accounted(m))
    BY <2>1, <2>2, <2>3, PopIsReady
  <2>5. q \in Seq(Query) /\ Len(q) \in Nat
    BY <2>4 DEF ReadyToLaunch
  <2>6. QueueTypes'
    <3>1. scheduled' \in Nat /\ pendingQueries' \in Seq(Query) /\ Len(pendingQueries') <= scheduled'
      BY <1>2, <2>1, <2>2, <2>4, <2>5
    <3>2. connection' \in {"ok", "broken", "bad", "null"}
      BY <1>2 DEF PostgresInv, QueueTypes
    <3> QED
      BY <1>2, <3>1, <3>2 DEF QueueTypes
  <2>7. Numbered(m)'
    BY <1>2, <2>1, <2>4 DEF ReadyToLaunch, Numbered
  <2>8. UnderWay'
    BY <1>2, <2>1, <2>4 DEF ReadyToLaunch, UnderWay
  <2>9. LostTo(m)'
    <3>1. LostTo(n)
      BY <2>1 DEF PostgresInv
    <3> QED
      BY <3>1, <2>2 DEF LostTo
  <2>10. RanTo(m)' /\ Accounted(m)' /\ Ordered'
    <3>1. RanTo(n) /\ LostTo(n) /\ Accounted(b) /\ Ordered
      BY <2>1 DEF PostgresInv
    <3>2. CASE session # "sent"
      BY <1>2, <2>2, <2>4, <3>1, <3>2 DEF RanTo, Accounted, HasRun, Ordered
    <3>3. CASE session = "sent"
      <4>1. n = b /\ ran' = Append(ran, m) /\ m > n
        BY <1>2, <2>1, <2>2, <3>3
      <4>2. /\ Ordered' /\ HasRun(m)' /\ ran' \in Seq(Nat)
            /\ \A d : HasRun(d) => HasRun(d)'
            /\ \A i \in DOMAIN ran' : ran'[i] = m \/ \E j \in DOMAIN ran : ran'[i] = ran[j]
        BY <2>2, <3>1, <4>1, RunsOnce
      <4>3. m \notin orphans
        BY <2>2, <3>1, <4>1 DEF LostTo
      <4>4. RanTo(m)'
        <5> SUFFICES ASSUME NEW i \in DOMAIN ran' PROVE ran'[i] \in 1 .. m /\ ran'[i] \notin orphans
          BY <4>2 DEF RanTo
        <5>1. CASE ran'[i] = m
          BY <2>2, <4>3, <5>1
        <5>2. CASE \E j \in DOMAIN ran : ran'[i] = ran[j]
          BY <2>2, <3>1, <5>2 DEF RanTo
        <5> QED
          BY <4>2, <5>1, <5>2
      <4>5. Accounted(m)'
        <5> SUFFICES ASSUME NEW c \in 1 .. m PROVE HasRun(c)' \/ c \in stranded'
          BY DEF Accounted
        <5>1. c = m \/ c \in 1 .. b
          BY <2>2
        <5> QED
          BY <3>1, <4>2, <5>1 DEF Accounted
      <4> QED
        BY <4>2, <4>4, <4>5
    <3> QED
      BY <3>2, <3>3
  <2> QED
    BY <1>2, <2>1, <2>2, <2>4, <2>6, <2>7, <2>8, <2>9, <2>10, InvAt
<1> QED
  BY <1>1, <1>2 DEF ClearPendingQuery

\* A synchronous query waits for the one under way, or notices that the connection is lost.
LEMMA SynchronousQueryKeeps ==
    ASSUME PostgresInv, SynchronousQuery PROVE PostgresInv'
<1>1. CASE queryInProgress
  BY <1>1, ClearKeeps DEF SynchronousQuery
<1>2. CASE ~ queryInProgress
  <2>1. session = "idle" /\ connection \in {"ok", "broken", "bad", "null"}
    BY <1>2, WaitingIsReady DEF PostgresInv, QueueTypes
  <2> QED
    BY <1>2, <2>1, QuietKeeps DEF SynchronousQuery
<1> QED
  BY <1>1, <1>2

\* queryResult() marks the front as done: it has run.
LEMMA ReadResultKeeps ==
    ASSUME PostgresInv, ReadResult PROVE PostgresInv'
<1>1. PICK b \in Nat, n \in Nat :
        /\ b = Base /\ n = IF queryInProgress /\ session # "sent" THEN b + 1 ELSE b
        /\ scheduled = b + Len(pendingQueries) /\ AtFront = b + 1 /\ Limit = n
  BY FrontIs
<1>2. /\ session = "ran" /\ session' = "half" /\ queryInProgress /\ pendingQueries # <<>> /\ HasRun(b + 1)
      /\ UNCHANGED <<scheduled, queryInProgress, connection, ran, orphans, stranded>>
      /\ pendingQueries' = [pendingQueries EXCEPT ![1].done = TRUE] /\ connection = "ok"
  BY <1>1 DEF ReadResult, PostgresInv, UnderWay
<1>3. /\ pendingQueries' \in Seq(Query) /\ Len(pendingQueries') = Len(pendingQueries)
      /\ DOMAIN pendingQueries' = DOMAIN pendingQueries /\ pendingQueries' # <<>>
      /\ \A i \in DOMAIN pendingQueries :
            /\ pendingQueries'[i].command = pendingQueries[i].command
            /\ i # 1 => pendingQueries'[i].done = pendingQueries[i].done
  <2>1. /\ pendingQueries \in Seq(Query) /\ 1 \in DOMAIN pendingQueries
        /\ \A i \in DOMAIN pendingQueries : pendingQueries[i] \in Query
    BY <1>2 DEF PostgresInv, QueueTypes
  <2>2. [pendingQueries[1] EXCEPT !.done = TRUE] \in Query
    BY <2>1 DEF Query
  <2>3. pendingQueries' \in Seq(Query) /\ Len(pendingQueries') = Len(pendingQueries)
    BY <1>2, <2>1, <2>2
  <2>4. DOMAIN pendingQueries' = DOMAIN pendingQueries
    BY <1>2
  <2>5. \A i \in DOMAIN pendingQueries :
            /\ pendingQueries'[i].command = pendingQueries[i].command
            /\ i # 1 => pendingQueries'[i].done = pendingQueries[i].done
    BY <1>2, <2>1 DEF Query
  <2> QED
    BY <2>1, <2>3, <2>4, <2>5
<1>4. QueueTypes'
  BY <1>2, <1>3 DEF PostgresInv, QueueTypes
<1>5. AtFront' = b + 1 /\ scheduled' = b + Len(pendingQueries')
  BY <1>1, <1>2, <1>3, <1>4, InvAt
<1>6. HasRun(b + 1)'
  BY <1>2 DEF HasRun
<1>7. UnderWay'
  BY <1>2, <1>3, <1>5, <1>6 DEF PostgresInv, UnderWay
<1>8. Numbered(b)' /\ RanTo(n)' /\ LostTo(n)' /\ Accounted(b)' /\ Ordered'
  BY <1>1, <1>2, <1>3 DEF PostgresInv, Numbered, RanTo, LostTo, Accounted, HasRun, Ordered
<1> QED
  BY <1>1, <1>2, <1>4, <1>5, <1>7, <1>8, InvAt

\* queryComplete() removes the front, which has run, and the next one is launched.
LEMMA ReadCompleteKeeps ==
    ASSUME PostgresInv, ReadComplete PROVE PostgresInv'
<1>0. PICK q : q = Tail(pendingQueries)
  OBVIOUS
<1>1. queryInProgress /\ session # "sent"
  BY DEF ReadComplete, PostgresInv, UnderWay
<1>2. session = "sent" \/ session = "idle" \/ HasRun(AtFront)
  BY DEF ReadComplete, PostgresInv, UnderWay
<1>3. PICK m \in Nat : m = Base + 1 /\ Limit = m
  BY <1>1, FrontIs
<1>4. ReadyToLaunch(q, m) /\ scheduled' = m + Len(q) /\ Accounted(m)
  BY <1>0, <1>1, <1>2, <1>3, PopIsReady DEF ReadComplete
<1>5. RanTo(m) /\ LostTo(m) /\ Ordered /\ connection \in {"ok", "broken", "bad", "null"}
  BY <1>3 DEF PostgresInv, QueueTypes
<1>6. LaunchNewQuery(q) /\ pendingQueries' = q /\ UNCHANGED <<ran, orphans>>
  BY <1>0 DEF ReadComplete
<1> QED
  BY <1>4, <1>5, <1>6, LaunchKeeps

\* With nothing under way, launchNewQuery() sends the front.
LEMMA RelaunchKeeps ==
    ASSUME PostgresInv, ~ queryInProgress, LaunchNewQuery(pendingQueries),
           UNCHANGED <<scheduled, pendingQueries, ran, orphans>>
    PROVE  PostgresInv'
<1>1. PICK b, q : b \in Nat /\ b = Base /\ q = pendingQueries /\ scheduled = b + Len(q)
  BY FrontIs
<1>2. ReadyToLaunch(q, b) /\ Limit = b
  BY <1>1, WaitingIsReady
<1>3. RanTo(b) /\ LostTo(b) /\ Accounted(b) /\ Ordered /\ connection \in {"ok", "broken", "bad", "null"}
  BY <1>1, <1>2 DEF PostgresInv, QueueTypes
<1>4. LaunchNewQuery(q) /\ pendingQueries' = q
  BY <1>1
<1> QED
  BY <1>1, <1>2, <1>3, <1>4, LaunchKeeps

\* The server runs the command it was sent.
LEMMA ServerRunsKeeps ==
    ASSUME PostgresInv, ServerRuns PROVE PostgresInv'
<1>1. PICK b \in Nat, m \in Nat :
        /\ b = Base /\ m = b + 1 /\ scheduled = b + Len(pendingQueries) /\ AtFront = m /\ Limit = b
  BY FrontIs DEF ServerRuns
<1>2. /\ session = "sent" /\ session' = "ran" /\ queryInProgress /\ FrontQuery.command = m
      /\ UNCHANGED <<scheduled, pendingQueries, queryInProgress, connection, orphans, stranded>>
      /\ ran' = Append(ran, m)
  <2>1. pendingQueries # <<>> /\ queryInProgress
    BY DEF ServerRuns, PostgresInv, UnderWay
  <2>2. FrontQuery.command = m
    BY <1>1, <2>1, FrontIs
  <2> QED
    BY <2>1, <2>2 DEF ServerRuns
<1>3. QueueTypes'
  BY <1>2 DEF PostgresInv, QueueTypes
<1>4. AtFront' = m
  BY <1>1, <1>2, <1>3, InvAt
<1>5. RanTo(b) /\ LostTo(b) /\ Accounted(b) /\ Ordered
  BY <1>1 DEF PostgresInv
<1>6. /\ Ordered' /\ HasRun(m)' /\ ran' \in Seq(Nat)
      /\ \A d : HasRun(d) => HasRun(d)'
      /\ \A i \in DOMAIN ran' : ran'[i] = m \/ \E j \in DOMAIN ran : ran'[i] = ran[j]
  BY <1>1, <1>2, <1>5, RunsOnce
<1>7. LostTo(m)' /\ m \notin orphans
  BY <1>1, <1>2, <1>5 DEF LostTo
<1>8. RanTo(m)'
  <2> SUFFICES ASSUME NEW i \in DOMAIN ran' PROVE ran'[i] \in 1 .. m /\ ran'[i] \notin orphans'
    BY <1>6 DEF RanTo
  <2>1. CASE ran'[i] = m
    BY <1>1, <1>2, <1>7, <2>1
  <2>2. CASE \E j \in DOMAIN ran : ran'[i] = ran[j]
    BY <1>1, <1>2, <1>5, <2>2 DEF RanTo
  <2> QED
    BY <1>6, <2>1, <2>2
<1>9. UnderWay'
  BY <1>1, <1>2, <1>4, <1>6 DEF PostgresInv, UnderWay
<1>10. Accounted(b)' /\ Numbered(b)'
  BY <1>1, <1>2, <1>5, <1>6 DEF PostgresInv, Accounted, Numbered
<1> QED
  BY <1>1, <1>2, <1>3, <1>6, <1>7, <1>8, <1>9, <1>10, InvAt

\* A command of a lost connection is run late, or is not run.
LEMMA OrphanEndsKeeps ==
    ASSUME PostgresInv, OrphanEnds PROVE PostgresInv'
<1>1. PICK c \in orphans : orphans' = orphans \ {c} /\ ran' \in {ran, Append(ran, c)}
  BY DEF OrphanEnds
<1>2. UNCHANGED <<scheduled, pendingQueries, queryInProgress, connection, session, stranded>>
  BY DEF OrphanEnds
<1>3. PICK b \in Nat, n \in Nat :
        /\ b = Base /\ n = IF queryInProgress /\ session # "sent" THEN b + 1 ELSE b
        /\ scheduled = b + Len(pendingQueries) /\ AtFront = b + 1 /\ Limit = n
  BY FrontIs
<1>4. QueueTypes' /\ Numbered(b)'
  BY <1>2, <1>3 DEF PostgresInv, QueueTypes, Numbered
<1>5. AtFront' = b + 1
  BY <1>2, <1>3, <1>4, InvAt
<1>6. RanTo(n) /\ LostTo(n) /\ Accounted(b) /\ Ordered
  BY <1>3 DEF PostgresInv
<1>7. c \in stranded /\ c \in 1 .. n /\ c \in Nat /\ ~ HasRun(c)
  BY <1>1, <1>3, <1>6 DEF RanTo, LostTo, HasRun
<1>8. LostTo(n)'
  BY <1>1, <1>2, <1>6 DEF LostTo
<1>9. /\ RanTo(n)' /\ Ordered' /\ \A d : HasRun(d) => HasRun(d)'
  <2>1. CASE ran' = ran
    BY <1>1, <1>2, <1>6, <2>1 DEF RanTo, Ordered, HasRun
  <2>2. CASE ran' = Append(ran, c)
    <3>1. /\ Ordered' /\ ran' \in Seq(Nat) /\ \A d : HasRun(d) => HasRun(d)'
          /\ \A i \in DOMAIN ran' : ran'[i] = c \/ \E j \in DOMAIN ran : ran'[i] = ran[j]
      BY <1>2, <1>3, <1>6, <1>7, <2>2, RunsOnce
    <3>2. \A i \in DOMAIN ran' : ran'[i] \in 1 .. n /\ ran'[i] \notin orphans'
      BY <1>1, <1>6, <1>7, <3>1 DEF RanTo
    <3> QED
      BY <3>1, <3>2 DEF RanTo
  <2> QED
    BY <1>1, <2>1, <2>2
<1>10. UnderWay'
  BY <1>2, <1>3, <1>5, <1>9 DEF PostgresInv, UnderWay
<1>11. Accounted(b)'
  BY <1>2, <1>6, <1>9 DEF Accounted
<1> QED
  BY <1>2, <1>3, <1>4, <1>8, <1>9, <1>10, <1>11, InvAt

\* A command that is not in the queue has run, or was lost with its connection.
LEMMA InvImpliesInOrder ==
    PostgresInv => PostgresInOrder
<1> SUFFICES ASSUME PostgresInv PROVE PostgresInOrder
  OBVIOUS
<1>1. Base \in Nat /\ scheduled = Base + Len(pendingQueries) /\ Len(pendingQueries) \in Nat
  BY FrontIs DEF PostgresInv, QueueTypes
<1>2. Dropped \subseteq stranded
  <2> SUFFICES ASSUME NEW c \in 1 .. scheduled, c \notin Range(ran),
                      c \notin {pendingQueries[i].command : i \in DOMAIN pendingQueries}
               PROVE  c \in stranded
    BY DEF Dropped
  <2>1. CASE c \in 1 .. Base
    BY <2>1 DEF PostgresInv, Accounted, HasRun, Range
  <2>2. CASE c > Base
    <3>1. c - Base \in 1 .. Len(pendingQueries)
      BY <1>1, <2>2
    <3>2. c - Base \in DOMAIN pendingQueries
      BY <3>1 DEF PostgresInv, QueueTypes
    <3>3. pendingQueries[c - Base].command = c
      BY <1>1, <3>2 DEF PostgresInv, Numbered
    <3> QED
      BY <3>2, <3>3
  <2> QED
    BY <1>1, <2>1, <2>2
<1> QED
  BY <1>2 DEF PostgresInv, Ordered, PostgresInOrder

\* Whatever breaks, with any number of commands and of broken connections, no command
\* runs twice, and only one that was under way on a lost connection is dropped or late.
THEOREM PostgresAlwaysInOrder == PostgresSpec => []PostgresInOrder
<1>1. PostgresInit => PostgresInv
  <2> SUFFICES ASSUME PostgresInit PROVE PostgresInv
    OBVIOUS
  <2>1. pendingQueries = <<>> /\ scheduled = 0 /\ ran = <<>> /\ queryInProgress = FALSE /\ session = "idle"
    BY DEF PostgresInit
  <2>2. Len(pendingQueries) = 0 /\ DOMAIN pendingQueries = {} /\ DOMAIN ran = {}
    BY <2>1
  <2>3. Base = 0 /\ Limit = 0
    <3>1. scheduled = 0 /\ Len(pendingQueries) = 0
      BY <2>1, <2>2
    <3>2. Base = 0
      BY <3>1 DEF Base
    <3> QED
      BY <2>1, <3>2 DEF Limit
  <2>4. QueueTypes
    <3>1. pendingQueries \in Seq(Query) /\ scheduled \in Nat /\ Len(pendingQueries) <= scheduled
      BY <2>1
    <3> QED
      BY <3>1 DEF PostgresInit, QueueTypes
  <2>5. Numbered(0) /\ UnderWay /\ Accounted(0)
    BY <2>1, <2>2 DEF PostgresInit, Numbered, UnderWay, Accounted
  <2>6. RanTo(0) /\ LostTo(0)
    BY <2>1, <2>2 DEF PostgresInit, RanTo, LostTo
  <2>7. Ordered
    BY <2>2 DEF Ordered, IsInjective
  <2> QED
    BY <2>3, <2>4, <2>5, <2>6, <2>7 DEF PostgresInv
<1>2. PostgresInv /\ [PostgresNext]_postgresVars => PostgresInv'
  <2> SUFFICES ASSUME PostgresInv, [PostgresNext]_postgresVars PROVE PostgresInv'
    OBVIOUS
  <2>0. connection \in {"ok", "broken", "bad", "null"}
    BY DEF PostgresInv, QueueTypes
  <2>1. CASE ScheduleCommand
    BY <2>1, PushKeeps DEF ScheduleCommand
  <2>2. CASE RunMaintenance
    BY <2>2, PushKeeps, PostgresAssumption DEF RunMaintenance
  <2>3. CASE SynchronousQuery
    BY <2>3, SynchronousQueryKeeps
  <2>4. CASE ReadResult
    BY <2>4, ReadResultKeeps
  <2>5. CASE ReadComplete
    BY <2>5, ReadCompleteKeeps
  <2>6. CASE ReadNothing
    BY <2>6, RelaunchKeeps DEF ReadNothing
  <2>7. CASE ReadLost
    <3>1. connection \in {"broken", "bad"} => session = "idle"
      BY DEF PostgresInv, UnderWay
    <3> QED
      BY <2>0, <2>7, <3>1, QuietKeeps DEF ReadLost
  <2>8. CASE TryReConnect
    BY <2>8, StrandKeeps DEF TryReConnect
  <2>9. CASE Block \/ BlockEnd
    BY <2>0, <2>9, QuietKeeps DEF Block, BlockEnd
  <2>10. CASE BlockTurn
    <3>1. CASE queryInProgress
      BY <2>10, <3>1, ClearKeeps DEF BlockTurn
    <3>2. CASE ~ queryInProgress
      BY <2>10, <3>2, RelaunchKeeps DEF BlockTurn
    <3> QED
      BY <3>1, <3>2
  <2>11. CASE ServerRuns
    BY <2>11, ServerRunsKeeps
  <2>12. CASE OrphanEnds
    BY <2>12, OrphanEndsKeeps
  <2>13. CASE ConnectionBreaks
    BY <2>13, StrandKeeps DEF ConnectionBreaks
  <2>14. CASE UNCHANGED postgresVars
    BY <2>0, <2>14, QuietKeeps DEF postgresVars
  <2> QED
    BY <2>1, <2>2, <2>3, <2>4, <2>5, <2>6, <2>7, <2>8, <2>9, <2>10, <2>11, <2>12, <2>13, <2>14
       DEF PostgresNext
<1> QED
  BY <1>1, <1>2, InvImpliesInOrder, PTL DEF PostgresSpec

-----------------------------------------------------------------------------
(* What a mind remembers *)

PlacesInv ==
    /\ remembered \subseteq Things
    /\ within \in [Things -> Things \cup {NoThing}] /\ contents \in [Things -> SUBSET Things]
    /\ MemoryTree

PendingType == [told : BOOLEAN, children : SUBSET TypeNames]

TypesInv ==
    /\ DOMAIN untyped = TypeNames /\ TopType \in typeStore
    /\ DOMAIN pendingTypes \subseteq TypeNames
    /\ \A t \in DOMAIN pendingTypes : pendingTypes[t] \in PendingType
    /\ NobodyWaitsInVain

MemoryInv == PlacesInv /\ TypesInv

\* More is remembered, and nothing moves.
LEMMA RememberKeeps ==
    ASSUME PlacesInv, remembered' \subseteq Things, remembered \subseteq remembered',
           UNCHANGED <<within, contents>>
    PROVE  PlacesInv'
  BY DEF PlacesInv, MemoryTree

\* An entity moves into another one, and both are remembered.
LEMMA PlacedKeeps ==
    ASSUME PlacesInv, NEW e \in Things, NEW loc \in Things \cup {NoThing}, Placed(e, loc),
           remembered' \subseteq Things,
           remembered \cup {e} \cup ({loc} \ {NoThing}) \subseteq remembered'
    PROVE  PlacesInv'
<1>1. CASE loc \in {NoThing, e, within[e]}
  BY <1>1, RememberKeeps DEF Placed
<1>2. CASE loc \notin {NoThing, e, within[e]}
  <2>1. /\ loc \in Things /\ {e, loc} \subseteq remembered'
        /\ within' = [within EXCEPT ![e] = loc]
        /\ contents' = [x \in Things |-> IF x = loc THEN contents[x] \cup {e} ELSE contents[x] \ {e}]
    BY <1>2 DEF Placed
  <2>2. within' \in [Things -> Things \cup {NoThing}] /\ contents' \in [Things -> SUBSET Things]
    BY <2>1 DEF PlacesInv
  <2>3. ASSUME NEW x \in Things, NEW p \in Things
        PROVE  (x \in contents'[p] <=> within'[x] = p) /\ (x \in contents'[p] => {x, p} \subseteq remembered')
    BY <2>1 DEF PlacesInv, MemoryTree
  <2> QED
    BY <2>2, <2>3 DEF PlacesInv, MemoryTree
<1> QED
  BY <1>1, <1>2

\* An entity is forgotten: it leaves its container, and nothing is left in it.
LEMMA DetachedKeeps ==
    ASSUME PlacesInv, NEW e \in Things, Detached({e}), remembered' = remembered \ {e}
    PROVE  PlacesInv'
<1>1. PICK gone : /\ e \in gone /\ contents[e] \subseteq gone
                  /\ within' = [x \in Things |-> IF x \in gone THEN NoThing ELSE within[x]]
                  /\ contents' = [x \in Things |-> contents[x] \ gone]
  <2> DEFINE below == UNION {contents[x] : x \in {e}}
             deeper == below \cup UNION {contents[x] : x \in below}
  <2>1. /\ within' = [x \in Things |-> IF x \in {e} \cup deeper THEN NoThing ELSE within[x]]
        /\ contents' = [x \in Things |-> contents[x] \ ({e} \cup deeper)]
    BY DEF Detached
  <2>2. contents[e] \subseteq deeper
    OBVIOUS
  <2> HIDE DEF deeper
  <2> QED
    BY <2>1, <2>2
<1>2. within' \in [Things -> Things \cup {NoThing}] /\ contents' \in [Things -> SUBSET Things]
  BY <1>1 DEF PlacesInv
<1>3. ASSUME NEW x \in Things, NEW p \in Things
      PROVE  (x \in contents'[p] <=> within'[x] = p) /\ (x \in contents'[p] => {x, p} \subseteq remembered')
  BY <1>1, MemoryAssumption DEF PlacesInv, MemoryTree
<1> QED
  BY <1>2, <1>3 DEF PlacesInv, MemoryTree

\* An entity gets its type, or waits for it, and then the type is asked for.
LEMMA TypedKeeps ==
    ASSUME TypesInv, NEW e \in Things, NEW hasType \in BOOLEAN, Typed(e, hasType)
    PROVE  TypesInv'
<1>1. PICK t \in TypeNames : t = ThingType[e]
  BY MemoryAssumption
<1>2. CASE UNCHANGED <<untyped, typeVars>>
  BY <1>2 DEF TypesInv, NobodyWaitsInVain, typeVars
<1>3. CASE /\ t \notin typeStore
           /\ untyped' = [untyped EXCEPT ![t] = @ \cup {[of |-> e, alive |-> TRUE]}]
           /\ pendingTypes' = RequestType(t, pendingTypes, asking)[1]
           /\ asking' = RequestType(t, pendingTypes, asking)[2]
           /\ UNCHANGED typeStore
  <2>1. DOMAIN untyped' = TypeNames /\ \A s \in TypeNames : s # t => untyped'[s] = untyped[s]
    BY <1>3 DEF TypesInv
  <2>2. CASE t \in DOMAIN pendingTypes
    <3>1. UNCHANGED <<pendingTypes, asking>>
      BY <1>3, <2>2 DEF RequestType
    <3> QED
      BY <1>3, <2>1, <2>2, <3>1 DEF TypesInv, NobodyWaitsInVain
  <2>3. CASE t \notin DOMAIN pendingTypes
    <3>1. /\ DOMAIN pendingTypes' = DOMAIN pendingTypes \cup {t}
          /\ pendingTypes'[t] = [told |-> FALSE, children |-> {}]
          /\ \A s \in DOMAIN pendingTypes : pendingTypes'[s] = pendingTypes[s]
          /\ asking' = asking \cup {t}
      BY <1>3, <2>3 DEF RequestType
    <3>2. pendingTypes'[t] \in PendingType /\ ~ pendingTypes'[t].told
      BY <3>1 DEF PendingType
    <3>3. /\ DOMAIN pendingTypes' \subseteq TypeNames
          /\ \A s \in DOMAIN pendingTypes' : pendingTypes'[s] \in PendingType
      BY <2>3, <3>1, <3>2 DEF TypesInv
    <3>4. NobodyWaitsInVain'
      BY <1>3, <2>1, <2>3, <3>1, <3>2 DEF TypesInv, NobodyWaitsInVain
    <3> QED
      BY <1>3, <2>1, <3>3, <3>4 DEF TypesInv
  <2> QED
    BY <2>2, <2>3
<1> QED
  BY <1>1, <1>2, <1>3 DEF Typed, typeVars

\* Those who wait for their types may be forgotten.
LEMMA WaitingKeeps ==
    ASSUME TypesInv, UNCHANGED typeVars, DOMAIN untyped' = TypeNames,
           \A t \in TypeNames : untyped'[t] # {} => untyped[t] # {}
    PROVE  TypesInv'
  BY DEF TypesInv, NobodyWaitsInVain, typeVars

\* resolveType() reaches the type itself, only types that were told, and with a type
\* all that come from it and were told.
LEMMA ResolvedAre ==
    ASSUME TypesInv, NEW t \in TypeNames
    PROVE  /\ t \in NowResolved(t) /\ NowResolved(t) \subseteq TypeNames
           /\ \A s \in NowResolved(t) : s = t \/ (s \in DOMAIN pendingTypes /\ pendingTypes[s].told)
           /\ \A s \in NowResolved(t) \cap DOMAIN pendingTypes :
                 \A c \in pendingTypes[s].children \cap DOMAIN pendingTypes :
                    pendingTypes[c].told => c \in NowResolved(t)
<1> DEFINE Told(s) == s \in DOMAIN pendingTypes /\ pendingTypes[s].told
           Closed(S) == \A s \in S \cap DOMAIN pendingTypes :
                           \A c \in pendingTypes[s].children : Told(c) => c \in S
<1>1. NowResolved(t) = {s \in TypeNames : \A S \in SUBSET TypeNames : t \in S /\ Closed(S) => s \in S}
  BY DEF NowResolved
<1>2. t \in TypeNames /\ DOMAIN pendingTypes \subseteq TypeNames
  BY DEF TypesInv
<1>3. t \in NowResolved(t) /\ NowResolved(t) \subseteq TypeNames
  BY <1>1, <1>2
<1>4. ASSUME NEW s \in NowResolved(t) PROVE s = t \/ Told(s)
  <2>1. PICK S \in SUBSET TypeNames : S = {t} \cup {c \in TypeNames : Told(c)}
    BY <1>2
  <2>2. t \in S /\ Closed(S)
    BY <1>2, <2>1
  <2>3. s \in S
    BY <1>1, <2>2
  <2> QED
    BY <2>1, <2>3
<1>5. ASSUME NEW s \in NowResolved(t) \cap DOMAIN pendingTypes,
             NEW c \in pendingTypes[s].children, Told(c)
      PROVE  c \in NowResolved(t)
  <2>1. ASSUME NEW S \in SUBSET TypeNames, t \in S, Closed(S) PROVE c \in S
    <3>1. s \in S
      BY <1>1, <2>1
    <3> QED
      BY <1>5, <2>1, <3>1
  <2> QED
    BY <1>1, <1>2, <1>5, <2>1
<1> QED
  BY <1>3, <1>4, <1>5

\* A type is told: it waits for its parent, or is resolved with all that wait for it.
LEMMA TypeInfoKeeps ==
    ASSUME TypesInv, NEW t \in TypeNames, NEW gets, asking \ {t} \subseteq gets, TypeInfo(t, gets)
    PROVE  TypesInv'
<1>1. PICK p : p = TypeParent[t]
  OBVIOUS
<1>2. p \in TypeNames \cup {TopType}
  BY <1>1, MemoryAssumption
<1>3. CASE p \notin typeStore
  <2>1. PICK told : told = [s \in DOMAIN pendingTypes \cup {t} |->
                    IF s # t THEN pendingTypes[s]
                    ELSE [told |-> TRUE, children |-> IF t \in DOMAIN pendingTypes
                                                      THEN pendingTypes[t].children ELSE {}]]
    OBVIOUS
  <2>2. PICK request : request = RequestType(p, told, gets)
    OBVIOUS
  <2>3. /\ pendingTypes' = [request[1] EXCEPT ![p].children = @ \cup {t}]
        /\ asking' = request[2] /\ UNCHANGED <<typeStore, untyped>>
    BY <1>1, <1>3, <2>1, <2>2 DEF TypeInfo
  <2>4. p \in TypeNames
    BY <1>2, <1>3 DEF TypesInv
  <2>5. /\ DOMAIN told = DOMAIN pendingTypes \cup {t} /\ told[t].told /\ told[t] \in PendingType
        /\ t \in DOMAIN pendingTypes => told[t].children = pendingTypes[t].children
        /\ \A s \in DOMAIN pendingTypes : s # t => told[s] = pendingTypes[s]
    BY <2>1 DEF TypesInv, PendingType
  <2>6. PICK asked : asked = request[1]
    OBVIOUS
  <2>7. /\ DOMAIN asked = DOMAIN told \cup {p}
        /\ \A s \in DOMAIN told : asked[s] = told[s]
        /\ p \notin DOMAIN told =>
              asked[p] = [told |-> FALSE, children |-> {}] /\ asking' = gets \cup {p}
        /\ p \in DOMAIN told => asking' = gets
    <3>1. CASE p \in DOMAIN told
      <4>1. request = <<told, gets>>
        BY <2>2, <3>1 DEF RequestType
      <4> QED
        BY <2>3, <2>6, <3>1, <4>1
    <3>2. CASE p \notin DOMAIN told
      <4>1. request = <<[s \in DOMAIN told \cup {p} |->
                          IF s = p THEN [told |-> FALSE, children |-> {}] ELSE told[s]], gets \cup {p}>>
        BY <1>3, <2>2, <3>2 DEF RequestType
      <4>2. /\ asked = [s \in DOMAIN told \cup {p} |->
                          IF s = p THEN [told |-> FALSE, children |-> {}] ELSE told[s]]
            /\ asking' = gets \cup {p}
        BY <2>3, <2>6, <4>1
      <4> QED
        BY <3>2, <4>2
    <3> QED
      BY <3>1, <3>2
  <2>8. \A s \in DOMAIN told : told[s] \in PendingType
    BY <2>5 DEF TypesInv
  <2>9. asked[p] \in PendingType
    <3>1. CASE p \in DOMAIN told
      BY <2>7, <2>8, <3>1
    <3>2. CASE p \notin DOMAIN told
      <4>1. [told |-> FALSE, children |-> {}] \in PendingType
        BY DEF PendingType
      <4> QED
        BY <2>7, <3>2, <4>1
    <3> QED
      BY <3>1, <3>2
  <2>10. /\ DOMAIN pendingTypes' = DOMAIN told \cup {p}
         /\ pendingTypes'[p] = [asked[p] EXCEPT !.children = @ \cup {t}]
         /\ \A s \in DOMAIN told : s # p => pendingTypes'[s] = told[s]
    BY <2>3, <2>6, <2>7
  <2>11. /\ pendingTypes'[p] \in PendingType /\ pendingTypes'[p].told = asked[p].told
         /\ t \in pendingTypes'[p].children /\ asked[p].children \subseteq pendingTypes'[p].children
    BY <2>9, <2>10 DEF PendingType
  <2>12. \A s \in DOMAIN told :
            /\ pendingTypes'[s] \in PendingType /\ told[s].children \subseteq pendingTypes'[s].children
            /\ pendingTypes'[s].told = told[s].told
    <3> SUFFICES ASSUME NEW s \in DOMAIN told
                 PROVE  /\ pendingTypes'[s] \in PendingType /\ told[s].children \subseteq pendingTypes'[s].children
                        /\ pendingTypes'[s].told = told[s].told
      OBVIOUS
    <3>1. CASE s = p
      BY <2>7, <2>11, <3>1
    <3>2. CASE s # p
      BY <2>8, <2>10, <3>2
    <3> QED
      BY <3>1, <3>2
  <2>13. p \notin DOMAIN told => ~ pendingTypes'[p].told
    BY <2>7, <2>11
  <2>14. NobodyWaitsInVain'
    <3>1. \A s \in TypeNames : untyped'[s] # {} => s \in DOMAIN pendingTypes'
      BY <2>3, <2>5, <2>10 DEF TypesInv, NobodyWaitsInVain
    <3>2. ASSUME NEW s \in DOMAIN pendingTypes'
          PROVE  /\ s \in asking' \/ pendingTypes'[s].told
                 /\ pendingTypes'[s].told => /\ TypeParent[s] \in DOMAIN pendingTypes'
                                             /\ s \in pendingTypes'[TypeParent[s]].children
      <4>1. CASE s \in DOMAIN pendingTypes /\ s # t
        <5>1. /\ s \in DOMAIN told /\ pendingTypes'[s].told = pendingTypes[s].told
              /\ s \in asking => s \in asking'
          BY <2>5, <2>7, <2>12, <4>1
        <5>2. s \in asking \/ pendingTypes[s].told
          BY <4>1 DEF TypesInv, NobodyWaitsInVain
        <5>3. ASSUME pendingTypes[s].told
              PROVE  TypeParent[s] \in DOMAIN pendingTypes' /\ s \in pendingTypes'[TypeParent[s]].children
          <6>1. PICK q : q = TypeParent[s]
            OBVIOUS
          <6>2. q \in DOMAIN pendingTypes /\ s \in pendingTypes[q].children
            BY <4>1, <5>3, <6>1 DEF TypesInv, NobodyWaitsInVain
          <6>3. q \in DOMAIN told /\ told[q].children = pendingTypes[q].children
            BY <2>5, <6>2
          <6> QED
            BY <2>10, <2>12, <6>1, <6>2, <6>3
        <5> QED
          BY <5>1, <5>2, <5>3
      <4>2. CASE s = t
        BY <1>1, <2>5, <2>10, <2>11, <2>12, <4>2
      <4>3. CASE s = p /\ p \notin DOMAIN told
        BY <2>7, <2>13, <4>3
      <4> QED
        BY <2>5, <2>10, <4>1, <4>2, <4>3
    <3> QED
      BY <3>1, <3>2 DEF NobodyWaitsInVain
  <2> QED
    BY <2>3, <2>4, <2>5, <2>10, <2>11, <2>12, <2>14 DEF TypesInv
<1>4. CASE p \in typeStore
  <2>1. PICK new : new = NowResolved(t)
    OBVIOUS
  <2>2. /\ typeStore' = typeStore \cup new /\ asking' = gets
        /\ pendingTypes' = [s \in DOMAIN pendingTypes \ new |-> pendingTypes[s]]
        /\ untyped' = [s \in TypeNames |-> IF s \in new THEN {} ELSE untyped[s]]
    BY <1>1, <1>4, <2>1 DEF TypeInfo
  <2>3. /\ t \in new
        /\ \A s \in new \cap DOMAIN pendingTypes :
              \A c \in pendingTypes[s].children \cap DOMAIN pendingTypes : pendingTypes[c].told => c \in new
    BY <2>1, ResolvedAre
  <2>4. /\ DOMAIN pendingTypes' = DOMAIN pendingTypes \ new
        /\ \A s \in DOMAIN pendingTypes' : pendingTypes'[s] = pendingTypes[s]
    BY <2>2
  <2>5. NobodyWaitsInVain'
    <3>1. \A s \in TypeNames : untyped'[s] # {} => s \in DOMAIN pendingTypes'
      BY <2>2, <2>4 DEF TypesInv, NobodyWaitsInVain
    <3>2. ASSUME NEW s \in DOMAIN pendingTypes'
          PROVE  /\ s \in asking' \/ pendingTypes'[s].told
                 /\ pendingTypes'[s].told => /\ TypeParent[s] \in DOMAIN pendingTypes'
                                             /\ s \in pendingTypes'[TypeParent[s]].children
      BY <2>2, <2>3, <2>4 DEF TypesInv, NobodyWaitsInVain
    <3> QED
      BY <3>1, <3>2 DEF NobodyWaitsInVain
  <2> QED
    BY <2>2, <2>4, <2>5 DEF TypesInv
<1> QED
  BY <1>3, <1>4

\* Another mind puts a type into the store: this mind waits as before.
LEMMA OtherMindKeeps ==
    ASSUME TypesInv, NEW t \in TypeNames, OtherMindInstalls(t)
    PROVE  TypesInv'
  BY DEF TypesInv, NobodyWaitsInVain, OtherMindInstalls

\* In whatever order a mind of any number of entities and types perceives, is told and
\* forgets, and whatever the other minds do to the types they share, what it remembers
\* hangs together, and no entity waits for its type in vain.
THEOREM MemoryAlwaysSound == MemorySpec => []MemorySound
<1>1. MemoryInit => MemoryInv
  <2> SUFFICES ASSUME MemoryInit PROVE MemoryInv
    OBVIOUS
  <2>1. PlacesInv
    BY MemoryAssumption DEF MemoryInit, PlacesInv, MemoryTree
  <2>2. DOMAIN pendingTypes = {}
    BY DEF MemoryInit
  <2>3. TypesInv
    BY <2>2 DEF MemoryInit, TypesInv, NobodyWaitsInVain
  <2> QED
    BY <2>1, <2>3 DEF MemoryInv
<1>2. MemoryInv /\ [MemoryNext]_memoryVars => MemoryInv'
  <2> SUFFICES ASSUME PlacesInv, TypesInv, [MemoryNext]_memoryVars PROVE PlacesInv' /\ TypesInv'
    BY DEF MemoryInv
  <2>1. ASSUME NEW e \in Things, NEW loc \in Things \cup {NoThing}, NEW content \in Things \cup {NoThing},
               NEW hasType \in BOOLEAN, NEW visible \in BOOLEAN,
               UpdateAdd(e, loc, {content} \ {NoThing}, hasType, visible)
        PROVE  PlacesInv' /\ TypesInv'
    <3>1. /\ remembered' \subseteq Things /\ Placed(e, loc) /\ Typed(e, hasType)
          /\ remembered \cup {e} \cup ({loc} \ {NoThing}) \subseteq remembered'
      BY <2>1 DEF UpdateAdd, PlacesInv
    <3> QED
      BY <3>1, PlacedKeeps, TypedKeeps
  <2>2. ASSUME NEW e \in Things, Appear(e) PROVE PlacesInv' /\ TypesInv'
    <3>1. PlacesInv'
      BY <2>2, RememberKeeps DEF Appear, PlacesInv
    <3>2. TypesInv'
      BY <2>2, WaitingKeeps DEF Appear, TypesInv
    <3> QED
      BY <3>1, <3>2
  <2>3. ASSUME NEW e \in Things, Del(e) PROVE PlacesInv' /\ TypesInv'
    <3>1. PlacesInv'
      BY <2>3, DetachedKeeps DEF Del
    <3>2. TypesInv'
      BY <2>3, WaitingKeeps DEF Del
    <3> QED
      BY <3>1, <3>2
  <2>4. ASSUME NEW e \in Things, CheckForgets(e) PROVE PlacesInv' /\ TypesInv'
    <3>1. PlacesInv'
      BY <2>4, DetachedKeeps DEF CheckForgets
    <3>2. TypesInv'
      BY <2>4, WaitingKeeps DEF CheckForgets, TypesInv
    <3> QED
      BY <3>1, <3>2
  <2>5. ASSUME NEW t \in TypeNames, NEW gets, asking \ {t} \subseteq gets, TypeInfo(t, gets)
        PROVE  PlacesInv' /\ TypesInv'
    <3>1. PlacesInv'
      BY <2>5, RememberKeeps DEF TypeInfo, PlacesInv, placeVars
    <3> QED
      BY <2>5, <3>1, TypeInfoKeeps
  <2>6. ASSUME NEW t \in TypeNames, OtherMindInstalls(t) PROVE PlacesInv' /\ TypesInv'
    <3>1. PlacesInv'
      BY <2>6, RememberKeeps DEF OtherMindInstalls, PlacesInv, placeVars
    <3> QED
      BY <2>6, <3>1, OtherMindKeeps
  <2>7. ASSUME NEW t \in TypeNames, Answered(t) \/ Overheard(t) PROVE PlacesInv' /\ TypesInv'
    BY <2>5, <2>7 DEF Answered, Overheard
  <2>8. CASE UNCHANGED memoryVars
    <3>1. PlacesInv'
      BY <2>8, RememberKeeps DEF memoryVars, PlacesInv
    <3>2. TypesInv'
      BY <2>8, WaitingKeeps DEF memoryVars, typeVars, TypesInv
    <3> QED
      BY <3>1, <3>2
  <2> QED
    BY <2>1, <2>2, <2>3, <2>4, <2>6, <2>7, <2>8 DEF MemoryNext
<1>3. MemoryInv => MemorySound
  BY DEF MemoryInv, PlacesInv, TypesInv, MemorySound
<1> QED
  BY <1>1, <1>2, <1>3, PTL DEF MemorySpec

-----------------------------------------------------------------------------
(* The stream of a connection *)

StreamTypes ==
    /\ mWriteBuffer \in Seq(Nat) /\ mSendBuffer \in Seq(Nat) /\ received \in Seq(Nat)
    /\ completions \in Seq(Nat)
    /\ written \in Nat /\ flushed \in Nat /\ flushed <= written
    /\ mIsSending \in BOOLEAN

\* As long as both sides keep the connection and no flush came too early.
Undisturbed == mActive /\ ~ peerGone /\ ~ overlapped

\* A negotiation sends nothing in the background, and it leaves nothing in the buffer but
\* what it has sent.
Negotiating ==
    /\ mNegotiate = "progress" \/ completions # <<>> => ~ mIsSending /\ ~ mCodec
    /\ mNegotiate = "progress" /\ completions = <<>> => mWriteBuffer = <<>>
    /\ completions # <<>> => completions = <<Len(mWriteBuffer)>>

\* What was received, is sent and waits is what was written.
InTurn ==
    IF completions = <<>> THEN received \o (mSendBuffer \o mWriteBuffer) = FromTo(1, written)
                          ELSE received = FromTo(1, written)

\* What was flushed was received, is sent, or will be when the write is over.
FlushedGoes ==
    IF mIsSending THEN mShouldSend \/ Len(received) + Len(mSendBuffer) >= flushed
                  ELSE mSendBuffer = <<>> /\ Len(received) >= flushed

StreamInv ==
    StreamTypes /\ (Undisturbed => ~ cancelled /\ Negotiating /\ InTurn /\ FlushedGoes)

\* Numbers in a row, followed by those that come next.
LEMMA FromToIs ==
    ASSUME NEW n \in Nat
    PROVE  /\ FromTo(1, n) \in Seq(Nat) /\ Len(FromTo(1, n)) = n
           /\ \A i \in 1 .. n : FromTo(1, n)[i] = i
  BY DEF FromTo

LEMMA FreshIs ==
    ASSUME written \in Nat, NEW n \in Nat
    PROVE  /\ Fresh(n) \in Seq(Nat) /\ Len(Fresh(n)) = n
           /\ \A i \in 1 .. n : Fresh(n)[i] = written + i
           /\ FromTo(1, written) \o Fresh(n) = FromTo(1, written + n)
<1>1. /\ Fresh(n) \in Seq(Nat) /\ Len(Fresh(n)) = n
      /\ \A i \in 1 .. n : Fresh(n)[i] = written + i
  <2>1. Fresh(n) = [i \in 1 .. n |-> written + i]
    BY DEF Fresh, FromTo
  <2> QED
    BY <2>1
<1>2. PICK a, b, c : a = FromTo(1, written) /\ b = Fresh(n) /\ c = FromTo(1, written + n)
  OBVIOUS
<1>3. /\ a \in Seq(Nat) /\ Len(a) = written /\ \A i \in 1 .. written : a[i] = i
      /\ c \in Seq(Nat) /\ Len(c) = written + n /\ \A i \in 1 .. (written + n) : c[i] = i
  <2>1. written + n \in Nat
    OBVIOUS
  <2>2. a \in Seq(Nat) /\ Len(a) = written /\ \A i \in 1 .. written : a[i] = i
    BY <1>2, FromToIs
  <2>3. c \in Seq(Nat) /\ Len(c) = written + n /\ \A i \in 1 .. (written + n) : c[i] = i
    BY <1>2, <2>1, FromToIs
  <2> QED
    BY <2>2, <2>3
<1>4. b \in Seq(Nat) /\ Len(b) = n /\ \A i \in 1 .. n : b[i] = written + i
  BY <1>1, <1>2
<1>5. a \o b = c
  <2>1. a \o b \in Seq(Nat) /\ Len(a \o b) = written + n
    BY <1>3, <1>4
  <2>2. ASSUME NEW i \in 1 .. (written + n) PROVE (a \o b)[i] = i
    <3>1. CASE i <= written
      BY <1>3, <1>4, <3>1
    <3>2. CASE i > written
      <4>1. i - written \in 1 .. n
        BY <3>2
      <4> QED
        BY <1>3, <1>4, <3>2, <4>1
    <3>3. i <= written \/ i > written
      OBVIOUS
    <3> QED
      BY <3>1, <3>2, <3>3
  <2> QED
    BY <1>3, <2>1, <2>2, SeqEqual
<1> QED
  BY <1>1, <1>2, <1>5

\* How the buffers are put together.
LEMMA Associative ==
    \A r, a, b \in Seq(Nat) : (r \o a) \o b = r \o (a \o b)
  BY ConcatAssociative, SMTT(20)

LEMMA Joined ==
    ASSUME NEW r \in Seq(Nat), NEW a \in Seq(Nat)
    PROVE  a \o <<>> = a /\ <<>> \o a = a /\ r \o a \in Seq(Nat) /\ Len(r \o a) = Len(r) + Len(a)
<1>1. r \o a \in Seq(Nat) /\ Len(r \o a) = Len(r) + Len(a)
  BY ConcatProperties
<1>2. a \o <<>> = a /\ <<>> \o a = a
  BY ConcatEmptySeq
<1> QED
  BY <1>1, <1>2

\* More is written into the write buffer.
LEMMA WritingKeepsTurn ==
    ASSUME StreamTypes, NEW n \in Nat, received \o (mSendBuffer \o mWriteBuffer) = FromTo(1, written)
    PROVE  /\ received \o (mSendBuffer \o (mWriteBuffer \o Fresh(n))) = FromTo(1, written + n)
           /\ mWriteBuffer \o Fresh(n) \in Seq(Nat) /\ written + n \in Nat
<1>1. /\ mWriteBuffer \in Seq(Nat) /\ mSendBuffer \in Seq(Nat) /\ received \in Seq(Nat) /\ written \in Nat
  BY DEF StreamTypes
<1>2. PICK f \in Seq(Nat) : f = Fresh(n) /\ FromTo(1, written) \o f = FromTo(1, written + n)
  BY <1>1, FreshIs
<1>3. received \o (mSendBuffer \o (mWriteBuffer \o f)) = (received \o (mSendBuffer \o mWriteBuffer)) \o f
  <2>1. PICK r \in Seq(Nat), a \in Seq(Nat), b \in Seq(Nat) :
          r = received /\ a = mSendBuffer /\ b = mWriteBuffer
    BY <1>1
  <2>2. r \in Seq(Nat) /\ a \in Seq(Nat) /\ b \in Seq(Nat) /\ f \in Seq(Nat)
    BY <1>2, <2>1
  <2>3. PICK d : d = a \o b
    OBVIOUS
  <2>4. d \in Seq(Nat)
    BY <2>2, <2>3, Joined
  <2>5. (r \o d) \o f = r \o (d \o f)
    BY <2>2, <2>4, Associative
  <2>6. d \o f = a \o (b \o f)
    BY <2>2, <2>3, Associative
  <2> QED
    BY <2>1, <2>3, <2>5, <2>6
<1>4. mWriteBuffer \o f \in Seq(Nat)
  BY <1>1, Joined
<1> QED
  BY <1>1, <1>2, <1>3, <1>4

\* write() with what was not sent before in the buffer, w things having been written.
LEMMA WriteOutKeeps ==
    ASSUME StreamTypes, ~ cancelled, NEW buffer \in Seq(Nat), NEW w \in Nat, WriteOut(buffer),
           received \o (mSendBuffer \o buffer) = FromTo(1, w), UNCHANGED <<received, completions>>,
           ~ mIsSending => mSendBuffer = <<>>, flushed' \in Nat, flushed' <= w
    PROVE  /\ received' \o (mSendBuffer' \o mWriteBuffer') = FromTo(1, w)
           /\ ~ cancelled' /\ FlushedGoes'
<1>1. /\ mSendBuffer \in Seq(Nat) /\ received \in Seq(Nat) /\ mIsSending \in BOOLEAN
      /\ Len(received) \in Nat /\ Len(mSendBuffer) \in Nat /\ Len(buffer) \in Nat
  BY DEF StreamTypes
<1>2. Len(received) + (Len(mSendBuffer) + Len(buffer)) = w
  <2>1. Len(received \o (mSendBuffer \o buffer)) = w
    BY FromToIs
  <2>2. mSendBuffer \o buffer \in Seq(Nat) /\ Len(mSendBuffer \o buffer) = Len(mSendBuffer) + Len(buffer)
    BY <1>1, Joined
  <2>3. Len(received \o (mSendBuffer \o buffer)) = Len(received) + Len(mSendBuffer \o buffer)
    BY <1>1, <2>2, Joined
  <2> QED
    BY <2>1, <2>2, <2>3
<1>3. CASE buffer = <<>>
  <2>1. mWriteBuffer' = <<>> /\ UNCHANGED <<mSendBuffer, mIsSending, mShouldSend, cancelled>> /\ Len(buffer) = 0
    BY <1>3 DEF WriteOut
  <2>2. mIsSending => Len(received') + Len(mSendBuffer') >= flushed'
    BY <1>1, <1>2, <2>1
  <2>3. ~ mIsSending => mSendBuffer' = <<>> /\ Len(received') >= flushed'
    BY <1>1, <1>2, <2>1
  <2> QED
    BY <1>3, <2>1, <2>2, <2>3 DEF FlushedGoes
<1>4. CASE buffer # <<>> /\ mIsSending
  BY <1>4 DEF WriteOut, FlushedGoes
<1>5. CASE buffer # <<>> /\ ~ mIsSending
  <2>1. mWriteBuffer' = <<>> /\ mSendBuffer' = buffer /\ mIsSending' = TRUE /\ cancelled' = FALSE
    BY <1>5 DEF WriteOut
  <2>2. Len(mSendBuffer) = 0 /\ mSendBuffer = <<>>
    BY <1>5
  <2>3. Len(received') + Len(mSendBuffer') >= flushed'
    BY <1>1, <1>2, <2>1, <2>2
  <2>4. buffer \o <<>> = <<>> \o buffer
    BY <1>1, Joined
  <2> QED
    BY <2>1, <2>2, <2>3, <2>4 DEF FlushedGoes
<1> QED
  BY <1>1, <1>3, <1>4, <1>5

\* The types of the buffers that write() exchanges.
LEMMA WriteOutTypes ==
    ASSUME StreamTypes, NEW buffer \in Seq(Nat), WriteOut(buffer)
    PROVE  /\ mWriteBuffer' \in Seq(Nat) /\ mSendBuffer' \in Seq(Nat) /\ mIsSending' \in BOOLEAN
           /\ overlapped => overlapped'
           /\ completions # <<>> /\ ~ mIsSending /\ buffer # <<>> => overlapped'
           /\ buffer = <<>> => UNCHANGED <<mSendBuffer, mIsSending, mShouldSend, cancelled>> /\ mWriteBuffer' = <<>>
  BY DEF StreamTypes, WriteOut

LEMMA FlushKeeps ==
    ASSUME StreamInv, Flush PROVE StreamInv'
<1>1. /\ StreamTypes /\ mWriteBuffer \in Seq(Nat) /\ written \in Nat /\ WriteOut(mWriteBuffer)
      /\ flushed' = (IF mCodec THEN written ELSE flushed) /\ flushed' \in Nat /\ flushed' <= written
      /\ UNCHANGED <<mNegotiate, mCodec, mActive, completions, written, received, peerGone>>
  BY DEF StreamInv, StreamTypes, Flush
<1>2. PICK buffer, w : buffer = mWriteBuffer /\ w = written
  OBVIOUS
<1>3. buffer \in Seq(Nat) /\ w \in Nat /\ WriteOut(buffer)
  BY <1>1, <1>2
<1>4. /\ mWriteBuffer' \in Seq(Nat) /\ mSendBuffer' \in Seq(Nat) /\ mIsSending' \in BOOLEAN
      /\ overlapped => overlapped'
      /\ completions # <<>> /\ ~ mIsSending /\ buffer # <<>> => overlapped'
      /\ buffer = <<>> => UNCHANGED <<mSendBuffer, mIsSending, mShouldSend, cancelled>> /\ mWriteBuffer' = <<>>
  BY <1>1, <1>3, WriteOutTypes
<1>5. StreamTypes'
  BY <1>1, <1>4 DEF StreamTypes
<1>6. ASSUME Undisturbed' PROVE ~ cancelled' /\ Negotiating' /\ InTurn' /\ FlushedGoes'
  <2>1. Undisturbed
    BY <1>1, <1>4, <1>6 DEF Undisturbed
  <2>2. ~ cancelled /\ Negotiating /\ InTurn /\ FlushedGoes
    BY <2>1 DEF StreamInv
  <2>3. CASE completions = <<>>
    <3>1. received \o (mSendBuffer \o buffer) = FromTo(1, w) /\ (~ mIsSending => mSendBuffer = <<>>)
      BY <1>2, <2>2, <2>3 DEF InTurn, FlushedGoes
    <3>2. /\ received' \o (mSendBuffer' \o mWriteBuffer') = FromTo(1, w)
          /\ ~ cancelled' /\ FlushedGoes'
      BY <1>1, <1>2, <1>3, <2>2, <3>1, WriteOutKeeps
    <3>3. Negotiating'
      BY <1>1, <1>2, <1>4, <2>2, <2>3 DEF Negotiating
    <3> QED
      BY <1>1, <1>2, <2>3, <3>2, <3>3 DEF InTurn
  <2>4. CASE completions # <<>>
    <3>1. ~ mIsSending /\ ~ mCodec
      BY <2>2, <2>4 DEF Negotiating
    <3>2. buffer = <<>>
      BY <1>4, <1>6, <2>4, <3>1 DEF Undisturbed
    <3> QED
      BY <1>1, <1>2, <1>4, <2>2, <3>1, <3>2 DEF Negotiating, InTurn, FlushedGoes
  <2> QED
    BY <2>3, <2>4
<1> QED
  BY <1>5, <1>6 DEF StreamInv

\* A step that leaves the buffers as they are and ends at most the negotiation or the
\* connection.
LEMMA QuietStreamKeeps ==
    ASSUME StreamInv,
           UNCHANGED <<mCodec, mWriteBuffer, mSendBuffer, mIsSending, mShouldSend, completions, written,
                       received, flushed, overlapped>>,
           mNegotiate' = mNegotiate \/ mNegotiate' # "progress",
           mActive' => mActive /\ cancelled' = cancelled, peerGone => peerGone'
    PROVE  StreamInv'
<1>1. StreamTypes'
  BY DEF StreamInv, StreamTypes
<1>2. ASSUME Undisturbed' PROVE ~ cancelled' /\ Negotiating' /\ InTurn' /\ FlushedGoes'
  <2>1. Undisturbed /\ cancelled' = cancelled
    BY <1>2 DEF Undisturbed
  <2>2. ~ cancelled /\ Negotiating /\ InTurn /\ FlushedGoes
    BY <2>1 DEF StreamInv
  <2> QED
    BY <2>1, <2>2 DEF Negotiating, InTurn, FlushedGoes
<1> QED
  BY <1>1, <1>2 DEF StreamInv

\* The last part of a sequence.
LEMMA SubSeqIs ==
    ASSUME NEW b \in Seq(Nat), NEW m \in Nat, m >= 1, NEW n \in Nat, n <= Len(b)
    PROVE  SubSeq(b, m, n) \in Seq(Nat)
<1>1. \A i \in m .. n : b[i] \in Nat
  OBVIOUS
<1> QED
  BY <1>1, SubSeqProperties

\* The handler of a negotiation write removes what was sent: all there is.
LEMMA NegotiateWrittenKeeps ==
    ASSUME StreamInv, NegotiateWritten PROVE StreamInv'
<1>1. /\ StreamTypes /\ mWriteBuffer \in Seq(Nat) /\ completions \in Seq(Nat) /\ completions # <<>>
      /\ completions' = Tail(completions)
      /\ UNCHANGED <<mNegotiate, mCodec, mActive, mSendBuffer, mIsSending, mShouldSend, written, received,
                     peerGone, cancelled, flushed, overlapped>>
      /\ mWriteBuffer' = IF mActive
                         THEN SubSeq(mWriteBuffer, 1 + Head(completions), Len(mWriteBuffer))
                         ELSE mWriteBuffer
  BY DEF StreamInv, StreamTypes, NegotiateWritten
<1>2. Head(completions) \in Nat /\ Len(mWriteBuffer) \in Nat /\ completions' \in Seq(Nat)
  BY <1>1
<1>3. mWriteBuffer' \in Seq(Nat)
  <2>1. SubSeq(mWriteBuffer, 1 + Head(completions), Len(mWriteBuffer)) \in Seq(Nat)
    <3>1. PICK b, m, n : b = mWriteBuffer /\ m = 1 + Head(completions) /\ n = Len(mWriteBuffer)
      OBVIOUS
    <3>2. b \in Seq(Nat) /\ m \in Nat /\ m >= 1 /\ n \in Nat /\ n <= Len(b)
      BY <1>1, <1>2, <3>1
    <3>3. SubSeq(b, m, n) \in Seq(Nat)
      BY <3>2, SubSeqIs
    <3> QED
      BY <3>1, <3>3
  <2> QED
    BY <1>1, <2>1
<1>4. StreamTypes'
  BY <1>1, <1>2, <1>3 DEF StreamTypes
<1>5. ASSUME Undisturbed' PROVE ~ cancelled' /\ Negotiating' /\ InTurn' /\ FlushedGoes'
  <2>1. ~ cancelled /\ Negotiating /\ InTurn /\ FlushedGoes /\ mActive
    BY <1>1, <1>5 DEF StreamInv, Undisturbed
  <2>2. Head(completions) = Len(mWriteBuffer) /\ completions' = <<>> /\ ~ mIsSending /\ ~ mCodec
    <3>1. completions = <<Len(mWriteBuffer)>> /\ ~ mIsSending /\ ~ mCodec
      BY <1>1, <2>1 DEF Negotiating
    <3> QED
      BY <1>1, <3>1
  <2>3. mWriteBuffer' = <<>>
    <3>1. PICK h \in Nat : h = Len(mWriteBuffer) /\ h = Head(completions)
      BY <1>2, <2>2
    <3>2. mWriteBuffer' = SubSeq(mWriteBuffer, 1 + h, h)
      BY <1>1, <2>1, <3>1
    <3>3. 1 + h \in Int /\ h \in Int /\ h < 1 + h
      BY <3>1
    <3> QED
      BY <3>2, <3>3, SubSeqEmpty
  <2>4. received = FromTo(1, written) /\ mSendBuffer = <<>> /\ Len(received) >= flushed
    BY <1>1, <2>1, <2>2 DEF InTurn, FlushedGoes
  <2>5. received \o (<<>> \o <<>>) = received
    <3>1. received \in Seq(Nat) /\ <<>> \in Seq(Nat)
      BY <1>1 DEF StreamTypes
    <3>2. <<>> \o <<>> = <<>> /\ received \o <<>> = received
      BY <3>1, Joined
    <3> QED
      BY <3>2
  <2>6. InTurn'
    BY <1>1, <2>2, <2>3, <2>4, <2>5 DEF InTurn
  <2> QED
    BY <1>1, <2>1, <2>2, <2>3, <2>6 DEF Negotiating, FlushedGoes
<1> QED
  BY <1>4, <1>5 DEF StreamInv

\* The negotiation goes on: what it writes is sent at once.
LEMMA NegotiateGoesOnKeeps ==
    ASSUME StreamInv, NEW n \in Nat, NegotiateGoesOn(n) PROVE StreamInv'
<1>1. PICK buffer : buffer = mWriteBuffer \o Fresh(n)
  OBVIOUS
<1>2. /\ StreamTypes /\ mWriteBuffer \in Seq(Nat) /\ received \in Seq(Nat) /\ written \in Nat
      /\ mNegotiate = "progress" /\ completions = <<>> /\ mActive /\ ~ peerGone
      /\ mWriteBuffer' = buffer /\ received' = received \o buffer
      /\ completions' = (IF buffer = <<>> THEN <<>> ELSE <<Len(buffer)>>) /\ written' = written + n
      /\ UNCHANGED <<mNegotiate, mCodec, mActive, mSendBuffer, mIsSending, mShouldSend, peerGone, cancelled,
                     flushed, overlapped>>
  BY <1>1 DEF StreamInv, StreamTypes, NegotiateGoesOn
<1>3. /\ buffer \in Seq(Nat) /\ Len(buffer) \in Nat /\ received \o buffer \in Seq(Nat)
      /\ Len(received \o buffer) = Len(received) + Len(buffer) /\ Len(received) \in Nat
  <2>1. Fresh(n) \in Seq(Nat)
    BY <1>2, FreshIs
  <2>2. buffer \in Seq(Nat)
    BY <1>1, <1>2, <2>1, Joined
  <2>3. received \o buffer \in Seq(Nat) /\ Len(received \o buffer) = Len(received) + Len(buffer)
    BY <1>2, <2>2, Joined
  <2> QED
    BY <1>2, <2>2, <2>3
<1>4. completions' \in Seq(Nat)
  BY <1>2, <1>3
<1>5. StreamTypes'
  BY <1>2, <1>3, <1>4 DEF StreamTypes
<1>6. ASSUME Undisturbed' PROVE ~ cancelled' /\ Negotiating' /\ InTurn' /\ FlushedGoes'
  <2>1. ~ cancelled /\ Negotiating /\ InTurn /\ FlushedGoes
    BY <1>2, <1>6 DEF StreamInv, Undisturbed
  <2>2. ~ mIsSending /\ ~ mCodec /\ mSendBuffer = <<>> /\ Len(received) >= flushed
    BY <1>2, <2>1 DEF Negotiating, FlushedGoes
  <2>3. received \o (mSendBuffer \o buffer) = FromTo(1, written')
    <3>1. received \o (mSendBuffer \o mWriteBuffer) = FromTo(1, written)
      BY <1>2, <2>1 DEF InTurn
    <3> QED
      BY <1>1, <1>2, <3>1, WritingKeepsTurn
  <2>4. received' = FromTo(1, written')
    <3>1. <<>> \o buffer = buffer
      BY <1>3, Joined
    <3> QED
      BY <1>2, <2>2, <2>3, <3>1
  <2>5. InTurn'
    <3>1. CASE buffer = <<>>
      <4>1. received' \o (<<>> \o <<>>) = received'
        <5>1. received' \in Seq(Nat)
          BY <1>5 DEF StreamTypes
        <5>2. <<>> \o <<>> = <<>> /\ received' \o <<>> = received'
          BY <5>1, Joined
        <5> QED
          BY <5>2
      <4> QED
        BY <1>2, <2>2, <2>4, <3>1, <4>1 DEF InTurn
    <3>2. CASE buffer # <<>>
      BY <1>2, <2>4, <3>2 DEF InTurn
    <3> QED
      BY <3>1, <3>2
  <2>6. Len(received') >= flushed'
    BY <1>2, <1>3, <1>5, <2>2 DEF StreamTypes
  <2> QED
    BY <1>2, <2>1, <2>2, <2>5, <2>6 DEF Negotiating, FlushedGoes
<1> QED
  BY <1>5, <1>6 DEF StreamInv

\* The negotiation is done: the stream of the codec begins, and write() sends it.
LEMMA NegotiateDoneKeeps ==
    ASSUME StreamInv, NEW n \in Nat, NegotiateDone(n) PROVE StreamInv'
<1>1. PICK k \in Nat : k = n + 1
  OBVIOUS
<1>2. PICK buffer, w : buffer = mWriteBuffer \o Fresh(k) /\ w = written + k
  OBVIOUS
<1>3. /\ StreamTypes /\ mWriteBuffer \in Seq(Nat) /\ written \in Nat /\ w \in Nat
      /\ mNegotiate = "progress" /\ completions = <<>> /\ mActive /\ ~ peerGone
      /\ mNegotiate' = "none" /\ mCodec' = TRUE
      /\ WriteOut(buffer) /\ written' = w /\ flushed' = w
      /\ UNCHANGED <<mActive, completions, received, peerGone>>
  <2>1. StreamTypes /\ mWriteBuffer \in Seq(Nat) /\ written \in Nat
    BY DEF StreamInv, StreamTypes
  <2>2. written + n + 1 = w
    BY <1>1, <1>2, <2>1
  <2> QED
    BY <1>1, <1>2, <2>1, <2>2 DEF NegotiateDone
<1>4. buffer \in Seq(Nat)
  <2>1. Fresh(k) \in Seq(Nat)
    BY <1>1, <1>3, FreshIs
  <2> QED
    BY <1>2, <1>3, <2>1, Joined
<1>5. mWriteBuffer' \in Seq(Nat) /\ mSendBuffer' \in Seq(Nat) /\ mIsSending' \in BOOLEAN /\ (overlapped => overlapped')
  BY <1>3, <1>4, WriteOutTypes
<1>6. StreamTypes'
  BY <1>3, <1>5 DEF StreamTypes
<1>7. ASSUME Undisturbed' PROVE ~ cancelled' /\ Negotiating' /\ InTurn' /\ FlushedGoes'
  <2>1. ~ cancelled /\ Negotiating /\ InTurn /\ FlushedGoes
    BY <1>3, <1>5, <1>7 DEF StreamInv, Undisturbed
  <2>2. received \o (mSendBuffer \o mWriteBuffer) = FromTo(1, written) /\ (~ mIsSending => mSendBuffer = <<>>)
    BY <1>3, <2>1 DEF InTurn, FlushedGoes
  <2>3. received \o (mSendBuffer \o buffer) = FromTo(1, w)
    BY <1>1, <1>2, <1>3, <2>2, WritingKeepsTurn
  <2>4. /\ received' \o (mSendBuffer' \o mWriteBuffer') = FromTo(1, w)
        /\ ~ cancelled' /\ FlushedGoes'
    <3>1. flushed' \in Nat /\ flushed' <= w
      BY <1>3
    <3> QED
      BY <1>3, <1>4, <2>1, <2>2, <2>3, <3>1, WriteOutKeeps
  <2> QED
    BY <1>3, <2>4 DEF InTurn, Negotiating
<1> QED
  BY <1>6, <1>7 DEF StreamInv

\* Something is written with a codec: nothing of a negotiation is left.
LEMMA WritingKeeps ==
    ASSUME StreamInv, NEW n \in Nat, mCodec,
           mWriteBuffer' = mWriteBuffer \o Fresh(n), written' = written + n,
           UNCHANGED <<mNegotiate, mCodec, mActive, mSendBuffer, mIsSending, mShouldSend, completions, received,
                       peerGone, cancelled, flushed, overlapped>>
    PROVE  StreamInv'
<1>1. StreamTypes /\ mWriteBuffer \in Seq(Nat) /\ written \in Nat /\ flushed \in Nat /\ flushed <= written
  BY DEF StreamInv, StreamTypes
<1>2. mWriteBuffer' \in Seq(Nat)
  <2>1. Fresh(n) \in Seq(Nat)
    BY <1>1, FreshIs
  <2> QED
    BY <1>1, <2>1, Joined
<1>3. StreamTypes'
  BY <1>1, <1>2 DEF StreamTypes
<1>4. ASSUME Undisturbed' PROVE ~ cancelled' /\ Negotiating' /\ InTurn' /\ FlushedGoes'
  <2>1. ~ cancelled /\ Negotiating /\ InTurn /\ FlushedGoes
    BY <1>4 DEF StreamInv, Undisturbed
  <2>2. completions = <<>> /\ mNegotiate # "progress"
    BY <2>1 DEF Negotiating
  <2>3. received \o (mSendBuffer \o mWriteBuffer') = FromTo(1, written')
    BY <1>1, <2>1, <2>2, WritingKeepsTurn DEF InTurn
  <2> QED
    BY <2>1, <2>2, <2>3 DEF Negotiating, InTurn, FlushedGoes
<1> QED
  BY <1>3, <1>4 DEF StreamInv

LEMMA SendKeeps ==
    ASSUME StreamInv, Send PROVE StreamInv'
<1>1. written \in Nat /\ mWriteBuffer \in Seq(Nat)
  BY DEF StreamInv, StreamTypes
<1>2. PICK k \in Nat : k = 1
  OBVIOUS
<1>3. Append(mWriteBuffer, written + 1) = mWriteBuffer \o Fresh(k)
  <2>1. Fresh(k) \in Seq(Nat) /\ Len(Fresh(k)) = k /\ \A i \in 1 .. k : Fresh(k)[i] = written + i
    BY <1>1, <1>2, FreshIs
  <2>2. PICK f, x : f = Fresh(k) /\ x = written + 1
    OBVIOUS
  <2>3. f \in Seq(Nat) /\ Len(f) = 1 /\ f[1] = x /\ x \in Nat
    BY <1>1, <1>2, <2>1, <2>2
  <2>4. f = <<x>>
    BY <2>3
  <2>5. Append(mWriteBuffer, x) = mWriteBuffer \o <<x>>
    BY <1>1, <2>3, AppendIsConcat
  <2> QED
    BY <2>2, <2>4, <2>5
<1> QED
  BY <1>2, <1>3, WritingKeeps DEF Send

\* A write is over: what waits is sent next, or all that was flushed was received.
LEMMA WrittenKeeps ==
    ASSUME StreamInv, Written PROVE StreamInv'
<1>1. /\ StreamTypes /\ mWriteBuffer \in Seq(Nat) /\ mSendBuffer \in Seq(Nat) /\ received \in Seq(Nat)
      /\ written \in Nat /\ flushed \in Nat /\ flushed <= written /\ mIsSending
      /\ Len(received) \in Nat /\ Len(mSendBuffer) \in Nat /\ Len(mWriteBuffer) \in Nat
      /\ received' = received \o mSendBuffer
      /\ UNCHANGED <<mNegotiate, mCodec, mActive, completions, written, peerGone, flushed>>
  BY DEF StreamInv, StreamTypes, Written
<1>2. received' \in Seq(Nat) /\ Len(received') = Len(received) + Len(mSendBuffer)
  BY <1>1, Joined
<1>3. Undisturbed => ~ cancelled /\ Negotiating /\ InTurn /\ FlushedGoes
  BY DEF StreamInv
<1>4. Undisturbed => completions = <<>> /\ mNegotiate # "progress"
  BY <1>1, <1>3 DEF Negotiating
<1>5. Undisturbed => received' \o mWriteBuffer = FromTo(1, written)
  BY <1>1, <1>3, <1>4, Associative DEF InTurn
<1>6. Undisturbed => Len(received') + Len(mWriteBuffer) = written
  <2>1. Len(received' \o mWriteBuffer) = Len(received') + Len(mWriteBuffer)
    BY <1>1, <1>2, Joined
  <2> QED
    BY <1>1, <1>5, <2>1, FromToIs
<1>7. mWriteBuffer \o <<>> = mWriteBuffer /\ <<>> \o mWriteBuffer = mWriteBuffer
  BY <1>1, Joined
<1>8. CASE mShouldSend /\ mWriteBuffer # <<>>
  <2>1. /\ mSendBuffer' = mWriteBuffer /\ mWriteBuffer' = <<>> /\ mShouldSend' = FALSE /\ cancelled' = FALSE
        /\ mIsSending' = mIsSending /\ (overlapped => overlapped')
    BY <1>8 DEF Written
  <2>2. StreamTypes'
    BY <1>1, <1>2, <2>1 DEF StreamTypes
  <2>3. ASSUME Undisturbed' PROVE ~ cancelled' /\ Negotiating' /\ InTurn' /\ FlushedGoes'
    <3>1. Undisturbed
      BY <1>1, <2>1, <2>3 DEF Undisturbed
    <3>2. InTurn'
      BY <1>1, <1>4, <1>5, <1>7, <2>1, <3>1 DEF InTurn
    <3>3. FlushedGoes'
      BY <1>1, <1>6, <2>1, <3>1 DEF FlushedGoes
    <3>4. Negotiating'
      BY <1>1, <1>4, <3>1 DEF Negotiating
    <3> QED
      BY <2>1, <3>2, <3>3, <3>4
  <2> QED
    BY <2>2, <2>3 DEF StreamInv
<1>9. CASE ~ (mShouldSend /\ mWriteBuffer # <<>>)
  <2>1. /\ mSendBuffer' = <<>> /\ mIsSending' = FALSE
        /\ UNCHANGED <<mWriteBuffer, mShouldSend, cancelled, overlapped>>
    BY <1>9 DEF Written
  <2>2. StreamTypes'
    <3>1. mSendBuffer' \in Seq(Nat)
      BY <2>1
    <3>2. mIsSending' \in BOOLEAN
      BY <2>1
    <3> QED
      BY <1>1, <1>2, <2>1, <3>1, <3>2 DEF StreamTypes
  <2>3. ASSUME Undisturbed' PROVE ~ cancelled' /\ Negotiating' /\ InTurn' /\ FlushedGoes'
    <3>1. Undisturbed
      BY <1>1, <2>1, <2>3 DEF Undisturbed
    <3>2. InTurn'
      BY <1>1, <1>4, <1>5, <1>7, <2>1, <3>1 DEF InTurn
    <3>3. Len(received') >= flushed
      <4>1. CASE mShouldSend
        <5>1. Len(mWriteBuffer) = 0
          BY <1>9, <4>1
        <5> QED
          BY <1>1, <1>2, <1>6, <3>1, <5>1
      <4>2. CASE ~ mShouldSend
        BY <1>1, <1>2, <1>3, <3>1, <4>2 DEF FlushedGoes
      <4> QED
        BY <4>1, <4>2
    <3>4. Negotiating'
      BY <1>1, <1>4, <3>1 DEF Negotiating
    <3> QED
      BY <1>1, <1>3, <2>1, <3>1, <3>2, <3>3, <3>4 DEF FlushedGoes
  <2> QED
    BY <2>2, <2>3 DEF StreamInv
<1> QED
  BY <1>8, <1>9

\* A write fails only when the connection is over.
LEMMA WriteFailsKeeps ==
    ASSUME StreamInv, WriteFails PROVE StreamInv'
<1>1. PICK n \in 0 .. Len(mSendBuffer) :
        /\ received' = received \o SubSeq(mSendBuffer, 1, n)
        /\ mSendBuffer' = SubSeq(mSendBuffer, n + 1, Len(mSendBuffer))
  BY DEF WriteFails
<1>2. mSendBuffer \in Seq(Nat) /\ received \in Seq(Nat) /\ Len(mSendBuffer) \in Nat /\ StreamTypes
  BY DEF StreamInv, StreamTypes
<1>3. PICK b, l : b = mSendBuffer /\ l = Len(mSendBuffer)
  OBVIOUS
<1>4. /\ b \in Seq(Nat) /\ n \in Nat /\ n <= Len(b) /\ n + 1 \in Nat /\ n + 1 >= 1 /\ l \in Nat /\ l <= Len(b)
      /\ 1 \in Nat /\ 1 >= 1
  BY <1>1, <1>2, <1>3
<1>5. SubSeq(b, 1, n) \in Seq(Nat)
  BY <1>4, SubSeqIs
<1>6. SubSeq(b, n + 1, l) \in Seq(Nat)
  BY <1>4, SubSeqIs
<1>7. received' \in Seq(Nat) /\ mSendBuffer' \in Seq(Nat)
  BY <1>1, <1>2, <1>3, <1>5, <1>6, Joined
<1>8. StreamTypes'
  BY <1>2, <1>7 DEF StreamTypes, WriteFails
<1>9. ~ Undisturbed'
  BY DEF StreamInv, Undisturbed, WriteFails
<1> QED
  BY <1>8, <1>9 DEF StreamInv

\* What the invariant says of the buffers is what StreamIntact says of Unsent.
LEMMA InvImpliesIntact ==
    StreamInv => StreamIntact
<1> SUFFICES ASSUME StreamInv, Undisturbed
             PROVE  received \o Unsent = FromTo(1, written) /\ (~ mIsSending => Len(received) >= flushed)
  BY DEF StreamIntact, Undisturbed
<1>1. /\ Negotiating /\ InTurn /\ FlushedGoes /\ mWriteBuffer \in Seq(Nat) /\ mSendBuffer \in Seq(Nat)
      /\ received \in Seq(Nat) /\ completions \in Seq(Nat) /\ Len(mWriteBuffer) \in Nat
  BY DEF StreamInv, StreamTypes
<1>2. (IF mIsSending THEN mSendBuffer ELSE <<>>) = mSendBuffer
  BY <1>1 DEF FlushedGoes
<1>3. CASE completions = <<>>
  <2>1. SubSeq(mWriteBuffer, 1 + 0, Len(mWriteBuffer)) = mWriteBuffer
    BY <1>1, SubSeqFull
  <2>2. Unsent = mSendBuffer \o mWriteBuffer
    BY <1>2, <1>3, <2>1 DEF Unsent
  <2> QED
    BY <1>1, <1>3, <2>2 DEF InTurn, FlushedGoes
<1>4. CASE completions # <<>>
  <2>1. PICK h \in Nat : h = Len(mWriteBuffer)
    BY <1>1
  <2>2. completions = <<h>> /\ Head(completions) = h /\ mSendBuffer = <<>> /\ ~ mIsSending
    BY <1>1, <1>4, <2>1 DEF Negotiating, FlushedGoes
  <2>3. SubSeq(mWriteBuffer, 1 + h, h) = <<>>
    <3>1. 1 + h \in Int /\ h \in Int /\ h < 1 + h
      BY <2>1
    <3> QED
      BY <3>1, SubSeqEmpty
  <2>4. Unsent = <<>> \o <<>>
    BY <1>2, <1>4, <2>1, <2>2, <2>3 DEF Unsent
  <2>5. <<>> \o <<>> = <<>> /\ received \o <<>> = received
    BY <1>1, Joined
  <2> QED
    BY <1>1, <1>4, <2>2, <2>4, <2>5 DEF InTurn, FlushedGoes
<1> QED
  BY <1>3, <1>4

\* However much is written, and whenever it is flushed and sent, nothing on the stream is
\* lost, doubled or out of order while both sides keep the connection, unless a flush
\* comes between a negotiation write and its handler.
THEOREM StreamAlwaysIntact == StreamsSpec => []StreamIntact
<1>1. StreamsInit => StreamInv
  <2> SUFFICES ASSUME StreamsInit PROVE StreamInv
    OBVIOUS
  <2>1. /\ mWriteBuffer = <<1>> /\ mSendBuffer = <<>> /\ received = <<1>> /\ completions = <<1>> /\ written = 1
        /\ flushed = 0 /\ mIsSending = FALSE /\ ~ mCodec /\ ~ cancelled
    BY DEF StreamsInit
  <2>2. /\ <<1>> \in Seq(Nat) /\ <<>> \in Seq(Nat) /\ Len(<<1>>) = 1
    OBVIOUS
  <2>3. StreamTypes
    <3>1. /\ mWriteBuffer \in Seq(Nat) /\ mSendBuffer \in Seq(Nat) /\ received \in Seq(Nat)
          /\ completions \in Seq(Nat)
      BY <2>1, <2>2
    <3>2. written \in Nat /\ flushed \in Nat /\ flushed <= written
      BY <2>1
    <3>3. mIsSending \in BOOLEAN
      BY <2>1
    <3> QED
      BY <3>1, <3>2, <3>3 DEF StreamTypes
  <2>4. <<1>> = FromTo(1, 1)
    <3>1. PICK n \in Nat : n = 1
      OBVIOUS
    <3>2. PICK f : f = FromTo(1, n)
      OBVIOUS
    <3>3. f \in Seq(Nat) /\ Len(f) = n /\ \A i \in 1 .. n : f[i] = i
      BY <3>1, <3>2, FromToIs
    <3>4. f = <<1>>
      BY <3>1, <3>3
    <3> QED
      BY <3>1, <3>2, <3>4
  <2>5. Negotiating /\ InTurn /\ FlushedGoes
    <3>1. completions # <<>>
      BY <2>1
    <3> QED
      BY <2>1, <2>2, <2>4, <3>1 DEF Negotiating, InTurn, FlushedGoes
  <2> QED
    BY <2>1, <2>3, <2>5 DEF StreamInv
<1>2. StreamInv /\ [StreamsNext]_streamVars => StreamInv'
  <2> SUFFICES ASSUME StreamInv, [StreamsNext]_streamVars PROVE StreamInv'
    OBVIOUS
  <2>1. CASE NegotiateWritten
    BY <2>1, NegotiateWrittenKeeps
  <2>2. ASSUME NEW n \in {0, 1}, NegotiateGoesOn(n) \/ NegotiateDone(n) \/ DoRead(n) PROVE StreamInv'
    <3>1. n \in Nat
      OBVIOUS
    <3>2. CASE DoRead(n)
      BY <3>1, <3>2, WritingKeeps DEF DoRead
    <3> QED
      BY <2>2, <3>1, <3>2, NegotiateGoesOnKeeps, NegotiateDoneKeeps
  <2>3. CASE NegotiateFails
    BY <2>3, QuietStreamKeeps DEF NegotiateFails
  <2>4. CASE ReadFails
    BY <2>4, QuietStreamKeeps DEF ReadFails
  <2>5. CASE Send
    BY <2>5, SendKeeps
  <2>6. CASE Flush
    BY <2>6, FlushKeeps
  <2>7. CASE Written
    BY <2>7, WrittenKeeps
  <2>8. CASE WriteFails
    BY <2>8, WriteFailsKeeps
  <2>9. CASE Disconnect
    BY <2>9, QuietStreamKeeps DEF Disconnect
  <2>10. CASE Deadline
    BY <2>10, QuietStreamKeeps DEF Deadline
  <2>11. CASE HangUp
    BY <2>11, QuietStreamKeeps DEF HangUp
  <2>12. CASE UNCHANGED streamVars
    BY <2>12, QuietStreamKeeps DEF streamVars
  <2> QED
    BY <2>1, <2>2, <2>3, <2>4, <2>5, <2>6, <2>7, <2>8, <2>9, <2>10, <2>11, <2>12 DEF StreamsNext
<1> QED
  BY <1>1, <1>2, InvImpliesIntact, PTL DEF StreamsSpec

-----------------------------------------------------------------------------
(* The navigation mesh *)

Observation == [observers : Int, stamp : Nat, ignored : BOOLEAN, moving : BOOLEAN, owned : BOOLEAN]

MeshTypes ==
    /\ \A x \in DOMAIN observed : observed[x] \in Observation
    /\ terrain \in [Tiles -> Nat] /\ DOMAIN mesh \subseteq Tiles

MeshInv == MeshTypes /\ MeshCurrent

Dirty == dirtyAware \cup dirtyUnaware

\* The areas on a tile, and what a tile shows of them and of the terrain.
Touching(t) == {<<x, areas[x].at>> : x \in {y \in DOMAIN areas : t \in areas[y].tiles}}
ShowsPresent(t) == mesh[t].areas = Touching(t) /\ (t \notin unheeded => mesh[t].terrain = terrain[t])

\* The parts of MeshCurrent: the tiles and their marks, and who has an area.
TilesCurrent ==
    /\ \A t \in DOMAIN mesh : t \notin Dirty /\ t \notin unbuilt => ShowsPresent(t)
    /\ active \subseteq DOMAIN mesh \cup Dirty \cup unbuilt
MarksRight == dirtyAware \subseteq AwareTiles /\ dirtyUnaware \cap AwareTiles = {}
HasRest(x) == x \in DOMAIN observed /\ ~ observed[x].moving /\ ~ observed[x].ignored
AreasRest == \A x \in DOMAIN areas : HasRest(x)

LEMMA MeshParts ==
    /\ MeshCurrent <=> TilesCurrent /\ MarksRight /\ AreasRest
    /\ MeshCurrent' <=> TilesCurrent' /\ MarksRight' /\ AreasRest'
<1>1. (\A t : Content(t).areas = Touching(t)) /\ \A t : (Content(t).areas)' = Touching(t)'
  BY DEF Content, Touching
<1> QED
  BY <1>1 DEF MeshCurrent, TilesCurrent, MarksRight, AreasRest, Dirty, HasRest, ShowsPresent

\* What touches a tile stays as it is.
LEMMA TouchingSame ==
    ASSUME NEW t,
           \A x : x \in DOMAIN areas /\ t \in areas[x].tiles <=> x \in DOMAIN areas' /\ t \in areas'[x].tiles,
           \A x : x \in DOMAIN areas /\ t \in areas[x].tiles => areas'[x] = areas[x]
    PROVE  Touching(t)' = Touching(t)
<1>1. {x \in DOMAIN areas : t \in areas[x].tiles} = {x \in DOMAIN areas' : t \in areas'[x].tiles}
  OBVIOUS
<1>2. PICK S : S = {x \in DOMAIN areas : t \in areas[x].tiles}
  OBVIOUS
<1>3. \A x \in S : areas'[x].at = areas[x].at
  BY <1>2
<1>4. {<<x, areas[x].at>> : x \in S} = {<<x, areas'[x].at>> : x \in S}
  BY <1>3
<1> QED
  BY <1>1, <1>2, <1>4 DEF Touching

\* Marking tiles keeps the two lists apart.
LEMMA MarksKeep ==
    ASSUME MarksRight, NEW tiles, MarkTilesAsDirty(tiles), UNCHANGED awareAreas
    PROVE  MarksRight' /\ Dirty' = Dirty \cup tiles
<1>1. AwareTiles' = AwareTiles
  BY DEF AwareTiles
<1> QED
  BY <1>1 DEF MarksRight, MarkTilesAsDirty, Dirty

\* The area of one entity may change: every tile that it was on or is on is marked.
LEMMA AreasKeep ==
    ASSUME MeshInv, NEW e, NEW area, SetArea(e, area) \/ DropArea(e) \/ SameAreas,
           UNCHANGED <<awareAreas, active, mesh, terrain, historyVars>>
    PROVE  /\ TilesCurrent' /\ MarksRight'
           /\ DOMAIN areas' \subseteq DOMAIN areas \cup {e}
           /\ DropArea(e) => e \notin DOMAIN areas'
<1>1. TilesCurrent /\ MarksRight
  BY MeshParts DEF MeshInv
<1>2. CASE SameAreas
  <2>1. UNCHANGED <<areas, dirtyAware, dirtyUnaware>>
    BY <1>2 DEF SameAreas
  <2>2. Dirty' = Dirty /\ AwareTiles' = AwareTiles
    BY <2>1 DEF Dirty, AwareTiles
  <2>3. TilesCurrent'
    BY <1>1, <2>1, <2>2 DEF TilesCurrent, ShowsPresent, Touching, historyVars
  <2>4. MarksRight'
    BY <1>1, <2>1, <2>2 DEF MarksRight
  <2>5. ASSUME DropArea(e) PROVE e \notin DOMAIN areas'
    BY <2>5 DEF DropArea, Restrict
  <2> QED
    BY <2>1, <2>3, <2>4, <2>5
<1>3. ASSUME NEW tiles, MarkTilesAsDirty(tiles), AreaOf(e) \subseteq tiles,
             \A x : x # e => (x \in DOMAIN areas <=> x \in DOMAIN areas') /\ (x \in DOMAIN areas => areas'[x] = areas[x]),
             e \in DOMAIN areas' => areas'[e].tiles \subseteq tiles
      PROVE  TilesCurrent' /\ MarksRight'
  <2>1. MarksRight' /\ Dirty' = Dirty \cup tiles
    BY <1>1, <1>3, MarksKeep
  <2>2. ASSUME NEW t \in DOMAIN mesh, t \notin Dirty', t \notin unbuilt PROVE ShowsPresent(t)'
    <3>1. t \notin tiles /\ t \notin Dirty
      BY <2>1, <2>2
    <3>2. ShowsPresent(t)
      BY <1>1, <2>2, <3>1 DEF TilesCurrent
    <3>3. ~ (e \in DOMAIN areas /\ t \in areas[e].tiles) /\ ~ (e \in DOMAIN areas' /\ t \in areas'[e].tiles)
      BY <1>3, <3>1 DEF AreaOf
    <3>4. \A x : x \in DOMAIN areas /\ t \in areas[x].tiles <=> x \in DOMAIN areas' /\ t \in areas'[x].tiles
      BY <1>3, <3>3
    <3>5. \A x : x \in DOMAIN areas /\ t \in areas[x].tiles => areas'[x] = areas[x]
      BY <1>3, <3>3
    <3>6. Touching(t)' = Touching(t)
      BY <3>4, <3>5, TouchingSame
    <3> QED
      BY <3>2, <3>6 DEF ShowsPresent, historyVars
  <2>3. active' \subseteq DOMAIN mesh' \cup Dirty' \cup unbuilt'
    BY <1>1, <2>1 DEF TilesCurrent, historyVars
  <2> QED
    BY <2>1, <2>2, <2>3 DEF TilesCurrent, historyVars
<1>4. CASE SetArea(e, area)
  <2>1. MarkTilesAsDirty(AreaOf(e) \cup area.tiles) /\ areas' = Entered(areas, e, area)
    BY <1>4 DEF SetArea
  <2>2. /\ DOMAIN areas' = DOMAIN areas \cup {e} /\ areas'[e] = area
        /\ \A x \in DOMAIN areas : x # e => areas'[x] = areas[x]
    <3>1. PICK f, g : f = areas /\ g = areas' /\ g = Entered(f, e, area)
      BY <2>1
    <3>2. DOMAIN g = DOMAIN f \cup {e} /\ g[e] = area /\ \A x \in DOMAIN f : x # e => g[x] = f[x]
      BY <3>1 DEF Entered
    <3> QED
      BY <3>1, <3>2
  <2>3. TilesCurrent' /\ MarksRight'
    BY <1>3, <2>1, <2>2
  <2>4. ~ DropArea(e)
    BY <2>2 DEF DropArea, Restrict
  <2> QED
    BY <2>2, <2>3, <2>4
<1>5. CASE DropArea(e)
  <2>1. MarkTilesAsDirty(AreaOf(e)) /\ areas' = Restrict(areas, DOMAIN areas \ {e})
    BY <1>5 DEF DropArea
  <2>2. DOMAIN areas' = DOMAIN areas \ {e} /\ \A x \in DOMAIN areas : x # e => areas'[x] = areas[x]
    BY <2>1 DEF Restrict
  <2>3. TilesCurrent' /\ MarksRight'
    BY <1>3, <2>1, <2>2
  <2> QED
    BY <2>2, <2>3
<1> QED
  BY <1>2, <1>4, <1>5

\* A table of observations with another entry.
LEMMA ObservationEntered ==
    ASSUME MeshTypes, NEW e, NEW new \in Observation, observed' = Entered(observed, e, new)
    PROVE  /\ \A x \in DOMAIN observed' : observed'[x] \in Observation
           /\ DOMAIN observed' = DOMAIN observed \cup {e} /\ observed'[e] = new
           /\ \A x \in DOMAIN observed : x # e => observed'[x] = observed[x]
<1>1. PICK f, g : f = observed /\ g = observed' /\ g = Entered(f, e, new)
  OBVIOUS
<1>2. /\ DOMAIN g = DOMAIN f \cup {e} /\ g[e] = new /\ \A x \in DOMAIN f : x # e => g[x] = f[x]
  BY <1>1 DEF Entered
<1>3. \A x \in DOMAIN f : f[x] \in Observation
  BY <1>1 DEF MeshTypes
<1>4. \A x \in DOMAIN g : g[x] \in Observation
  BY <1>2, <1>3
<1> QED
  BY <1>1, <1>2, <1>4

\* An entry is made or changed together with the area of its entity.
LEMMA EntryKeeps ==
    ASSUME MeshInv, NEW e, NEW new \in Observation, observed' = Entered(observed, e, new),
           NEW area, SetArea(e, area) \/ DropArea(e) \/ SameAreas, UNCHANGED <<awareAreas, active, mesh, terrain, historyVars>>,
           e \in DOMAIN areas' => ~ new.moving /\ ~ new.ignored
    PROVE  MeshInv'
<1>1. /\ TilesCurrent' /\ MarksRight' /\ DOMAIN areas' \subseteq DOMAIN areas \cup {e}
  BY AreasKeep
<1>2. MeshTypes /\ AreasRest
  BY MeshParts DEF MeshInv
<1>3. /\ \A x \in DOMAIN observed' : observed'[x] \in Observation
      /\ DOMAIN observed' = DOMAIN observed \cup {e} /\ observed'[e] = new
      /\ \A x \in DOMAIN observed : x # e => observed'[x] = observed[x]
  BY <1>2, ObservationEntered
<1>4. AreasRest'
  BY <1>1, <1>2, <1>3 DEF AreasRest, HasRest
<1>5. MeshTypes'
  BY <1>2, <1>3 DEF MeshTypes
<1> QED
  BY <1>1, <1>4, <1>5, MeshParts DEF MeshInv

\* processEntityUpdate() keeps the areas of entities that stand still.
LEMMA ProcessKeeps ==
    ASSUME MeshInv, NEW e, NEW entry \in Observation, NEW place \in KnownPlaces, NEW moving \in BOOLEAN, NEW stamp \in Nat,
           e \in DOMAIN areas => ~ entry.moving /\ ~ entry.ignored,
           ProcessEntityUpdate(e, entry, place, moving, stamp), UNCHANGED <<awareAreas, active, mesh, terrain, historyVars>>
    PROVE  MeshInv'
<1>1. CASE stamp <= entry.stamp
  <2>1. observed' = Entered(observed, e, entry) /\ SameAreas
    BY <1>1 DEF ProcessEntityUpdate
  <2>2. e \in DOMAIN areas' => ~ entry.moving /\ ~ entry.ignored
    BY <2>1 DEF SameAreas
  <2> QED
    BY <2>1, <2>2, EntryKeeps
<1>2. CASE ~ (stamp <= entry.stamp)
  <2>1. PICK new : new = [entry EXCEPT !.stamp = stamp, !.ignored = IF entry.moving THEN @ ELSE place.bbox = "none",
                                       !.moving = @ \/ (place.bbox # "none" /\ moving)]
    OBVIOUS
  <2>2. /\ new \in Observation
        /\ new.ignored = (IF entry.moving THEN entry.ignored ELSE place.bbox = "none")
        /\ new.moving = (entry.moving \/ (place.bbox # "none" /\ moving))
    BY <2>1 DEF Observation
  <2>3. /\ observed' = Entered(observed, e, new)
        /\ IF entry.moving \/ (place.bbox = "flat" /\ ~ moving)
           THEN SameAreas
           ELSE IF place.bbox = "none" \/ moving
           THEN DropArea(e)
           ELSE \/ SetArea(e, [tiles |-> place.tiles, at |-> stamp])
                \/ e \in DOMAIN areas /\ areas[e].tiles = place.tiles /\ SameAreas
    BY <1>2, <2>1 DEF ProcessEntityUpdate
  <2>4. PICK area : area = [tiles |-> place.tiles, at |-> stamp]
    OBVIOUS
  <2>5. place.bbox \in {"solid", "none", "flat"}
    BY DEF KnownPlaces
  <2>6. SetArea(e, area) \/ DropArea(e) \/ SameAreas
    BY <2>3, <2>4
  <2>7. DropArea(e) => e \notin DOMAIN areas'
    BY DEF DropArea, Restrict
  <2>8. SameAreas => areas' = areas
    BY DEF SameAreas
  <2>9. ASSUME e \in DOMAIN areas' PROVE ~ new.moving /\ ~ new.ignored
    <3>1. CASE entry.moving \/ (place.bbox = "flat" /\ ~ moving)
      BY <2>2, <2>3, <2>8, <2>9, <3>1
    <3>2. CASE ~ (entry.moving \/ (place.bbox = "flat" /\ ~ moving)) /\ (place.bbox = "none" \/ moving)
      BY <2>3, <2>7, <2>9, <3>2
    <3>3. CASE ~ (entry.moving \/ (place.bbox = "flat" /\ ~ moving)) /\ ~ (place.bbox = "none" \/ moving)
      BY <2>2, <3>3
    <3> QED
      BY <3>1, <3>2, <3>3
  <2> QED
    BY <2>2, <2>3, <2>6, <2>9, EntryKeeps
<1> QED
  BY <1>1, <1>2

\* addEntity(): an entity that has no entry has no area.
LEMMA AddKeeps ==
    ASSUME MeshInv, NEW m, NEW e, NEW isDynamic \in BOOLEAN, NEW place \in KnownPlaces, NEW moving \in BOOLEAN,
           NEW stamp \in Nat, AddEntry(m, e, isDynamic, place, moving, stamp), UNCHANGED <<awareAreas, active, mesh, terrain, historyVars>>
    PROVE  MeshInv'
<1>1. PICK itself \in BOOLEAN : itself = (Avatar[m] = e)
  OBVIOUS
<1>2. PICK entry : entry = IF e \in DOMAIN observed
                           THEN [observed[e] EXCEPT !.observers = @ + 1, !.owned = @ \/ itself]
                           ELSE [observers |-> 1, stamp |-> 0, ignored |-> place.bbox = "none", moving |-> isDynamic,
                                 owned |-> itself]
  OBVIOUS
<1>3. entry \in Observation /\ (e \in DOMAIN areas => ~ entry.moving /\ ~ entry.ignored)
  <2>1. CASE e \in DOMAIN observed
    <3>1. PICK o \in Observation : o = observed[e]
      BY <2>1 DEF MeshInv, MeshTypes
    <3>2. entry = [o EXCEPT !.observers = @ + 1, !.owned = @ \/ itself]
      BY <1>2, <2>1, <3>1
    <3>3. PICK n \in Int, b \in BOOLEAN : n = o.observers + 1 /\ b = (o.owned \/ itself)
      BY DEF Observation
    <3>4. entry = [o EXCEPT !.observers = n, !.owned = b]
      BY <3>2, <3>3
    <3>5. entry \in Observation /\ entry.moving = o.moving /\ entry.ignored = o.ignored
      BY <3>4 DEF Observation
    <3> QED
      BY <3>1, <3>5, MeshParts DEF MeshInv, AreasRest, HasRest
  <2>2. CASE e \notin DOMAIN observed
    <3>1. e \notin DOMAIN areas
      BY <2>2, MeshParts DEF MeshInv, AreasRest, HasRest
    <3>2. entry = [observers |-> 1, stamp |-> 0, ignored |-> place.bbox = "none", moving |-> isDynamic, owned |-> itself]
      BY <1>2, <2>2
    <3> QED
      BY <3>1, <3>2 DEF Observation
  <2> QED
    BY <2>1, <2>2
<1>4. \/ ProcessEntityUpdate(e, entry, place, moving, stamp)
      \/ observed' = Entered(observed, e, entry) /\ SameAreas
  BY <1>1, <1>2 DEF AddEntry
<1>5. CASE ProcessEntityUpdate(e, entry, place, moving, stamp)
  BY <1>3, <1>5, ProcessKeeps
<1>6. CASE observed' = Entered(observed, e, entry) /\ SameAreas
  <2>1. e \in DOMAIN areas' => ~ entry.moving /\ ~ entry.ignored
    BY <1>3, <1>6 DEF SameAreas
  <2> QED
    BY <1>3, <1>6, <2>1, EntryKeeps
<1> QED
  BY <1>4, <1>5, <1>6

\* removeEntity(): the last observer takes the area along.
LEMMA RemoveKeeps ==
    ASSUME MeshInv, NEW m, NEW e, RemoveEntry(m, e), UNCHANGED <<awareAreas, active, mesh, terrain, historyVars>>
    PROVE  MeshInv'
<1>1. MeshTypes /\ AreasRest
  BY MeshParts DEF MeshInv
<1>2. CASE e \notin DOMAIN observed
  <2>1. observed' = observed /\ SameAreas
    BY <1>2 DEF RemoveEntry
  <2>2. TilesCurrent' /\ MarksRight'
    BY <2>1, AreasKeep
  <2>3. AreasRest' /\ MeshTypes'
    BY <1>1, <2>1 DEF AreasRest, HasRest, MeshTypes, SameAreas
  <2> QED
    BY <2>2, <2>3, MeshParts DEF MeshInv
<1>3. CASE e \in DOMAIN observed /\ observed[e].observers = 1
  <2>1. observed' = Restrict(observed, DOMAIN observed \ {e}) /\ DropArea(e)
    BY <1>3 DEF RemoveEntry
  <2>2. TilesCurrent' /\ MarksRight' /\ e \notin DOMAIN areas' /\ DOMAIN areas' \subseteq DOMAIN areas \cup {e}
    BY <2>1, AreasKeep
  <2>3. DOMAIN observed' = DOMAIN observed \ {e} /\ \A x \in DOMAIN observed' : observed'[x] = observed[x]
    BY <2>1 DEF Restrict
  <2>4. AreasRest'
    BY <1>1, <2>2, <2>3 DEF AreasRest, HasRest
  <2>5. MeshTypes'
    BY <1>1, <2>3 DEF MeshTypes
  <2> QED
    BY <2>2, <2>4, <2>5, MeshParts DEF MeshInv
<1>4. CASE e \in DOMAIN observed /\ observed[e].observers # 1
  <2>1. observed' = [observed EXCEPT ![e].observers = @ - 1, ![e].owned = @ /\ Avatar[m] # e] /\ SameAreas
    BY <1>4 DEF RemoveEntry
  <2>2. TilesCurrent' /\ MarksRight'
    BY <2>1, AreasKeep
  <2>3. PICK o \in Observation : o = observed[e]
    BY <1>1, <1>4 DEF MeshTypes
  <2>4. PICK n \in Int, b \in BOOLEAN : n = o.observers - 1 /\ b = (o.owned /\ Avatar[m] # e)
    <3>1. o.observers - 1 \in Int
      BY DEF Observation
    <3>2. PICK b \in BOOLEAN : b = (o.owned /\ Avatar[m] # e)
      OBVIOUS
    <3> QED
      BY <3>1, <3>2
  <2>5. PICK new : new = [o EXCEPT !.observers = n, !.owned = b]
    OBVIOUS
  <2>6. new \in Observation /\ new.moving = o.moving /\ new.ignored = o.ignored
    BY <2>5 DEF Observation
  <2>7. observed' = [observed EXCEPT ![e] = new]
    <3>1. observed[e] = o /\ new = [observed[e] EXCEPT !.observers = @ - 1, !.owned = @ /\ Avatar[m] # e]
      BY <2>3, <2>4, <2>5
    <3> QED
      BY <2>1, <3>1
  <2>8. DOMAIN observed' = DOMAIN observed /\ observed'[e] = new /\ \A x \in DOMAIN observed : x # e => observed'[x] = observed[x]
    BY <1>4, <2>7
  <2>9. AreasRest'
    BY <1>1, <2>1, <2>3, <2>6, <2>8 DEF AreasRest, HasRest, SameAreas
  <2>10. MeshTypes'
    BY <1>1, <2>6, <2>8 DEF MeshTypes
  <2> QED
    BY <2>2, <2>9, <2>10, MeshParts DEF MeshInv
<1> QED
  BY <1>2, <1>3, <1>4

\* setAwarenessArea(): a mind exchanges the tiles it asks for.
LEMMA AwarenessAreaKeeps ==
    ASSUME MeshInv, NEW m, NEW tiles, SetAwarenessArea(m, tiles) PROVE MeshInv'
<1>1. MeshTypes /\ TilesCurrent /\ MarksRight /\ AreasRest
  BY MeshParts DEF MeshInv
<1>2. PICK old, marked, returned :
          /\ old = IF Avatar[m] \in DOMAIN awareAreas THEN awareAreas[Avatar[m]] ELSE {}
          /\ marked = dirtyAware \cup (tiles \cap dirtyUnaware) \cup (tiles \ DOMAIN mesh)
          /\ returned = old \ AwareTiles'
  OBVIOUS
<1>3. /\ awareAreas' = Entered(awareAreas, Avatar[m], tiles)
      /\ dirtyAware' = marked \ returned
      /\ dirtyUnaware' = (dirtyUnaware \ tiles) \cup (marked \cap returned)
      /\ active' = active \cup tiles
      /\ UNCHANGED <<observed, areas, mesh, terrain, unbuilt, unheeded>>
  BY <1>2 DEF SetAwarenessArea, AwareTiles, historyVars
<1>4. /\ AwareTiles \subseteq AwareTiles' \cup old
      /\ AwareTiles' \subseteq AwareTiles \cup tiles
      /\ tiles \subseteq AwareTiles'
  <2>1. PICK f, g, k : f = awareAreas /\ g = awareAreas' /\ k = Avatar[m] /\ g = Entered(f, k, tiles)
    BY <1>3
  <2>2. DOMAIN g = DOMAIN f \cup {k} /\ g[k] = tiles /\ \A x \in DOMAIN f : x # k => g[x] = f[x]
    BY <2>1 DEF Entered
  <2>3. AwareTiles = UNION {f[x] : x \in DOMAIN f} /\ AwareTiles' = UNION {g[x] : x \in DOMAIN g}
    BY <2>1 DEF AwareTiles, Range
  <2>4. ASSUME NEW t \in AwareTiles PROVE t \in AwareTiles' \cup old
    <3>1. PICK x \in DOMAIN f : t \in f[x]
      BY <2>3
    <3> QED
      BY <1>2, <2>1, <2>2, <2>3, <3>1
  <2>5. ASSUME NEW t \in AwareTiles' PROVE t \in AwareTiles \cup tiles
    <3>1. PICK x \in DOMAIN g : t \in g[x]
      BY <2>3
    <3> QED
      BY <2>2, <2>3, <3>1
  <2> QED
    BY <2>2, <2>3, <2>4, <2>5
<1>5. MarksRight'
  <2>1. ASSUME NEW t \in dirtyAware' PROVE t \in AwareTiles'
    BY <1>1, <1>2, <1>3, <1>4, <2>1 DEF MarksRight
  <2>2. ASSUME NEW t \in dirtyUnaware', t \in AwareTiles' PROVE FALSE
    BY <1>1, <1>2, <1>3, <1>4, <2>2 DEF MarksRight
  <2> QED
    BY <2>1, <2>2 DEF MarksRight
<1>6. Dirty \subseteq Dirty' /\ tiles \ DOMAIN mesh \subseteq Dirty'
  BY <1>2, <1>3 DEF Dirty
<1>7. TilesCurrent'
  <2>1. \A t : ShowsPresent(t)' = ShowsPresent(t)
    BY <1>3 DEF ShowsPresent, Touching
  <2> QED
    BY <1>1, <1>3, <1>6, <2>1 DEF TilesCurrent
<1>8. AreasRest' /\ MeshTypes'
  BY <1>1, <1>3 DEF AreasRest, HasRest, MeshTypes
<1> QED
  BY <1>5, <1>7, <1>8, MeshParts DEF MeshInv

\* rebuildDirtyTile() and pruneTiles()
LEMMA TileKeeps ==
    ASSUME MeshInv, NEW t \in Tiles, RebuildDirtyTile(t) \/ PruneTiles(t) PROVE MeshInv'
<1>1. MeshTypes /\ TilesCurrent /\ MarksRight /\ AreasRest
  BY MeshParts DEF MeshInv
<1>2. UNCHANGED <<observed, areas, awareAreas, dirtyUnaware, terrain>>
  BY DEF RebuildDirtyTile, PruneTiles
<1>3. \A x : Touching(x)' = Touching(x)
  BY <1>2 DEF Touching
<1>4. AwareTiles' = AwareTiles /\ AreasRest'
  BY <1>1, <1>2 DEF AwareTiles, AreasRest, HasRest
<1>5. CASE RebuildDirtyTile(t)
  <2>1. t \in dirtyAware /\ dirtyAware' = dirtyAware \ {t} /\ active' = active
    BY <1>5 DEF RebuildDirtyTile
  <2>2. Dirty \subseteq Dirty' \cup {t}
    BY <1>2, <2>1 DEF Dirty
  <2>3. MarksRight'
    BY <1>1, <1>2, <1>4, <2>1 DEF MarksRight
  <2>4. CASE mesh' = Entered(mesh, t, Content(t)) /\ unbuilt' = unbuilt \ {t} /\ unheeded' = unheeded \ {t}
    <3>1. DOMAIN mesh' = DOMAIN mesh \cup {t} /\ mesh'[t] = Content(t) /\ \A x \in DOMAIN mesh : x # t => mesh'[x] = mesh[x]
      <4>1. PICK f, g, v : f = mesh /\ g = mesh' /\ v = Content(t) /\ g = Entered(f, t, v)
        BY <2>4
      <4>2. DOMAIN g = DOMAIN f \cup {t} /\ g[t] = v /\ \A x \in DOMAIN f : x # t => g[x] = f[x]
        BY <4>1 DEF Entered
      <4> QED
        BY <4>1, <4>2
    <3>2. ShowsPresent(t)'
      <4>1. mesh'[t].areas = Touching(t) /\ mesh'[t].terrain = terrain[t]
        BY <3>1 DEF Content, Touching
      <4> QED
        BY <1>2, <1>3, <4>1 DEF ShowsPresent
    <3>3. ASSUME NEW x \in DOMAIN mesh', x # t, x \notin Dirty', x \notin unbuilt' PROVE ShowsPresent(x)'
      BY <1>1, <1>2, <1>3, <2>2, <2>4, <3>1, <3>3 DEF TilesCurrent, ShowsPresent
    <3>4. TilesCurrent'
      BY <1>1, <2>1, <2>2, <2>4, <3>1, <3>2, <3>3 DEF TilesCurrent
    <3>5. MeshTypes'
      BY <1>1, <1>2, <3>1 DEF MeshTypes
    <3> QED
      BY <1>4, <2>3, <3>4, <3>5, MeshParts DEF MeshInv
  <2>5. CASE unbuilt' = unbuilt \cup {t} /\ UNCHANGED <<mesh, unheeded>>
    <3>1. ASSUME NEW x \in DOMAIN mesh', x \notin Dirty', x \notin unbuilt' PROVE ShowsPresent(x)'
      BY <1>1, <1>2, <1>3, <2>2, <2>5, <3>1 DEF TilesCurrent, ShowsPresent
    <3>2. TilesCurrent'
      BY <1>1, <2>1, <2>2, <2>5, <3>1 DEF TilesCurrent
    <3>3. MeshTypes'
      BY <1>1, <1>2, <2>5 DEF MeshTypes
    <3> QED
      BY <1>4, <2>3, <3>2, <3>3, MeshParts DEF MeshInv
  <2> QED
    BY <1>5, <2>4, <2>5 DEF RebuildDirtyTile
<1>6. CASE PruneTiles(t)
  <2>1. /\ dirtyAware' = dirtyAware /\ active' = active \ {t} /\ mesh' = Restrict(mesh, DOMAIN mesh \ {t})
        /\ unbuilt' = unbuilt \ {t} /\ unheeded' = unheeded \ {t}
    BY <1>6 DEF PruneTiles
  <2>2. DOMAIN mesh' = DOMAIN mesh \ {t} /\ \A x \in DOMAIN mesh' : mesh'[x] = mesh[x]
    BY <2>1 DEF Restrict
  <2>3. Dirty' = Dirty
    BY <1>2, <2>1 DEF Dirty
  <2>4. ASSUME NEW x \in DOMAIN mesh', x \notin Dirty', x \notin unbuilt' PROVE ShowsPresent(x)'
    BY <1>1, <1>2, <1>3, <2>1, <2>2, <2>3, <2>4 DEF TilesCurrent, ShowsPresent
  <2>5. TilesCurrent'
    BY <1>1, <2>1, <2>2, <2>3, <2>4 DEF TilesCurrent
  <2>6. MarksRight'
    BY <1>1, <1>2, <1>4, <2>1 DEF MarksRight
  <2>7. MeshTypes'
    BY <1>1, <1>2, <2>2 DEF MeshTypes
  <2> QED
    BY <1>4, <2>5, <2>6, <2>7, MeshParts DEF MeshInv
<1> QED
  BY <1>5, <1>6

\* parseTerrain(), and tiles that are to be built again.
LEMMA TerrainKeeps ==
    ASSUME MeshInv, NEW tiles \in Places, TerrainChanged(tiles) \/ NoPath(tiles) PROVE MeshInv'
<1>1. MeshTypes /\ TilesCurrent /\ MarksRight /\ AreasRest
  BY MeshParts DEF MeshInv
<1>2. /\ MarkTilesAsDirty(tiles) /\ UNCHANGED <<observed, areas, awareAreas, active, mesh, unbuilt, unheeded>>
      /\ terrain' \in [Tiles -> Nat] /\ \A t \in Tiles : t \notin tiles => terrain'[t] = terrain[t]
  BY <1>1 DEF TerrainChanged, SetBasePoints, NoPath, MeshTypes, historyVars
<1>3. MarksRight' /\ Dirty' = Dirty \cup tiles
  BY <1>1, <1>2, MarksKeep
<1>4. ASSUME NEW t \in DOMAIN mesh, t \notin Dirty', t \notin unbuilt PROVE ShowsPresent(t)'
  <2>1. t \notin tiles /\ t \notin Dirty /\ t \in Tiles
    BY <1>1, <1>3, <1>4 DEF MeshTypes
  <2>2. ShowsPresent(t)
    BY <1>1, <1>4, <2>1 DEF TilesCurrent
  <2>3. terrain'[t] = terrain[t]
    BY <1>2, <2>1
  <2> QED
    BY <1>2, <2>2, <2>3 DEF ShowsPresent, Touching
<1>5. TilesCurrent'
  BY <1>1, <1>2, <1>3, <1>4 DEF TilesCurrent
<1>6. AreasRest' /\ MeshTypes'
  BY <1>1, <1>2 DEF AreasRest, HasRest, MeshTypes
<1> QED
  BY <1>3, <1>5, <1>6, MeshParts DEF MeshInv

\* parseTerrain() of a mind that does not use the mesh.
LEMMA ElsewhereKeeps ==
    ASSUME MeshInv, NEW tiles \in Places, TerrainChangedElsewhere(tiles) PROVE MeshInv'
<1>1. MeshTypes /\ TilesCurrent /\ MarksRight /\ AreasRest
  BY MeshParts DEF MeshInv
<1>2. /\ UNCHANGED <<observed, areas, awareAreas, dirtyAware, dirtyUnaware, active, mesh, unbuilt>>
      /\ unheeded' = unheeded \cup tiles
      /\ terrain' \in [Tiles -> Nat] /\ \A t \in Tiles : t \notin tiles => terrain'[t] = terrain[t]
  BY <1>1 DEF TerrainChangedElsewhere, SetBasePoints, MeshTypes
<1>3. Dirty' = Dirty /\ AwareTiles' = AwareTiles
  BY <1>2 DEF Dirty, AwareTiles
<1>4. ASSUME NEW t \in DOMAIN mesh, t \notin Dirty, t \notin unbuilt PROVE ShowsPresent(t)'
  <2>1. t \in Tiles /\ ShowsPresent(t)
    BY <1>1, <1>4 DEF MeshTypes, TilesCurrent
  <2> QED
    BY <1>2, <2>1 DEF ShowsPresent, Touching
<1>5. TilesCurrent' /\ MarksRight'
  BY <1>1, <1>2, <1>3, <1>4 DEF TilesCurrent, MarksRight
<1>6. AreasRest' /\ MeshTypes'
  BY <1>1, <1>2 DEF AreasRest, HasRest, MeshTypes
<1> QED
  BY <1>5, <1>6, MeshParts DEF MeshInv

LEMMA MeshSteps == MeshInv /\ [AwarenessNext]_awarenessVars => MeshInv'
<1> SUFFICES ASSUME MeshInv, [AwarenessNext]_awarenessVars PROVE MeshInv'
  OBVIOUS
<1>1. ASSUME NEW m \in Minds, NEW e \in Seen, NEW place \in KnownPlaces, NEW moving \in BOOLEAN, NEW stamp \in 1 .. MaxStamp,
             EntityAdded(m, e, place, moving, stamp) \/ EntityUpdated(m, e, place, moving, stamp)
      PROVE  MeshInv'
  <2>1. stamp \in Nat /\ UNCHANGED <<awareAreas, active, mesh, terrain, historyVars>>
    <3>1. stamp \in Nat
      OBVIOUS
    <3> QED
      BY <1>1, <3>1 DEF EntityAdded, EntityUpdated
  <2>2. CASE EntityAdded(m, e, place, moving, stamp)
    <3>1. PICK dynamic \in BOOLEAN : dynamic = (e = Avatar[m])
      OBVIOUS
    <3>2. AddEntry(m, e, dynamic, place, moving, stamp)
      BY <2>2, <3>1 DEF EntityAdded
    <3> QED
      BY <2>1, <3>2, AddKeeps
  <2>3. CASE EntityUpdated(m, e, place, moving, stamp) /\ e \in DOMAIN observed
    <3>1. ProcessEntityUpdate(e, observed[e], place, moving, stamp)
      BY <2>3 DEF EntityUpdated
    <3>2. PICK entry \in Observation : entry = observed[e]
      BY <2>3 DEF MeshInv, MeshTypes
    <3>3. e \in DOMAIN areas => ~ entry.moving /\ ~ entry.ignored
      BY <3>2, MeshParts DEF MeshInv, AreasRest, HasRest
    <3> QED
      BY <2>1, <3>1, <3>2, <3>3, ProcessKeeps
  <2>4. CASE EntityUpdated(m, e, place, moving, stamp) /\ e \notin DOMAIN observed
    <3>1. PICK dynamic \in BOOLEAN : dynamic = TRUE
      OBVIOUS
    <3>2. AddEntry(m, e, dynamic, place, moving, stamp)
      BY <2>4, <3>1 DEF EntityUpdated
    <3> QED
      BY <2>1, <3>2, AddKeeps
  <2> QED
    BY <1>1, <2>2, <2>3, <2>4
<1>2. ASSUME NEW m \in Minds, NEW e \in Seen, EntityLeft(m, e) \/ EntityDeleted(m, e) PROVE MeshInv'
  <2>1. RemoveEntry(m, e) /\ UNCHANGED <<awareAreas, active, mesh, terrain, historyVars>>
    BY <1>2 DEF EntityLeft, EntityDeleted
  <2> QED
    BY <2>1, RemoveKeeps
<1>3. CASE UNCHANGED awarenessVars
  <2>1. UNCHANGED <<observed, areas, awareAreas, dirtyAware, dirtyUnaware, active, mesh, terrain, historyVars>>
    BY <1>3 DEF awarenessVars
  <2>2. SameAreas
    BY <2>1 DEF SameAreas
  <2>3. TilesCurrent' /\ MarksRight'
    BY <2>1, <2>2, AreasKeep
  <2>4. AreasRest' /\ MeshTypes'
    BY <2>1, MeshParts DEF MeshInv, AreasRest, HasRest, MeshTypes
  <2> QED
    BY <2>3, <2>4, MeshParts DEF MeshInv
<1> QED
  BY <1>1, <1>2, <1>3, AwarenessAreaKeeps, TileKeeps, TerrainKeeps, ElsewhereKeeps DEF AwarenessNext

\* However many minds report, leave and ask for tiles, in whatever order and however old
\* their reports are: a tile that is not marked shows the present areas and terrain,
\* except where its last rebuilding yielded nothing or the terrain changed through a mind
\* without this mesh; an active tile is built or marked or could not be built, and what
\* is marked as aware is asked for by somebody.
THEOREM MeshAlwaysCurrent == AwarenessSpec => []MeshCurrent
<1>1. AwarenessInit => MeshInv
  <2> SUFFICES ASSUME AwarenessInit PROVE MeshInv
    OBVIOUS
  <2>1. PICK n : n = <<>> /\ DOMAIN n = {}
    OBVIOUS
  <2>2. observed = n /\ areas = n /\ mesh = n
    BY <2>1 DEF AwarenessInit
  <2>3. MeshTypes
    BY <2>1, <2>2 DEF AwarenessInit, MeshTypes
  <2>4. MeshCurrent
    BY <2>1, <2>2 DEF AwarenessInit, MeshCurrent
  <2> QED
    BY <2>3, <2>4 DEF MeshInv
<1>2. MeshInv => MeshCurrent
  BY DEF MeshInv
<1> QED
  BY <1>1, <1>2, MeshSteps, PTL DEF AwarenessSpec


-----------------------------------------------------------------------------
(* The minds of the AI client *)

Request == [serialno : Nat, body : Bodies, key : Nat]
Possess == [type : {"possess"}, body : Bodies, key : Nat]
Info == [type : {"info"}, refno : Nat, mind : Nat, body : Bodies]
Disappearance == [type : {"disappearance"}, body : Bodies]
ServerOp == Possess \cup Info \cup Disappearance
Linked == [body : Bodies, refno : Nat]
Tick == [mind : Nat, due : Nat]

\* What is under way, as sets: only the question of the server may come twice.
Sent == Range(toServer)
Infos == Coming("info")
Ends == Coming("disappearance")
OnceEach(ops) == \A i, j \in DOMAIN ops : ops[i] = ops[j] /\ ops[i].type # "possess" => i = j

ClientTypes ==
    /\ clock \in Nat /\ serialNo \in Nat /\ wait \in Int /\ fired \in Nat
    /\ toServer \in Seq(Request) /\ IsInjective(toServer)
    /\ fromServer \in Seq(ServerOp) /\ OnceEach(fromServer)
    /\ serverMinds \in Seq(Linked) /\ asks \in Nat /\ keys \in [Bodies -> Nat]
    /\ turnedDown \subseteq Nat
    /\ DOMAIN callbacks \subseteq Nat /\ DOMAIN mMinds \subseteq Nat
    /\ DOMAIN queue \subseteq Tick

\* The account has one mind on an entity, however often it is asked for.
LinkedOnce ==
    \A m, k \in DOMAIN serverMinds : serverMinds[m].body = serverMinds[k].body => m = k

\* A serial number is that of one request, of one answer or of a request turned down.
SerialsOnce ==
    /\ \A n \in DOMAIN callbacks : n < serialNo
    /\ \A r \in Sent : r.serialno < serialNo /\ r.serialno \notin turnedDown
    /\ \A r, q \in Sent : r.serialno = q.serialno => r = q
    /\ \A x \in Infos : x.refno < serialNo /\ x.refno \notin turnedDown
    /\ \A x \in Infos, r \in Sent : r.serialno # x.refno
    /\ \A x, y \in Infos : x.refno = y.refno => x = y
    /\ \A n \in turnedDown : n < serialNo

\* A callback waits for a request or an answer that is under way unless the request was
\* turned down; what is under way has its callback, or that has timed out.
CallbacksWait ==
    /\ \A n \in DOMAIN callbacks :
          (\E r \in Sent : r.serialno = n) \/ (\E x \in Infos : x.refno = n) \/ n \in turnedDown
    /\ \A r \in Sent : r.serialno \in DOMAIN callbacks \cup givenUp
    /\ \A x \in Infos : x.refno \in DOMAIN callbacks \cup givenUp

\* An answer names a mind of the server of which nothing is known here yet.
NewMinds ==
    /\ \A x \in Infos :
          /\ x.mind \in DOMAIN serverMinds
          /\ serverMinds[x.mind].body = x.body /\ serverMinds[x.mind].refno = x.refno
          /\ x.mind \notin DOMAIN mMinds
          /\ \A t \in DOMAIN queue : t.mind # x.mind
    /\ \A x, y \in Infos : x.mind = y.mind => x = y

\* The two tables of minds are inverse to each other.
TablesAgree ==
    /\ \A m \in DOMAIN mMinds :
          /\ mMinds[m] \in DOMAIN mEntitiesWithMinds /\ mEntitiesWithMinds[mMinds[m]] = m
          /\ m \in DOMAIN serverMinds /\ serverMinds[m].body = mMinds[m]
    /\ \A b \in DOMAIN mEntitiesWithMinds :
          mEntitiesWithMinds[b] \in DOMAIN mMinds /\ mMinds[mEntitiesWithMinds[b]] = b
    /\ own \subseteq DOMAIN mMinds

\* A mind of the server whose entity is there has its counterpart, or will have it.
MindsMade ==
    \A m \in DOMAIN serverMinds :
        serverMinds[m].body \in alive =>
            \/ m \in DOMAIN mMinds
            \/ serverMinds[m].refno \in givenUp
            \/ \E x \in Infos : x.mind = m /\ x.refno \in DOMAIN callbacks

\* An entity that disappears is gone, and the mind that knows it is told.
GoneTold ==
    /\ \A x \in Ends : x.body \notin alive
    /\ \A m \in own : mMinds[m] \in alive \/ \E x \in Ends : x.body = mMinds[m]

\* The dispatcher has one Tick of each mind, and perhaps one of minds that are gone.
OneTickOfEach ==
    /\ \A t \in DOMAIN queue : queue[t] = 1 /\ t.mind \in DOMAIN serverMinds
    /\ \A t, u \in DOMAIN queue : t.mind = u.mind => t = u
    /\ \A m \in DOMAIN mMinds : \E t \in DOMAIN queue : t.mind = m

TimerSet ==
    queue # EmptyBag => fired > 0 \/ (wait # NoWait /\ \A t \in DOMAIN queue : wait <= t.due)

ClientInv ==
    /\ ClientTypes /\ LinkedOnce /\ SerialsOnce /\ CallbacksWait /\ NewMinds
    /\ TablesAgree /\ MindsMade /\ GoneTold /\ OneTickOfEach /\ TimerSet

-----------------------------------------------------------------------------

\* Appending what is not there yet, and taking the first.
LEMMA AppendedOnce ==
    ASSUME NEW S, NEW s \in Seq(S), IsInjective(s), NEW e \in S, e \notin Range(s)
    PROVE  /\ Append(s, e) \in Seq(S) /\ IsInjective(Append(s, e))
           /\ Range(Append(s, e)) = Range(s) \cup {e}
<1> DEFINE t == Append(s, e)
<1>1. /\ t \in Seq(S) /\ Len(t) = Len(s) + 1 /\ t[Len(s) + 1] = e
      /\ \A i \in 1 .. Len(s) : t[i] = s[i]
  OBVIOUS
<1>2. DOMAIN s = 1 .. Len(s) /\ DOMAIN t = 1 .. Len(s) + 1 /\ Len(s) \in Nat
  BY <1>1, LenProperties
<1> HIDE DEF t
<1>3. \A i \in DOMAIN t : i = Len(s) + 1 \/ (i \in DOMAIN s /\ t[i] = s[i])
  BY <1>1, <1>2
<1>4. Range(t) = Range(s) \cup {e}
  <2>1. ASSUME NEW x \in Range(t) PROVE x \in Range(s) \cup {e}
    BY <1>1, <1>2, <1>3 DEF Range
  <2>2. ASSUME NEW x \in Range(s) PROVE x \in Range(t)
    <3>1. PICK i \in DOMAIN s : x = s[i]
      BY DEF Range
    <3>2. i \in DOMAIN t /\ t[i] = x
      BY <3>1, <1>1, <1>2
    <3> QED  BY <3>2 DEF Range
  <2>3. e \in Range(t)
    BY <1>1, <1>2 DEF Range
  <2> QED  BY <2>1, <2>2, <2>3
<1>5. IsInjective(t)
  <2> SUFFICES ASSUME NEW i \in DOMAIN t, NEW j \in DOMAIN t, t[i] = t[j] PROVE i = j
    BY DEF IsInjective
  <2>1. \A k \in DOMAIN s : s[k] # e
    BY DEF Range
  <2> QED  BY <1>1, <1>3, <2>1 DEF IsInjective
<1> QED  BY <1>1, <1>4, <1>5 DEF t

LEMMA TakenOnce ==
    ASSUME NEW S, NEW s \in Seq(S), IsInjective(s), s # <<>>
    PROVE  /\ Tail(s) \in Seq(S) /\ IsInjective(Tail(s))
           /\ Head(s) \in Range(s) /\ Range(Tail(s)) = Range(s) \ {Head(s)}
<1> DEFINE t == Tail(s)
<1>1. /\ t \in Seq(S) /\ Len(t) = Len(s) - 1 /\ Len(s) \in Nat \ {0}
      /\ \A i \in 1 .. Len(t) : t[i] = s[i + 1]
  BY HeadTailProperties, EmptySeq
<1>2. DOMAIN s = 1 .. Len(s) /\ DOMAIN t = 1 .. Len(s) - 1 /\ Head(s) = s[1]
  BY <1>1, LenProperties
<1> HIDE DEF t
<1>3. \A i \in DOMAIN t : i + 1 \in DOMAIN s /\ i + 1 # 1 /\ t[i] = s[i + 1]
  BY <1>1, <1>2
<1>4. \A i \in DOMAIN s : i = 1 \/ (i - 1 \in DOMAIN t /\ t[i - 1] = s[i])
  BY <1>1, <1>2
<1>5. 1 \in DOMAIN s
  BY <1>1, <1>2
<1>6. Range(t) = Range(s) \ {s[1]}
  <2>1. ASSUME NEW x \in Range(t) PROVE x \in Range(s) /\ x # s[1]
    <3>1. PICK i \in DOMAIN t : x = t[i]
      BY DEF Range
    <3>2. i + 1 \in DOMAIN s /\ i + 1 # 1 /\ x = s[i + 1]
      BY <3>1, <1>3
    <3> QED  BY <3>2, <1>5 DEF Range, IsInjective
  <2>2. ASSUME NEW x \in Range(s), x # s[1] PROVE x \in Range(t)
    <3>1. PICK i \in DOMAIN s : x = s[i]
      BY DEF Range
    <3>2. i - 1 \in DOMAIN t /\ t[i - 1] = x
      BY <3>1, <2>2, <1>4
    <3> QED  BY <3>2 DEF Range
  <2> QED  BY <2>1, <2>2
<1>7. IsInjective(t)
  <2> SUFFICES ASSUME NEW i \in DOMAIN t, NEW j \in DOMAIN t, t[i] = t[j] PROVE i = j
    BY DEF IsInjective
  <2>1. i + 1 = j + 1
    BY <1>3 DEF IsInjective
  <2> QED  BY <2>1, <1>2, <1>1
<1> QED  BY <1>1, <1>2, <1>5, <1>6, <1>7 DEF t, Range

\* What is under way.
LEMMA OpsAre ==
    ASSUME ClientTypes
    PROVE  /\ Infos \subseteq Info /\ Ends \subseteq Disappearance /\ Sent \subseteq Request
           /\ \A x \in Range(fromServer) : x.type = "possess" => x \in Possess
<1>1. Range(fromServer) \subseteq ServerOp /\ Sent \subseteq Request
  BY LenProperties DEF Range, Sent, ClientTypes
<1>2. \A x \in Range(fromServer) :
         /\ x.type = "possess" => x \in Possess
         /\ x.type = "info" => x \in Info
         /\ x.type = "disappearance" => x \in Disappearance
  BY <1>1 DEF ServerOp, Possess, Info, Disappearance
<1>3. Infos \subseteq Info /\ Ends \subseteq Disappearance
  BY <1>2 DEF Infos, Ends, Coming
<1> QED  BY <1>1, <1>2, <1>3

\* An operation of the server is sent.
LEMMA OpSent ==
    ASSUME ClientTypes, NEW op \in ServerOp, op.type = "possess" \/ op \notin Range(fromServer),
           fromServer' = Append(fromServer, op)
    PROVE  /\ fromServer' \in Seq(ServerOp) /\ OnceEach(fromServer')
           /\ Infos' = IF op.type = "info" THEN Infos \cup {op} ELSE Infos
           /\ Ends' = IF op.type = "disappearance" THEN Ends \cup {op} ELSE Ends
<1>1. PICK s, u : s = fromServer /\ u = fromServer' /\ u = Append(s, op)
  OBVIOUS
<1>2. s \in Seq(ServerOp) /\ OnceEach(s)
  BY <1>1 DEF ClientTypes
<1>3. /\ u \in Seq(ServerOp) /\ Len(s) \in Nat /\ DOMAIN s = 1 .. Len(s) /\ DOMAIN u = 1 .. Len(s) + 1
      /\ u[Len(s) + 1] = op /\ \A i \in 1 .. Len(s) : u[i] = s[i]
  BY <1>1, <1>2, LenProperties
<1>4. \A i \in DOMAIN u : i = Len(s) + 1 \/ (i \in DOMAIN s /\ u[i] = s[i])
  BY <1>3
<1>5. op.type = "possess" \/ \A i \in DOMAIN s : s[i] # op
  BY <1>1 DEF Range
<1>6. OnceEach(u)
  <2> SUFFICES ASSUME NEW i \in DOMAIN u, NEW j \in DOMAIN u, u[i] = u[j], u[i].type # "possess" PROVE i = j
    BY DEF OnceEach
  <2> QED  BY <1>2, <1>3, <1>4, <1>5 DEF OnceEach
<1>7. Range(u) = Range(s) \cup {op}
  <2>1. ASSUME NEW x \in Range(u) PROVE x \in Range(s) \cup {op}
    BY <1>3, <1>4 DEF Range
  <2>2. ASSUME NEW x \in Range(s) PROVE x \in Range(u)
    <3>1. PICK i \in DOMAIN s : x = s[i]
      BY DEF Range
    <3>2. i \in DOMAIN u /\ u[i] = x
      BY <3>1, <1>3
    <3> QED  BY <3>2 DEF Range
  <2>3. op \in Range(u)
    <3>1. Len(s) + 1 \in DOMAIN u
      BY <1>3
    <3> QED  BY <1>3, <3>1 DEF Range
  <2> QED  BY <2>1, <2>2, <2>3
<1> QED  BY <1>1, <1>3, <1>6, <1>7 DEF Infos, Ends, Coming

\* The first operation of the server arrives.
LEMMA OpTaken ==
    ASSUME ClientTypes, fromServer # <<>>, fromServer' = Tail(fromServer)
    PROVE  /\ fromServer' \in Seq(ServerOp) /\ OnceEach(fromServer')
           /\ Head(fromServer) \in Range(fromServer)
           /\ Infos' = Infos \ {Head(fromServer)} /\ Ends' = Ends \ {Head(fromServer)}
<1>1. PICK s, u : s = fromServer /\ u = fromServer' /\ u = Tail(s)
  OBVIOUS
<1>2. s \in Seq(ServerOp) /\ OnceEach(s) /\ s # <<>>
  BY <1>1 DEF ClientTypes
<1>3. /\ u \in Seq(ServerOp) /\ Len(u) = Len(s) - 1 /\ Len(s) \in Nat \ {0}
      /\ \A i \in 1 .. Len(u) : u[i] = s[i + 1]
  BY <1>1, <1>2, HeadTailProperties, EmptySeq
<1>4. DOMAIN s = 1 .. Len(s) /\ DOMAIN u = 1 .. Len(s) - 1 /\ Head(s) = s[1]
  BY <1>2, <1>3, LenProperties
<1>5. \A i \in DOMAIN u : i \in Int /\ i + 1 \in DOMAIN s /\ i + 1 # 1 /\ u[i] = s[i + 1]
  BY <1>3, <1>4
<1>6. \A i \in DOMAIN s : i = 1 \/ (i - 1 \in DOMAIN u /\ u[i - 1] = s[i])
  BY <1>3, <1>4
<1>7. 1 \in DOMAIN s
  BY <1>3, <1>4
<1>8. OnceEach(u)
  <2> SUFFICES ASSUME NEW i \in DOMAIN u, NEW j \in DOMAIN u, u[i] = u[j], u[i].type # "possess" PROVE i = j
    BY DEF OnceEach
  <2>1. i + 1 = j + 1
    BY <1>2, <1>5 DEF OnceEach
  <2> QED  BY <1>5, <2>1
<1>9. \A x : x.type # "possess" => (x \in Range(u) <=> x \in Range(s) /\ x # s[1])
  <2>1. ASSUME NEW x \in Range(u), x.type # "possess" PROVE x \in Range(s) /\ x # s[1]
    <3>1. PICK i \in DOMAIN u : x = u[i]
      BY DEF Range
    <3>2. i + 1 \in DOMAIN s /\ i + 1 # 1 /\ x = s[i + 1]
      BY <3>1, <1>5
    <3> QED  BY <1>2, <1>7, <2>1, <3>2 DEF Range, OnceEach
  <2>2. ASSUME NEW x \in Range(s), x # s[1] PROVE x \in Range(u)
    <3>1. PICK i \in DOMAIN s : x = s[i]
      BY DEF Range
    <3>2. i - 1 \in DOMAIN u /\ u[i - 1] = x
      BY <3>1, <2>2, <1>6
    <3> QED  BY <3>2 DEF Range
  <2> QED  BY <2>1, <2>2
<1>10. {x \in Range(u) : x.type = "info"} = {x \in Range(s) : x.type = "info"} \ {s[1]}
  BY <1>9
<1>11. {x \in Range(u) : x.type = "disappearance"} = {x \in Range(s) : x.type = "disappearance"} \ {s[1]}
  BY <1>9
<1>12. s[1] \in Range(s)
  BY <1>7 DEF Range
<1> QED  BY <1>1, <1>3, <1>4, <1>8, <1>10, <1>11, <1>12 DEF Infos, Ends, Coming

LEMMA OpsSame ==
    ASSUME fromServer' = fromServer
    PROVE  Infos' = Infos /\ Ends' = Ends
BY DEF Infos, Ends, Coming

\* Ticks are put into the dispatcher, and taken out of it.
LEMMA TicksPut ==
    ASSUME NEW A, \A x \in DOMAIN A : A[x] = 1, NEW S, S \cap DOMAIN A = {}
    PROVE  /\ DOMAIN (A (+) SetToBag(S)) = DOMAIN A \cup S
           /\ \A x \in DOMAIN A \cup S : (A (+) SetToBag(S))[x] = 1
           /\ DOMAIN (A (+) SetToBag(S)) = {} => A (+) SetToBag(S) = EmptyBag
BY DEF SetToBag, (+), EmptyBag

LEMMA TicksTaken ==
    ASSUME NEW A, \A x \in DOMAIN A : A[x] = 1, NEW S
    PROVE  /\ DOMAIN (A (-) SetToBag(S)) = DOMAIN A \ S
           /\ \A x \in DOMAIN A \ S : (A (-) SetToBag(S))[x] = 1
BY DEF SetToBag, (-)

LEMMA EarliestIs ==
    ASSUME NEW S \in SUBSET Nat, S # {}
    PROVE  Earliest(S) \in S /\ \A y \in S : Earliest(S) <= y
<1>1. PICK x \in S : \A y \in S : ~ (<<y, x>> \in OpToRel(<, Nat))
  BY NatLessThanWellFounded, WFMin
<1>2. \A y \in S : ~ (y < x)
  BY <1>1 DEF OpToRel
<1>3. \A y \in S : x <= y
  BY <1>2
<1> QED  BY <1>3 DEF Earliest

\* The timer is set for the first of the Ticks.
LEMMA ScheduledFor ==
    ASSUME NEW q, DOMAIN q \subseteq Tick, DOMAIN q = {} => q = EmptyBag, clock \in Nat, ScheduleDispatch(q)
    PROVE  wait' \in Int /\ wait' # NoWait /\ \A t \in DOMAIN q : wait' <= t.due
<1>1. CASE q = EmptyBag
  <2>1. DOMAIN q = {}
    BY <1>1 DEF EmptyBag, SetToBag
  <2>2. wait' = clock + 600
    BY <1>1 DEF ScheduleDispatch, IdleWait
  <2> QED  BY <2>1, <2>2 DEF NoWait
<1>2. CASE q # EmptyBag
  <2> DEFINE S == {t.due : t \in DOMAIN q}
  <2>1. S \in SUBSET Nat /\ S # {}
    BY <1>2 DEF Tick
  <2>2. wait' = Earliest(S)
    BY <1>2 DEF ScheduleDispatch, BagToSet
  <2>3. wait' \in S /\ \A y \in S : wait' <= y
    BY <2>1, <2>2, EarliestIs
  <2> QED  BY <2>1, <2>3 DEF NoWait
<1> QED  BY <1>1, <1>2

-----------------------------------------------------------------------------

LEMMA ServerAsksKeeps ==
    ASSUME ClientInv, NEW b \in Bodies, ServerAsks(b)
    PROVE  ClientInv'
<1>0. PICK op : op = [type |-> "possess", body |-> b, key |-> keys'[b]]
  OBVIOUS
<1>1. /\ asks' = asks + 1 /\ keys' = [keys EXCEPT ![b] = IF @ = 0 THEN asks + 1 ELSE @]
      /\ fromServer' = Append(fromServer, op)
      /\ clock' = clock /\ callbacks' = callbacks /\ serialNo' = serialNo /\ givenUp' = givenUp
      /\ mMinds' = mMinds /\ mEntitiesWithMinds' = mEntitiesWithMinds /\ own' = own /\ queue' = queue
      /\ wait' = wait /\ fired' = fired /\ toServer' = toServer /\ serverMinds' = serverMinds
      /\ turnedDown' = turnedDown /\ alive' = alive
  BY <1>0 DEF ServerAsks, mindVars
<1>2. asks' \in Nat /\ keys' \in [Bodies -> Nat]
  BY <1>1 DEF ClientInv, ClientTypes
<1>3. op \in ServerOp /\ op.type = "possess"
  <2>1. keys'[b] \in Nat
    BY <1>2
  <2> QED  BY <1>0, <2>1 DEF ServerOp, Possess
<1>4. /\ fromServer' \in Seq(ServerOp) /\ OnceEach(fromServer')
      /\ Infos' = Infos /\ Ends' = Ends
  BY <1>1, <1>3, OpSent DEF ClientInv
<1>5. Sent' = Sent
  BY <1>1 DEF Sent
<1>6. ClientTypes'
  BY <1>1, <1>2, <1>4 DEF ClientInv, ClientTypes
<1>7. LinkedOnce' /\ SerialsOnce' /\ CallbacksWait'
  BY <1>1, <1>4, <1>5 DEF ClientInv, LinkedOnce, SerialsOnce, CallbacksWait
<1>8. NewMinds' /\ TablesAgree' /\ MindsMade' /\ GoneTold'
  BY <1>1, <1>4 DEF ClientInv, NewMinds, TablesAgree, MindsMade, GoneTold
<1>9. OneTickOfEach' /\ TimerSet'
  BY <1>1 DEF ClientInv, OneTickOfEach, TimerSet
<1> QED  BY <1>6, <1>7, <1>8, <1>9 DEF ClientInv

LEMMA TakePossessionKeeps ==
    ASSUME ClientInv, TakePossession
    PROVE  ClientInv'
<1>0. PICK op, b, r : op = Head(fromServer) /\ b = op.body /\ r = [serialno |-> serialNo, body |-> b, key |-> op.key]
  OBVIOUS
<1>1. /\ fromServer # <<>> /\ op.type = "possess" /\ fromServer' = Tail(fromServer)
      /\ callbacks' = Emplace(callbacks, serialNo, b) /\ toServer' = Append(toServer, r)
      /\ serialNo' = serialNo + 1
      /\ clock' = clock /\ givenUp' = givenUp
      /\ mMinds' = mMinds /\ mEntitiesWithMinds' = mEntitiesWithMinds /\ own' = own /\ queue' = queue
      /\ wait' = wait /\ fired' = fired /\ asks' = asks /\ keys' = keys /\ serverMinds' = serverMinds
      /\ turnedDown' = turnedDown /\ alive' = alive
  BY <1>0 DEF TakePossession, mindVars, serverVars
<1>2. /\ fromServer' \in Seq(ServerOp) /\ OnceEach(fromServer') /\ op \in Range(fromServer)
      /\ Infos' = Infos \ {op} /\ Ends' = Ends \ {op}
  BY <1>0, <1>1, OpTaken DEF ClientInv
<1>3. op \in Possess /\ Infos' = Infos /\ Ends' = Ends
  BY <1>1, <1>2, OpsAre DEF ClientInv, Infos, Ends, Coming
<1>4. b \in Bodies /\ op.key \in Nat
  BY <1>0, <1>3 DEF Possess
<1>5. r \in Request /\ r.serialno = serialNo
  BY <1>0, <1>4 DEF Request, ClientInv, ClientTypes
<1>6. r \notin Sent
  BY <1>5 DEF ClientInv, SerialsOnce, ClientTypes
<1>7. toServer' \in Seq(Request) /\ IsInjective(toServer') /\ Sent' = Sent \cup {r}
  BY <1>1, <1>5, <1>6, AppendedOnce DEF Sent, ClientInv, ClientTypes
<1>8. serialNo \notin DOMAIN callbacks
  BY DEF ClientInv, SerialsOnce, ClientTypes
<1>9. DOMAIN callbacks' = DOMAIN callbacks \cup {serialNo}
  BY <1>1 DEF Emplace
<1>10. /\ serialNo \in Nat /\ serialNo' = serialNo + 1 /\ DOMAIN callbacks \subseteq Nat
       /\ \A q \in Sent : q.serialno \in Nat
       /\ \A x \in Infos : x.refno \in Nat
       /\ turnedDown \subseteq Nat
  BY <1>1, OpsAre DEF ClientInv, ClientTypes, Request, Info
<1>11. ClientTypes'
  BY <1>1, <1>2, <1>7, <1>9 DEF ClientInv, ClientTypes
<1>12. LinkedOnce'
  BY <1>1 DEF ClientInv, LinkedOnce
<1>13. SerialsOnce'
  <2>1. serialNo < serialNo' /\ \A n \in Nat : n < serialNo => n < serialNo'
    BY <1>10
  <2>2. serialNo \notin turnedDown /\ \A x \in Infos : x.refno # serialNo
    BY <1>10 DEF ClientInv, SerialsOnce
  <2>3. \A q \in Sent : q.serialno # serialNo
    BY <1>10 DEF ClientInv, SerialsOnce
  <2> QED  BY <1>1, <1>3, <1>5, <1>7, <1>9, <1>10, <2>1, <2>2, <2>3 DEF ClientInv, SerialsOnce
<1>14. CallbacksWait'
  BY <1>1, <1>3, <1>5, <1>7, <1>9 DEF ClientInv, CallbacksWait
<1>15. NewMinds' /\ TablesAgree' /\ MindsMade' /\ GoneTold'
  BY <1>1, <1>3, <1>9 DEF ClientInv, NewMinds, TablesAgree, MindsMade, GoneTold
<1>16. OneTickOfEach' /\ TimerSet'
  BY <1>1 DEF ClientInv, OneTickOfEach, TimerSet
<1> QED  BY <1>11, <1>12, <1>13, <1>14, <1>15, <1>16 DEF ClientInv

LEMMA ServerAnswersKeeps ==
    ASSUME ClientInv, ServerAnswers
    PROVE  ClientInv'
<1>0. PICK r, mind, op, link :
         /\ r = Head(toServer) /\ mind = Len(serverMinds) + 1
         /\ op = [type |-> "info", refno |-> r.serialno, mind |-> mind, body |-> r.body]
         /\ link = [body |-> r.body, refno |-> r.serialno]
  OBVIOUS
<1>1. /\ toServer # <<>> /\ toServer' = Tail(toServer)
      /\ \/ /\ LinkedTo(r.body) = {}
            /\ serverMinds' = Append(serverMinds, link) /\ fromServer' = Append(fromServer, op)
            /\ turnedDown' = turnedDown
         \/ /\ turnedDown' = turnedDown \cup {r.serialno}
            /\ serverMinds' = serverMinds /\ fromServer' = fromServer
      /\ \/ keys' = [keys EXCEPT ![r.body] = 0]
         \/ keys' = [keys EXCEPT ![r.body] = IF r.key = keys[r.body] /\ r.body \notin alive THEN 0 ELSE @]
      /\ clock' = clock /\ callbacks' = callbacks /\ serialNo' = serialNo /\ givenUp' = givenUp
      /\ mMinds' = mMinds /\ mEntitiesWithMinds' = mEntitiesWithMinds /\ own' = own /\ queue' = queue
      /\ wait' = wait /\ fired' = fired /\ asks' = asks /\ alive' = alive
  BY <1>0 DEF ServerAnswers, mindVars
<1>2. toServer' \in Seq(Request) /\ IsInjective(toServer') /\ r \in Sent /\ Sent' = Sent \ {r}
  BY <1>0, <1>1, TakenOnce DEF Sent, ClientInv, ClientTypes
<1>3. r \in Request
  BY <1>2, OpsAre DEF ClientInv
<1>4. r.serialno \in Nat /\ r.body \in Bodies
  BY <1>3 DEF Request
<1>5. /\ mind \in Nat \ {0} /\ mind \notin DOMAIN serverMinds /\ DOMAIN serverMinds \subseteq Nat
      /\ \A m \in DOMAIN serverMinds : m < mind
  BY <1>0, LenProperties DEF ClientInv, ClientTypes
<1>6. /\ \A x \in Infos : x.refno # r.serialno
      /\ r.serialno \notin turnedDown /\ r.serialno < serialNo
      /\ \A q \in Sent' : q.serialno # r.serialno
      /\ r.serialno \in DOMAIN callbacks \cup givenUp
  BY <1>2 DEF ClientInv, SerialsOnce, CallbacksWait
<1>7. keys' \in [Bodies -> Nat]
  <2>1. keys \in [Bodies -> Nat] /\ 0 \in Nat
    BY DEF ClientInv, ClientTypes
  <2> QED  BY <1>1, <1>4, <2>1
<1>8. CASE /\ LinkedTo(r.body) = {}
           /\ serverMinds' = Append(serverMinds, link) /\ fromServer' = Append(fromServer, op)
           /\ turnedDown' = turnedDown
  <2>1. op \in ServerOp /\ op.type = "info" /\ op.refno = r.serialno /\ op.mind = mind /\ op.body = r.body
    BY <1>0, <1>4, <1>5 DEF ServerOp, Info
  <2>2. op \notin Range(fromServer)
    BY <2>1, <1>6 DEF Infos, Coming
  <2>3. /\ fromServer' \in Seq(ServerOp) /\ OnceEach(fromServer')
        /\ Infos' = Infos \cup {op} /\ Ends' = Ends
    BY <1>8, <2>1, <2>2, OpSent DEF ClientInv
  <2>4. serverMinds \in Seq(Linked) /\ link \in Linked /\ link.body = r.body /\ link.refno = r.serialno
    BY <1>0, <1>4 DEF ClientInv, ClientTypes, Linked
  <2>5. /\ serverMinds' \in Seq(Linked) /\ DOMAIN serverMinds' = DOMAIN serverMinds \cup {mind}
        /\ serverMinds'[mind] = link
        /\ \A m \in DOMAIN serverMinds : serverMinds'[m] = serverMinds[m]
    BY <1>0, <1>8, <2>4, LenProperties
  <2>6. ClientTypes'
    BY <1>1, <1>2, <1>7, <1>8, <2>3, <2>5 DEF ClientInv, ClientTypes
  <2>7. LinkedOnce'
    <3>1. \A m \in DOMAIN serverMinds : serverMinds[m].body # r.body
      BY <1>8 DEF LinkedTo
    <3> QED  BY <2>4, <2>5, <3>1 DEF ClientInv, LinkedOnce
  <2>8. SerialsOnce'
    BY <1>1, <1>2, <1>6, <1>8, <2>1, <2>3 DEF ClientInv, SerialsOnce
  <2>9. CallbacksWait'
    BY <1>1, <1>2, <1>6, <1>8, <2>1, <2>3 DEF ClientInv, CallbacksWait
  <2>10. NewMinds'
    <3>1. mind \notin DOMAIN mMinds /\ \A t \in DOMAIN queue : t.mind # mind
      BY <1>5 DEF ClientInv, TablesAgree, OneTickOfEach
    <3> QED  BY <1>1, <1>5, <2>1, <2>3, <2>4, <2>5, <3>1 DEF ClientInv, NewMinds
  <2>11. TablesAgree' /\ GoneTold' /\ OneTickOfEach' /\ TimerSet'
    BY <1>1, <2>3, <2>5 DEF ClientInv, TablesAgree, GoneTold, OneTickOfEach, TimerSet
  <2>12. MindsMade'
    BY <1>1, <1>6, <2>1, <2>3, <2>4, <2>5 DEF ClientInv, MindsMade
  <2> QED  BY <2>6, <2>7, <2>8, <2>9, <2>10, <2>11, <2>12 DEF ClientInv
<1>9. CASE turnedDown' = turnedDown \cup {r.serialno} /\ serverMinds' = serverMinds /\ fromServer' = fromServer
  <2>1. Infos' = Infos /\ Ends' = Ends
    BY <1>9, OpsSame
  <2>2. ClientTypes'
    BY <1>1, <1>2, <1>4, <1>7, <1>9 DEF ClientInv, ClientTypes
  <2>3. LinkedOnce'
    BY <1>9 DEF ClientInv, LinkedOnce
  <2>4. SerialsOnce'
    BY <1>1, <1>2, <1>6, <1>9, <2>1 DEF ClientInv, SerialsOnce
  <2>5. CallbacksWait'
    BY <1>1, <1>2, <1>9, <2>1 DEF ClientInv, CallbacksWait
  <2>6. NewMinds' /\ MindsMade'
    BY <1>1, <1>9, <2>1 DEF ClientInv, NewMinds, MindsMade
  <2>7. TablesAgree' /\ GoneTold' /\ OneTickOfEach' /\ TimerSet'
    BY <1>1, <1>9, <2>1 DEF ClientInv, TablesAgree, GoneTold, OneTickOfEach, TimerSet
  <2> QED  BY <2>2, <2>3, <2>4, <2>5, <2>6, <2>7 DEF ClientInv
<1> QED  BY <1>1, <1>8, <1>9

LEMMA ServerDestroysKeeps ==
    ASSUME ClientInv, NEW b \in Bodies, ServerDestroys(b)
    PROVE  ClientInv'
<1> DEFINE op == [type |-> "disappearance", body |-> b]
<1>0. /\ b \in alive /\ alive' = alive \ {b}
      /\ LinkedTo(b) # {} => fromServer' = Append(fromServer, op)
      /\ LinkedTo(b) = {} => fromServer' = fromServer
      /\ clock' = clock /\ callbacks' = callbacks /\ serialNo' = serialNo /\ givenUp' = givenUp
      /\ mMinds' = mMinds /\ mEntitiesWithMinds' = mEntitiesWithMinds /\ own' = own /\ queue' = queue
      /\ wait' = wait /\ fired' = fired /\ toServer' = toServer /\ serverMinds' = serverMinds
      /\ asks' = asks /\ keys' = keys /\ turnedDown' = turnedDown
  BY DEF ServerDestroys, mindVars
<1>1. op \in ServerOp /\ op.type = "disappearance" /\ op.body = b
  BY DEF ServerOp, Disappearance
<1> HIDE DEF op
<1>2. op \notin Range(fromServer)
  BY <1>0, <1>1 DEF Ends, Coming, GoneTold, ClientInv
<1>3. /\ fromServer' \in Seq(ServerOp) /\ OnceEach(fromServer')
      /\ Infos' = Infos
      /\ LinkedTo(b) # {} => Ends' = Ends \cup {op}
      /\ LinkedTo(b) = {} => Ends' = Ends
  <2>1. CASE LinkedTo(b) # {}
    BY <2>1, <1>0, <1>1, <1>2, OpSent DEF ClientInv
  <2>2. CASE LinkedTo(b) = {}
    BY <2>2, <1>0, OpsSame DEF ClientInv, ClientTypes
  <2> QED  BY <2>1, <2>2
<1>4. Sent' = Sent
  BY <1>0 DEF Sent
<1>5. ClientTypes'
  BY <1>0, <1>3 DEF ClientInv, ClientTypes
<1>6. LinkedOnce' /\ SerialsOnce' /\ CallbacksWait'
  BY <1>0, <1>3, <1>4 DEF ClientInv, LinkedOnce, SerialsOnce, CallbacksWait
<1>7. NewMinds' /\ TablesAgree' /\ MindsMade'
  BY <1>0, <1>3 DEF ClientInv, NewMinds, TablesAgree, MindsMade
<1>8. GoneTold'
  <2>1. \A m \in own : LinkedTo(mMinds[m]) # {}
    BY DEF ClientInv, TablesAgree, LinkedTo
  <2> QED  BY <1>0, <1>1, <1>3, <2>1 DEF ClientInv, GoneTold
<1>9. OneTickOfEach' /\ TimerSet'
  BY <1>0 DEF ClientInv, OneTickOfEach, TimerSet
<1> QED  BY <1>5, <1>6, <1>7, <1>8, <1>9 DEF ClientInv

\* The answer is taken and its callback erased, if it is there.
LEMMA AnswerTaken ==
    ASSUME ClientInv, AnswerArrives, NEW op, op = Head(fromServer)
    PROVE  /\ fromServer' \in Seq(ServerOp) /\ OnceEach(fromServer')
           /\ op \in Infos /\ Infos' = Infos \ {op} /\ Ends' = Ends /\ Sent' = Sent
           /\ DOMAIN callbacks' = DOMAIN callbacks \ {op.refno}
<1>1. /\ fromServer # <<>> /\ op.type = "info" /\ fromServer' = Tail(fromServer)
      /\ toServer' = toServer
      /\ op.refno \in DOMAIN callbacks => callbacks' = Restrict(callbacks, DOMAIN callbacks \ {op.refno})
      /\ op.refno \notin DOMAIN callbacks => callbacks' = callbacks
  BY DEF AnswerArrives
<1>2. /\ fromServer' \in Seq(ServerOp) /\ OnceEach(fromServer') /\ op \in Range(fromServer)
      /\ Infos' = Infos \ {op} /\ Ends' = Ends \ {op}
  BY <1>1, OpTaken DEF ClientInv
<1>3. op \in Infos /\ op \notin Ends
  BY <1>1, <1>2 DEF Infos, Ends, Coming
<1>4. DOMAIN callbacks' = DOMAIN callbacks \ {op.refno}
  BY <1>1 DEF Restrict
<1> QED  BY <1>1, <1>2, <1>3, <1>4 DEF Sent

\* What does not depend on whether a mind is made.
LEMMA AnswerKeeps ==
    ASSUME ClientInv, AnswerArrives
    PROVE  LinkedOnce' /\ SerialsOnce' /\ CallbacksWait'
<1>1. PICK op : op = Head(fromServer)
  OBVIOUS
<1>2. /\ op \in Infos /\ Infos' = Infos \ {op} /\ Sent' = Sent
      /\ DOMAIN callbacks' = DOMAIN callbacks \ {op.refno}
  BY <1>1, AnswerTaken
<1>3. serverMinds' = serverMinds /\ serialNo' = serialNo /\ givenUp' = givenUp /\ turnedDown' = turnedDown
  BY DEF AnswerArrives, serverVars
<1>4. LinkedOnce'
  BY <1>3 DEF ClientInv, LinkedOnce
<1>5. SerialsOnce'
  BY <1>2, <1>3 DEF ClientInv, SerialsOnce
<1>6. \A r \in Sent : r.serialno # op.refno
  BY <1>2 DEF ClientInv, SerialsOnce
<1>7. \A x \in Infos' : x.refno # op.refno
  BY <1>2 DEF ClientInv, SerialsOnce
<1>8. CallbacksWait'
  <2>1. \A n \in DOMAIN callbacks' :
           (\E r \in Sent' : r.serialno = n) \/ (\E x \in Infos' : x.refno = n) \/ n \in turnedDown'
    BY <1>2, <1>3 DEF ClientInv, CallbacksWait
  <2>2. \A r \in Sent' : r.serialno \in DOMAIN callbacks' \cup givenUp'
    BY <1>2, <1>3, <1>6 DEF ClientInv, CallbacksWait
  <2>3. \A x \in Infos' : x.refno \in DOMAIN callbacks' \cup givenUp'
    BY <1>2, <1>3, <1>7 DEF ClientInv, CallbacksWait
  <2> QED  BY <2>1, <2>2, <2>3 DEF CallbacksWait
<1> QED  BY <1>4, <1>5, <1>8

LEMMA AnswerArrivesKeeps ==
    ASSUME ClientInv, AnswerArrives
    PROVE  ClientInv'
<1>1. PICK op : op = Head(fromServer)
  OBVIOUS
<1>2. /\ fromServer' \in Seq(ServerOp) /\ OnceEach(fromServer')
      /\ op \in Infos /\ Infos' = Infos \ {op} /\ Ends' = Ends /\ Sent' = Sent
      /\ DOMAIN callbacks' = DOMAIN callbacks \ {op.refno}
  BY <1>1, AnswerTaken
<1>3. LinkedOnce' /\ SerialsOnce' /\ CallbacksWait'
  BY AnswerKeeps
<1>4. /\ op.refno \in DOMAIN callbacks => CreateMindInstance(op.mind, op.body)
      /\ op.refno \notin DOMAIN callbacks => UNCHANGED mindVars
      /\ clock' = clock /\ serialNo' = serialNo /\ givenUp' = givenUp /\ fired' = fired
      /\ toServer' = toServer /\ asks' = asks /\ keys' = keys /\ serverMinds' = serverMinds
      /\ turnedDown' = turnedDown /\ alive' = alive
  BY <1>1 DEF AnswerArrives, serverVars
<1>5. \A x \in Infos' : x.refno # op.refno
  BY <1>2 DEF ClientInv, SerialsOnce
<1>6. CASE op.refno \in DOMAIN callbacks
  <2>0. PICK mind, b, tick : mind = op.mind /\ b = op.body /\ tick = TickOf(mind)
    OBVIOUS
  <2>1. /\ mMinds' = Emplace(mMinds, mind, b) /\ mEntitiesWithMinds' = Emplace(mEntitiesWithMinds, b, mind)
        /\ queue' = queue (+) SetToBag({tick}) /\ ScheduleDispatch(queue') /\ own' = own
    BY <1>4, <1>6, <2>0 DEF CreateMindInstance
  <2>2. op \in Infos /\ op \in Info
    BY <1>2, OpsAre DEF ClientInv
  <2>3. /\ mind \in Nat /\ b \in Bodies /\ mind \in DOMAIN serverMinds /\ serverMinds[mind].body = b
        /\ mind \notin DOMAIN mMinds /\ \A t \in DOMAIN queue : t.mind # mind
    BY <2>0, <2>2 DEF Info, ClientInv, NewMinds
  <2>4. b \notin DOMAIN mEntitiesWithMinds
    BY <2>3 DEF ClientInv, TablesAgree, LinkedOnce
  <2>5. tick \in Tick /\ tick.mind = mind
    BY <2>0, <2>3 DEF TickOf, Tick, ClientInv, ClientTypes
  <2>6. /\ DOMAIN mMinds' = DOMAIN mMinds \cup {mind} /\ mMinds'[mind] = b
        /\ \A m \in DOMAIN mMinds : mMinds'[m] = mMinds[m]
    BY <2>1, <2>3 DEF Emplace
  <2>7. /\ DOMAIN mEntitiesWithMinds' = DOMAIN mEntitiesWithMinds \cup {b} /\ mEntitiesWithMinds'[b] = mind
        /\ \A c \in DOMAIN mEntitiesWithMinds : mEntitiesWithMinds'[c] = mEntitiesWithMinds[c]
    BY <2>1, <2>4 DEF Emplace
  <2>8. /\ DOMAIN queue' = DOMAIN queue \cup {tick} /\ \A t \in DOMAIN queue' : queue'[t] = 1
        /\ DOMAIN queue' = {} => queue' = EmptyBag
    <3>1. \A t \in DOMAIN queue : queue[t] = 1
      BY DEF ClientInv, OneTickOfEach
    <3>2. {tick} \cap DOMAIN queue = {}
      BY <2>3, <2>5
    <3> QED  BY <2>1, <3>1, <3>2, TicksPut
  <2>9. wait' \in Int /\ wait' # NoWait /\ \A t \in DOMAIN queue' : wait' <= t.due
    <3>1. DOMAIN queue' \subseteq Tick /\ clock \in Nat
      BY <2>5, <2>8 DEF ClientInv, ClientTypes
    <3> QED  BY <2>1, <2>8, <3>1, ScheduledFor
  <2>10. ClientTypes'
    BY <1>2, <1>4, <2>3, <2>5, <2>6, <2>8, <2>9 DEF ClientInv, ClientTypes
  <2>11. NewMinds'
    <3>1. \A x \in Infos' : x.mind # mind
      BY <1>2, <2>0, <2>2 DEF ClientInv, NewMinds
    <3> QED  BY <1>2, <1>4, <2>5, <2>6, <2>8, <3>1 DEF ClientInv, NewMinds
  <2>12. TablesAgree'
    BY <1>4, <2>1, <2>3, <2>4, <2>6, <2>7 DEF ClientInv, TablesAgree
  <2>13. MindsMade'
    <3>1. \A x \in Infos : x.mind = mind \/ (x \in Infos' /\ (x.refno \in DOMAIN callbacks => x.refno \in DOMAIN callbacks'))
      BY <1>2, <1>5, <2>0
    <3> QED  BY <1>4, <2>6, <3>1 DEF ClientInv, MindsMade
  <2>14. GoneTold'
    BY <1>2, <1>4, <2>1, <2>6 DEF ClientInv, GoneTold, TablesAgree
  <2>15. OneTickOfEach'
    BY <1>4, <2>3, <2>5, <2>6, <2>8 DEF ClientInv, OneTickOfEach
  <2>16. TimerSet'
    BY <2>9 DEF TimerSet
  <2> QED  BY <1>3, <2>10, <2>11, <2>12, <2>13, <2>14, <2>15, <2>16 DEF ClientInv
<1>7. CASE op.refno \notin DOMAIN callbacks
  <2>1. /\ mMinds' = mMinds /\ mEntitiesWithMinds' = mEntitiesWithMinds /\ own' = own
        /\ queue' = queue /\ wait' = wait
    BY <1>4, <1>7 DEF mindVars
  <2>2. ClientTypes'
    BY <1>2, <1>4, <2>1 DEF ClientInv, ClientTypes
  <2>3. NewMinds'
    BY <1>2, <1>4, <2>1 DEF ClientInv, NewMinds
  <2>4. TablesAgree' /\ GoneTold' /\ OneTickOfEach' /\ TimerSet'
    BY <1>2, <1>4, <2>1 DEF ClientInv, TablesAgree, GoneTold, OneTickOfEach, TimerSet
  <2>5. MindsMade'
    <3>1. \A x \in Infos : x.refno \in DOMAIN callbacks => x \in Infos' /\ x.refno \in DOMAIN callbacks'
      BY <1>2, <1>5, <1>7
    <3> QED  BY <1>4, <2>1, <3>1 DEF ClientInv, MindsMade
  <2> QED  BY <1>3, <2>2, <2>3, <2>4, <2>5 DEF ClientInv
<1> QED  BY <1>6, <1>7

LEMMA DisappearsKeeps ==
    ASSUME ClientInv, Disappears
    PROVE  ClientInv'
<1>0. PICK op, b : op = Head(fromServer) /\ b = op.body
  OBVIOUS
<1>1. /\ fromServer # <<>> /\ op.type = "disappearance" /\ fromServer' = Tail(fromServer)
      /\ b \in DOMAIN mEntitiesWithMinds /\ mEntitiesWithMinds[b] \in own =>
            /\ mMinds' = Restrict(mMinds, DOMAIN mMinds \ {mEntitiesWithMinds[b]})
            /\ own' = own \ {mEntitiesWithMinds[b]}
            /\ mEntitiesWithMinds' = Restrict(mEntitiesWithMinds, DOMAIN mEntitiesWithMinds \ {b})
      /\ ~(b \in DOMAIN mEntitiesWithMinds /\ mEntitiesWithMinds[b] \in own) =>
            mMinds' = mMinds /\ own' = own /\ mEntitiesWithMinds' = mEntitiesWithMinds
      /\ clock' = clock /\ callbacks' = callbacks /\ serialNo' = serialNo /\ givenUp' = givenUp
      /\ queue' = queue /\ wait' = wait /\ fired' = fired /\ toServer' = toServer
      /\ asks' = asks /\ keys' = keys /\ turnedDown' = turnedDown /\ serverMinds' = serverMinds /\ alive' = alive
  BY <1>0 DEF Disappears, serverVars
<1>2. /\ fromServer' \in Seq(ServerOp) /\ OnceEach(fromServer') /\ op \in Range(fromServer)
      /\ Infos' = Infos \ {op} /\ Ends' = Ends \ {op}
  BY <1>0, <1>1, OpTaken DEF ClientInv
<1>3. op \in Ends /\ op \in Disappearance /\ Infos' = Infos /\ Sent' = Sent
  BY <1>1, <1>2, OpsAre DEF ClientInv, Infos, Ends, Coming, Sent
<1>4. b \notin alive /\ \A x \in Ends : x.body # b => x \in Ends'
  BY <1>0, <1>2, <1>3 DEF ClientInv, GoneTold
<1>5. LinkedOnce' /\ SerialsOnce' /\ CallbacksWait'
  BY <1>1, <1>3 DEF ClientInv, LinkedOnce, SerialsOnce, CallbacksWait
<1>6. CASE b \in DOMAIN mEntitiesWithMinds /\ mEntitiesWithMinds[b] \in own
  <2>0. PICK m : m = mEntitiesWithMinds[b]
    OBVIOUS
  <2>1. /\ DOMAIN mMinds' = DOMAIN mMinds \ {m} /\ \A k \in DOMAIN mMinds' : mMinds'[k] = mMinds[k]
        /\ DOMAIN mEntitiesWithMinds' = DOMAIN mEntitiesWithMinds \ {b}
        /\ \A c \in DOMAIN mEntitiesWithMinds' : mEntitiesWithMinds'[c] = mEntitiesWithMinds[c]
        /\ own' = own \ {m}
    BY <1>1, <1>6, <2>0 DEF Restrict
  <2>2. /\ m \in DOMAIN mMinds /\ mMinds[m] = b
        /\ \A k \in DOMAIN mMinds' : mMinds[k] # b
        /\ \A c \in DOMAIN mEntitiesWithMinds' : mEntitiesWithMinds[c] # m
    BY <1>6, <2>0, <2>1 DEF ClientInv, TablesAgree
  <2>3. ClientTypes'
    BY <1>1, <1>2, <2>1 DEF ClientInv, ClientTypes
  <2>4. NewMinds'
    BY <1>1, <1>3, <2>1 DEF ClientInv, NewMinds
  <2>5. TablesAgree'
    BY <1>1, <2>1, <2>2 DEF ClientInv, TablesAgree
  <2>6. MindsMade'
    <3>1. serverMinds[m].body \notin alive
      BY <1>4, <2>2 DEF ClientInv, TablesAgree
    <3> QED  BY <1>1, <1>3, <2>1, <3>1 DEF ClientInv, MindsMade
  <2>7. GoneTold'
    BY <1>1, <1>2, <1>4, <2>1, <2>2 DEF ClientInv, GoneTold, TablesAgree
  <2>8. OneTickOfEach' /\ TimerSet'
    BY <1>1, <2>1 DEF ClientInv, OneTickOfEach, TimerSet
  <2> QED  BY <1>5, <2>3, <2>4, <2>5, <2>6, <2>7, <2>8 DEF ClientInv
<1>7. CASE ~(b \in DOMAIN mEntitiesWithMinds /\ mEntitiesWithMinds[b] \in own)
  <2>1. mMinds' = mMinds /\ own' = own /\ mEntitiesWithMinds' = mEntitiesWithMinds
    BY <1>1, <1>7
  <2>2. ClientTypes'
    BY <1>1, <1>2, <2>1 DEF ClientInv, ClientTypes
  <2>3. NewMinds' /\ TablesAgree' /\ MindsMade' /\ OneTickOfEach' /\ TimerSet'
    BY <1>1, <1>3, <2>1 DEF ClientInv, NewMinds, TablesAgree, MindsMade, OneTickOfEach, TimerSet
  <2>4. \A m \in own : mMinds[m] # b
    BY <1>7 DEF ClientInv, TablesAgree
  <2>5. GoneTold'
    BY <1>1, <1>2, <1>4, <2>1, <2>4 DEF ClientInv, GoneTold
  <2> QED  BY <1>5, <2>2, <2>3, <2>5 DEF ClientInv
<1> QED  BY <1>6, <1>7

LEMMA OwnEntityKnownKeeps ==
    ASSUME ClientInv, NEW m, OwnEntityKnown(m)
    PROVE  ClientInv'
<1>1. /\ m \in DOMAIN mMinds /\ own' = own \cup {m}
      /\ \/ mMinds[m] \in alive
         \/ \E i \in DOMAIN fromServer : fromServer[i] = [type |-> "disappearance", body |-> mMinds[m]]
      /\ clock' = clock /\ callbacks' = callbacks /\ serialNo' = serialNo /\ givenUp' = givenUp
      /\ mMinds' = mMinds /\ mEntitiesWithMinds' = mEntitiesWithMinds /\ queue' = queue
      /\ wait' = wait /\ fired' = fired /\ toServer' = toServer /\ fromServer' = fromServer
      /\ asks' = asks /\ keys' = keys /\ turnedDown' = turnedDown /\ serverMinds' = serverMinds /\ alive' = alive
  BY DEF OwnEntityKnown, serverVars
<1>2. Infos' = Infos /\ Ends' = Ends /\ Sent' = Sent
  BY <1>1, OpsSame DEF Sent
<1>3. mMinds[m] \in alive \/ \E x \in Ends : x.body = mMinds[m]
  BY <1>1 DEF Ends, Coming, Range
<1>4. ClientTypes'
  BY <1>1 DEF ClientInv, ClientTypes
<1>5. LinkedOnce' /\ SerialsOnce' /\ CallbacksWait'
  BY <1>1, <1>2 DEF ClientInv, LinkedOnce, SerialsOnce, CallbacksWait
<1>6. NewMinds' /\ TablesAgree' /\ MindsMade' /\ GoneTold'
  BY <1>1, <1>2, <1>3 DEF ClientInv, NewMinds, TablesAgree, MindsMade, GoneTold
<1>7. OneTickOfEach' /\ TimerSet'
  BY <1>1 DEF ClientInv, OneTickOfEach, TimerSet
<1> QED  BY <1>4, <1>5, <1>6, <1>7 DEF ClientInv

LEMMA CallbackTimeoutKeeps ==
    ASSUME ClientInv, NEW n, CallbackTimeout(n)
    PROVE  ClientInv'
<1>1. /\ n \in DOMAIN callbacks =>
            givenUp' = givenUp \cup {n} /\ callbacks' = Restrict(callbacks, DOMAIN callbacks \ {n})
      /\ n \notin DOMAIN callbacks => givenUp' = givenUp /\ callbacks' = callbacks
      /\ clock' = clock /\ serialNo' = serialNo /\ own' = own
      /\ mMinds' = mMinds /\ mEntitiesWithMinds' = mEntitiesWithMinds /\ queue' = queue
      /\ wait' = wait /\ fired' = fired /\ toServer' = toServer /\ fromServer' = fromServer
      /\ asks' = asks /\ keys' = keys /\ turnedDown' = turnedDown /\ serverMinds' = serverMinds /\ alive' = alive
  BY DEF CallbackTimeout, serverVars, mindVars
<1>2. Infos' = Infos /\ Ends' = Ends /\ Sent' = Sent
  BY <1>1, OpsSame DEF Sent
<1>3. /\ DOMAIN callbacks' = DOMAIN callbacks \ {n}
      /\ n \in DOMAIN callbacks => n \in givenUp'
      /\ givenUp \subseteq givenUp'
  BY <1>1 DEF Restrict
<1>4. ClientTypes'
  BY <1>1, <1>3 DEF ClientInv, ClientTypes
<1>5. LinkedOnce' /\ SerialsOnce'
  BY <1>1, <1>2, <1>3 DEF ClientInv, LinkedOnce, SerialsOnce
<1>6. CallbacksWait'
  BY <1>1, <1>2, <1>3 DEF ClientInv, CallbacksWait
<1>7. MindsMade'
  <2>1. \A x \in Infos : x.refno = n /\ n \in DOMAIN callbacks => serverMinds[x.mind].refno \in givenUp'
    BY <1>3 DEF ClientInv, NewMinds, CallbacksWait
  <2> QED  BY <1>1, <1>2, <1>3, <2>1 DEF ClientInv, MindsMade
<1>8. NewMinds' /\ TablesAgree' /\ GoneTold' /\ OneTickOfEach' /\ TimerSet'
  BY <1>1, <1>2 DEF ClientInv, NewMinds, TablesAgree, GoneTold, OneTickOfEach, TimerSet
<1> QED  BY <1>4, <1>5, <1>6, <1>7, <1>8 DEF ClientInv

\* Only the time, a timer or a key changes.
LEMMA TimersKeep ==
    ASSUME ClientInv, \/ DispatchTimer
                      \/ TimePasses
                      \/ \E n \in DOMAIN callbacks \cup expired : CallbackTimer(n)
                      \/ \E b \in Bodies : KeyUsedElsewhere(b)
                      \/ UNCHANGED clientVars
    PROVE  ClientInv'
<1>1. /\ callbacks' = callbacks /\ serialNo' = serialNo /\ givenUp' = givenUp
      /\ mMinds' = mMinds /\ mEntitiesWithMinds' = mEntitiesWithMinds /\ own' = own /\ queue' = queue
      /\ toServer' = toServer /\ fromServer' = fromServer
      /\ asks' = asks /\ turnedDown' = turnedDown /\ serverMinds' = serverMinds /\ alive' = alive
  BY DEF DispatchTimer, TimePasses, CallbackTimer, KeyUsedElsewhere, clientVars, mindVars, serverVars
<1>2. /\ clock' \in Nat /\ fired' \in Nat /\ wait' \in Int /\ keys' \in [Bodies -> Nat]
      /\ fired' > 0 \/ (fired' = fired /\ wait' = wait)
  <2>1. clock \in Nat /\ fired \in Nat /\ wait \in Int /\ keys \in [Bodies -> Nat]
    BY DEF ClientInv, ClientTypes
  <2>2. CASE DispatchTimer
    BY <2>1, <2>2 DEF DispatchTimer, serverVars, NoWait
  <2>3. CASE TimePasses
    BY <2>1, <2>3 DEF TimePasses, mindVars, serverVars
  <2>4. CASE \E n \in DOMAIN callbacks \cup expired : CallbackTimer(n)
    BY <2>1, <2>4 DEF CallbackTimer, mindVars, serverVars
  <2>5. CASE \E b \in Bodies : KeyUsedElsewhere(b)
    BY <2>1, <2>5 DEF KeyUsedElsewhere, mindVars
  <2>6. CASE UNCHANGED clientVars
    BY <2>1, <2>6 DEF clientVars
  <2> QED  BY <2>2, <2>3, <2>4, <2>5, <2>6
<1>3. Infos' = Infos /\ Ends' = Ends /\ Sent' = Sent
  BY <1>1, OpsSame DEF Sent
<1>4. ClientTypes' /\ TimerSet'
  BY <1>1, <1>2 DEF ClientInv, ClientTypes, TimerSet
<1>5. LinkedOnce' /\ SerialsOnce' /\ CallbacksWait'
  BY <1>1, <1>3 DEF ClientInv, LinkedOnce, SerialsOnce, CallbacksWait
<1>6. NewMinds' /\ TablesAgree' /\ MindsMade' /\ GoneTold' /\ OneTickOfEach'
  BY <1>1, <1>3 DEF ClientInv, NewMinds, TablesAgree, MindsMade, GoneTold, OneTickOfEach
<1> QED  BY <1>4, <1>5, <1>6 DEF ClientInv

\* A Tick that was handled is followed by the next one of its mind.
LEMMA DispatchHandlerKeeps ==
    ASSUME ClientInv, NEW done \in SUBSET BagToSet(queue), DispatchHandler(done)
    PROVE  ClientInv'
<1> DEFINE next == {TickOf(t.mind) : t \in {x \in done : x.mind \in DOMAIN mMinds}}
           rest == queue (-) SetToBag(done)
<1>1. /\ fired > 0 /\ fired' = fired - 1 /\ queue' = rest (+) SetToBag(next) /\ ScheduleDispatch(queue')
      /\ clock' = clock /\ callbacks' = callbacks /\ serialNo' = serialNo /\ givenUp' = givenUp
      /\ mMinds' = mMinds /\ mEntitiesWithMinds' = mEntitiesWithMinds /\ own' = own
      /\ toServer' = toServer /\ fromServer' = fromServer
      /\ asks' = asks /\ keys' = keys /\ turnedDown' = turnedDown /\ serverMinds' = serverMinds /\ alive' = alive
  BY DEF DispatchHandler, serverVars
<1>2. done \subseteq DOMAIN queue /\ DOMAIN queue \subseteq Tick /\ clock \in Nat /\ fired \in Nat
  BY DEF BagToSet, ClientInv, ClientTypes
<1>3. /\ \A t \in DOMAIN queue : queue[t] = 1 /\ t.mind \in DOMAIN serverMinds
      /\ \A t, u \in DOMAIN queue : t.mind = u.mind => t = u
      /\ \A m \in DOMAIN mMinds : \E t \in DOMAIN queue : t.mind = m
  BY DEF ClientInv, OneTickOfEach
<1>4. /\ next \subseteq Tick
      /\ \A x \in next : \E t \in done : x.mind = t.mind /\ t.mind \in DOMAIN mMinds
      /\ \A t \in done : t.mind \in DOMAIN mMinds => \E x \in next : x.mind = t.mind
      /\ \A x, y \in next : x.mind = y.mind => x = y
  <2>1. \A t \in Tick : TickOf(t.mind) \in Tick /\ TickOf(t.mind).mind = t.mind
    BY <1>2 DEF TickOf, Tick
  <2>2. \A t, u \in Tick : t.mind = u.mind => TickOf(t.mind) = TickOf(u.mind)
    OBVIOUS
  <2> QED  BY <1>2, <2>1, <2>2
<1> HIDE DEF next
<1>5. /\ DOMAIN rest = DOMAIN queue \ done
      /\ \A t \in DOMAIN rest : rest[t] = 1
  <2>1. \A t \in DOMAIN queue : queue[t] = 1
    BY <1>3
  <2> QED  BY <2>1, TicksTaken
<1> HIDE DEF rest
<1>6. next \cap DOMAIN rest = {}
  BY <1>2, <1>3, <1>4, <1>5
<1>7. /\ DOMAIN queue' = DOMAIN rest \cup next
      /\ \A t \in DOMAIN queue' : queue'[t] = 1
      /\ DOMAIN queue' = {} => queue' = EmptyBag
  BY <1>1, <1>5, <1>6, TicksPut
<1>8. DOMAIN queue' \subseteq Tick
  BY <1>2, <1>4, <1>5, <1>7
<1>9. wait' \in Int /\ wait' # NoWait /\ \A t \in DOMAIN queue' : wait' <= t.due
  BY <1>1, <1>2, <1>7, <1>8, ScheduledFor
<1>10. Infos' = Infos /\ Ends' = Ends /\ Sent' = Sent
  BY <1>1, OpsSame DEF Sent
<1>11. fired' \in Nat
  BY <1>1, <1>2
<1>12. ClientTypes' /\ TimerSet'
  BY <1>1, <1>8, <1>9, <1>11 DEF ClientInv, ClientTypes, TimerSet
<1>13. LinkedOnce' /\ SerialsOnce' /\ CallbacksWait'
  BY <1>1, <1>10 DEF ClientInv, LinkedOnce, SerialsOnce, CallbacksWait
<1>14. TablesAgree' /\ MindsMade' /\ GoneTold'
  BY <1>1, <1>10 DEF ClientInv, TablesAgree, MindsMade, GoneTold
<1>15. \A t \in DOMAIN queue' : \E u \in DOMAIN queue : u.mind = t.mind /\ (t = u \/ (t \in next /\ u \in done))
  BY <1>2, <1>4, <1>5, <1>7
<1>16. NewMinds'
  BY <1>1, <1>10, <1>15 DEF ClientInv, NewMinds
<1>17. OneTickOfEach'
  <2>1. \A t \in DOMAIN queue' : queue'[t] = 1 /\ t.mind \in DOMAIN serverMinds
    BY <1>3, <1>7, <1>15
  <2>2. ASSUME NEW t \in DOMAIN queue', NEW u \in DOMAIN queue', t.mind = u.mind PROVE t = u
    <3>1. CASE t \in next /\ u \in next
      BY <2>2, <3>1, <1>4
    <3>2. CASE t \notin next /\ u \notin next
      BY <2>2, <3>2, <1>3, <1>5, <1>7
    <3>3. CASE t \in next /\ u \notin next
      BY <2>2, <3>3, <1>2, <1>3, <1>4, <1>5, <1>7
    <3>4. CASE t \notin next /\ u \in next
      BY <2>2, <3>4, <1>2, <1>3, <1>4, <1>5, <1>7
    <3> QED  BY <3>1, <3>2, <3>3, <3>4
  <2>3. ASSUME NEW m \in DOMAIN mMinds PROVE \E t \in DOMAIN queue' : t.mind = m
    <3>1. PICK u \in DOMAIN queue : u.mind = m
      BY <1>3
    <3>2. CASE u \in done
      BY <3>1, <3>2, <1>4, <1>7
    <3>3. CASE u \notin done
      BY <3>1, <3>3, <1>5, <1>7
    <3> QED  BY <3>2, <3>3
  <2> QED  BY <1>1, <2>1, <2>2, <2>3 DEF OneTickOfEach
<1> QED  BY <1>12, <1>13, <1>14, <1>16, <1>17 DEF ClientInv

LEMMA ClientSteps == ClientInv /\ [AIClientNext]_clientVars => ClientInv'
<1> SUFFICES ASSUME ClientInv, [AIClientNext]_clientVars PROVE ClientInv'
  OBVIOUS
<1>1. CASE \E b \in Bodies : ServerAsks(b) \/ ServerDestroys(b)
  BY <1>1, ServerAsksKeeps, ServerDestroysKeeps
<1>2. CASE TakePossession
  BY <1>2, TakePossessionKeeps
<1>3. CASE ServerAnswers
  BY <1>3, ServerAnswersKeeps
<1>4. CASE AnswerArrives
  BY <1>4, AnswerArrivesKeeps
<1>5. CASE Disappears
  BY <1>5, DisappearsKeeps
<1>6. CASE \E m \in DOMAIN mMinds : OwnEntityKnown(m)
  BY <1>6, OwnEntityKnownKeeps
<1>7. CASE \E n \in DOMAIN callbacks \cup expired : CallbackTimeout(n)
  BY <1>7, CallbackTimeoutKeeps
<1>8. CASE \E done \in SUBSET BagToSet(queue) : HandledInTime(done) /\ DispatchHandler(done)
  BY <1>8, DispatchHandlerKeeps
<1>9. CASE \/ DispatchTimer \/ TimePasses
           \/ \E n \in DOMAIN callbacks \cup expired : CallbackTimer(n)
           \/ \E b \in Bodies : KeyUsedElsewhere(b)
           \/ UNCHANGED clientVars
  BY <1>9, TimersKeep
<1> QED  BY <1>1, <1>2, <1>3, <1>4, <1>5, <1>6, <1>7, <1>8, <1>9 DEF AIClientNext

LEMMA ClientStarts == AIClientInit => ClientInv
<1> SUFFICES ASSUME AIClientInit PROVE ClientInv
  OBVIOUS
<1>1. /\ toServer = <<>> /\ fromServer = <<>> /\ serverMinds = <<>> /\ callbacks = <<>> /\ mMinds = <<>>
      /\ mEntitiesWithMinds = <<>> /\ own = {} /\ queue = EmptyBag /\ clock = 0 /\ serialNo = 0
      /\ wait = NoWait /\ fired = 0 /\ asks = 0 /\ keys = [b \in Bodies |-> 0] /\ turnedDown = {}
  BY DEF AIClientInit
<1>2. DOMAIN <<>> = {} /\ DOMAIN EmptyBag = {}
  BY DEF EmptyBag, SetToBag
<1>3. Infos = {} /\ Ends = {} /\ Sent = {}
  BY <1>1, <1>2 DEF Infos, Ends, Sent, Coming, Range
<1>4. ClientTypes
  BY <1>1, <1>2 DEF ClientTypes, IsInjective, OnceEach, NoWait
<1>5. LinkedOnce /\ SerialsOnce /\ CallbacksWait /\ NewMinds
  BY <1>1, <1>2, <1>3 DEF LinkedOnce, SerialsOnce, CallbacksWait, NewMinds
<1>6. TablesAgree /\ MindsMade /\ GoneTold /\ OneTickOfEach /\ TimerSet
  BY <1>1, <1>2, <1>3 DEF TablesAgree, MindsMade, GoneTold, OneTickOfEach, TimerSet
<1> QED  BY <1>4, <1>5, <1>6 DEF ClientInv

\* A callback waits for one request or one answer, or its request was turned down.
LEMMA CallbackWaitsForOne ==
    ASSUME ClientInv, NEW n \in DOMAIN callbacks
    PROVE  Cardinality(Asking(n)) + Cardinality(Replies(n)) = IF n \in turnedDown THEN 0 ELSE 1
<1>1. \A i \in Asking(n) : toServer[i] \in Sent /\ toServer[i].serialno = n
  BY DEF Asking, Sent, Range
<1>2. \A i \in Replies(n) : fromServer[i] \in Infos /\ fromServer[i].refno = n /\ fromServer[i].type = "info"
  BY DEF Replies, Infos, Coming, Range
<1>3. \A r \in Sent : r.serialno = n => \E i \in Asking(n) : toServer[i] = r
  BY DEF Asking, Sent, Range
<1>4. \A x \in Infos : x.refno = n => \E i \in Replies(n) : fromServer[i] = x
  BY DEF Replies, Infos, Coming, Range
<1>5. \A i, j \in Asking(n) : i = j
  BY <1>1 DEF Asking, ClientInv, SerialsOnce, ClientTypes, IsInjective
<1>6. \A i, j \in Replies(n) : i = j
  <2> SUFFICES ASSUME NEW i \in Replies(n), NEW j \in Replies(n) PROVE i = j
    OBVIOUS
  <2>1. fromServer[i] = fromServer[j] /\ fromServer[i].type # "possess"
    BY <1>2 DEF ClientInv, SerialsOnce
  <2> QED  BY <2>1 DEF Replies, ClientInv, ClientTypes, OnceEach
<1>7. Asking(n) = {} \/ Replies(n) = {}
  BY <1>1, <1>2 DEF ClientInv, SerialsOnce
<1>8. n \notin turnedDown => Asking(n) # {} \/ Replies(n) # {}
  BY <1>3, <1>4 DEF ClientInv, CallbacksWait
<1>9. n \in turnedDown => Asking(n) = {} /\ Replies(n) = {}
  BY <1>1, <1>2 DEF ClientInv, SerialsOnce
<1>10. Cardinality({}) = 0 /\ \A x : Cardinality({x}) = 1
  BY FS_EmptySet, FS_Singleton
<1>11. CASE n \in turnedDown
  BY <1>9, <1>10, <1>11
<1>12. CASE n \notin turnedDown /\ Asking(n) # {}
  <2>1. PICK i : Asking(n) = {i} /\ Replies(n) = {}
    BY <1>5, <1>7, <1>12
  <2>2. Cardinality(Asking(n)) = 1 /\ Cardinality(Replies(n)) = 0
    BY <1>10, <2>1
  <2> QED  BY <1>12, <2>2
<1>13. CASE n \notin turnedDown /\ Asking(n) = {}
  <2>1. PICK i : Replies(n) = {i}
    BY <1>6, <1>8, <1>13
  <2>2. Cardinality(Asking(n)) = 0 /\ Cardinality(Replies(n)) = 1
    BY <1>10, <1>13, <2>1
  <2> QED  BY <1>13, <2>2
<1> QED  BY <1>11, <1>12, <1>13

LEMMA InvImpliesLent == ClientInv => MindsLent
<1> SUFFICES ASSUME ClientInv PROVE MindsLent
  OBVIOUS
<1>1. /\ \A m \in DOMAIN mMinds : mMinds[m] \in DOMAIN mEntitiesWithMinds /\ mEntitiesWithMinds[mMinds[m]] = m
      /\ \A b \in DOMAIN mEntitiesWithMinds : mEntitiesWithMinds[b] \in DOMAIN mMinds
      /\ \A m \in DOMAIN mMinds : m \in DOMAIN serverMinds /\ serverMinds[m].body = mMinds[m]
  BY DEF ClientInv, TablesAgree
<1>2. \A m \in DOMAIN serverMinds :
         serverMinds[m].body \in alive =>
             \/ m \in DOMAIN mMinds
             \/ serverMinds[m].refno \in givenUp
             \/ \E op \in Coming("info") : op.mind = m /\ op.refno \in DOMAIN callbacks
  BY DEF ClientInv, MindsMade, Infos
<1>3. \A m \in own : mMinds[m] \notin alive => \E op \in Coming("disappearance") : op.body = mMinds[m]
  BY DEF ClientInv, GoneTold, Ends
<1> QED  BY <1>1, <1>2, <1>3, CallbackWaitsForOne DEF MindsLent

LEMMA InvImpliesTick == ClientInv => MindsTick
BY DEF ClientInv, OneTickOfEach, TimerSet, MindsTick, BagToSet

\* The minds of the client are those that the server has linked, one for each entity,
\* however often it asks and whatever the order of answers, timeouts and disappearances;
\* only a request that the server turned down leaves its callback without an answer
\* (PossessionAccount.cpp: createMindInstance(), operation(); BaseClient.cpp:
\* externalOperation(), sendWithCallback()).
THEOREM MindsAlwaysLent == AIClientSpec => []MindsLent
<1>1. AIClientInit => ClientInv
  BY ClientStarts
<1>2. ClientInv /\ [AIClientNext]_clientVars => ClientInv'
  BY ClientSteps
<1>3. ClientInv => MindsLent
  BY InvImpliesLent
<1> QED  BY <1>1, <1>2, <1>3, PTL DEF AIClientSpec

\* Every mind has one Tick in the dispatcher, and the timer of the dispatcher is set no
\* later than the first of them is due (BaseMind.cpp: processTick();
\* PossessionClient.cpp: processResponses(), scheduleDispatch()).
THEOREM MindsAlwaysTick == AIClientSpec => []MindsTick
<1>1. AIClientInit => ClientInv
  BY ClientStarts
<1>2. ClientInv /\ [AIClientNext]_clientVars => ClientInv'
  BY ClientSteps
<1>3. ClientInv => MindsTick
  BY InvImpliesTick
<1> QED  BY <1>1, <1>2, <1>3, PTL DEF AIClientSpec

-----------------------------------------------------------------------------
(* Rules and types *)

\* A set of numbers has a least one.
LEMMA LeastNumber ==
    ASSUME NEW T, T \subseteq Nat, T # {}
    PROVE  \E x \in T : \A y \in T : x <= y
<1>1. IsWellFoundedOn(OpToRel(<, Nat), Nat)
  BY NatLessThanWellFounded
<1>2. PICK x \in T : \A y \in T : ~ (<<y, x>> \in OpToRel(<, Nat))
  BY <1>1, WFMin, Zenon
<1>3. \A y \in T : ~ (y < x)
  BY <1>2 DEF OpToRel
<1>4. x \in Nat /\ \A y \in T : y \in Nat
  BY <1>2
<1>5. \A y \in T : x <= y
  BY <1>3, <1>4
<1> QED
  BY <1>2, <1>5

\* SetToSeqs() names every member of a finite set, each once.
LEMMA SetToSeqsAre ==
    ASSUME NEW S, IsFiniteSet(S), NEW s \in SetToSeqs(S)
    PROVE  /\ Len(s) \in Nat /\ s \in [1 .. Len(s) -> S]
           /\ \A i, j \in 1 .. Len(s) : i # j => s[i] # s[j]
           /\ S = {s[i] : i \in 1 .. Len(s)}
<1>1. PICK n \in Nat : n = Cardinality(S)
  BY FS_CardinalityType
<1>2. s \in [1 .. n -> S] /\ \A i, j \in 1 .. n : i # j => s[i] # s[j]
  BY <1>1 DEF SetToSeqs
<1>3. s \in Injection(1 .. n, S)
  BY <1>2 DEF Injection, IsInjective
<1>4. IsFiniteSet(1 .. n) /\ Cardinality(1 .. n) = n
  BY <1>1, FS_Interval
<1>5. s \in Surjection(1 .. n, S)
  BY <1>1, <1>3, <1>4, FS_Injection
<1>6. S = {s[i] : i \in 1 .. n}
  BY <1>2, <1>5 DEF Surjection
<1>7. Len(s) = n
  BY <1>2
<1> QED
  BY <1>1, <1>2, <1>6, <1>7

\* Below a type is what has it, or one below it, as its parent.
LEMMA BelowIs ==
    ASSUME NEW defs, NEW r
    PROVE  /\ Descendants(defs, r) \subseteq DOMAIN defs
           /\ \A d \in DOMAIN defs : defs[d].parent \in Descendants(defs, r) \cup {r} => d \in Descendants(defs, r)
           /\ \A d \in Descendants(defs, r) : defs[d].parent \in Descendants(defs, r) \cup {r}
<1> DEFINE below == Descendants(defs, r)
           Closed(S) == \A c \in DOMAIN defs : defs[c].parent \in S \cup {r} => c \in S
<1>1. below \subseteq DOMAIN defs
  BY DEF Descendants
<1>2. \A d \in DOMAIN defs : d \in below <=> \A S \in SUBSET DOMAIN defs : Closed(S) => d \in S
  BY DEF Descendants
<1>3. Closed(below)
  <2> SUFFICES ASSUME NEW d \in DOMAIN defs, defs[d].parent \in below \cup {r},
                      NEW S \in SUBSET DOMAIN defs, Closed(S)
               PROVE  d \in S
    BY <1>2
  <2>1. \A e \in below : e \in S
    BY <1>1, <1>2
  <2> QED
    BY <2>1
<1>4. ASSUME NEW d \in below PROVE defs[d].parent \in below \cup {r}
  <2> SUFFICES ASSUME defs[d].parent \notin below \cup {r} PROVE FALSE
    OBVIOUS
  <2>1. PICK S : S = below \ {d}
    OBVIOUS
  <2>2. S \in SUBSET DOMAIN defs /\ Closed(S)
    <3> SUFFICES ASSUME NEW c \in DOMAIN defs, defs[c].parent \in S \cup {r} PROVE c \in S
      BY <1>1, <2>1
    <3>1. c \in below
      BY <1>3, <2>1
    <3>2. c # d
      BY <2>1
    <3> QED
      BY <2>1, <3>1, <3>2
  <2>3. d \in S
    BY <1>1, <1>2, <2>2
  <2> QED
    BY <2>1, <2>3
<1> QED
  BY <1>1, <1>3, <1>4

\* No type comes from itself: some member of every set of types comes from outside it.
Founded(defs) ==
    \A S \in SUBSET DOMAIN defs : S # {} => \E d \in S : defs[d].parent \notin S

LEMMA NotBelowItself ==
    ASSUME NEW defs, Founded(defs), NEW r
    PROVE  r \notin Descendants(defs, r)
<1> SUFFICES ASSUME r \in Descendants(defs, r) PROVE FALSE
  OBVIOUS
<1>1. PICK S : S = Descendants(defs, r)
  OBVIOUS
<1>2. S \in SUBSET DOMAIN defs /\ S # {} /\ \A d \in S : defs[d].parent \in S
  BY <1>1, BelowIs
<1> QED
  BY <1>2 DEF Founded

-----------------------------------------------------------------------------
\* f[i] are the attributes after the first i types of the walk.
Updates(f, defs, attrs, walk, n) ==
    f = [i \in 0 .. n |->
            IF i = 0 THEN attrs
            ELSE [f[i - 1] EXCEPT ![walk[i]] = Combine(defs[walk[i]].own, f[i - 1][defs[walk[i]].parent])]]

LEMMA UpdatesExist ==
    ASSUME NEW defs, NEW attrs, NEW walk, NEW n \in Nat
    PROVE  \E f : Updates(f, defs, attrs, walk, n)
<1> DEFINE Bad == {k \in Nat : ~ \E f : Updates(f, defs, attrs, walk, k)}
<1> SUFFICES ASSUME Bad # {} PROVE FALSE
  OBVIOUS
<1>1. PICK k \in Bad : \A j \in Bad : k <= j
  <2>1. Bad \subseteq Nat
    OBVIOUS
  <2> HIDE DEF Bad
  <2> QED
    BY <2>1, LeastNumber
<1>2. k \in Nat /\ ~ \E f : Updates(f, defs, attrs, walk, k)
  BY <1>1
<1> DEFINE Step(h, i) == IF i = 0 THEN attrs
                         ELSE [h[i - 1] EXCEPT ![walk[i]] = Combine(defs[walk[i]].own, h[i - 1][defs[walk[i]].parent])]
<1>3. k # 0
  <2>1. PICK g : g = [i \in 0 .. 0 |-> attrs]
    OBVIOUS
  <2>2. g = [i \in 0 .. 0 |-> Step(g, i)]
    BY <2>1
  <2> QED
    BY <1>2, <2>2 DEF Updates
<1>4. PICK j \in Nat : k = j + 1
  BY <1>2, <1>3
<1>5. PICK f : Updates(f, defs, attrs, walk, j)
  BY <1>1, <1>2, <1>4
<1>6. PICK g : g = [i \in 0 .. (j + 1) |-> Step(f, i)]
  OBVIOUS
<1>7. ASSUME NEW i \in 0 .. j PROVE g[i] = f[i]
  <2>1. f[i] = Step(f, i)
    BY <1>5 DEF Updates
  <2>2. i \in 0 .. (j + 1)
    BY <1>4
  <2> QED
    BY <1>6, <2>1, <2>2
<1>8. g = [i \in 0 .. (j + 1) |-> Step(g, i)]
  <2>1. ASSUME NEW i \in 0 .. (j + 1), i # 0 PROVE g[i - 1] = f[i - 1]
    <3>1. i - 1 \in 0 .. j
      BY <1>4, <2>1
    <3> QED
      BY <1>7, <3>1
  <2> QED
    BY <1>6, <2>1
<1> QED
  BY <1>2, <1>4, <1>8 DEF Updates

\* Every type below has what it inherits, when those above it had that before.
LEMMA UpdatedInherits ==
    ASSUME NEW defs, NEW r, NEW attrs, attrs = [t \in DOMAIN defs |-> attrs[t]],
           IsFiniteSet(DOMAIN defs), Founded(defs), r \in DOMAIN defs,
           \A d \in DOMAIN defs \ Descendants(defs, r) :
               attrs[d] = Combine(defs[d].own, Inherited(attrs, defs[d].parent)),
           NEW walk \in Walks(defs, r), NEW after, after = Updated(defs, attrs, walk)
    PROVE  /\ after = [t \in DOMAIN defs |-> after[t]]
           /\ \A d \in DOMAIN defs : after[d] = Combine(defs[d].own, Inherited(after, defs[d].parent))
<1> DEFINE below == Descendants(defs, r)
<1>1. PICK n : n = Len(walk)
  OBVIOUS
<1>2. /\ n \in Nat /\ DOMAIN walk = 1 .. n
      /\ \A i, j \in 1 .. n : i # j => walk[i] # walk[j]
      /\ below = {walk[i] : i \in 1 .. n}
      /\ \A i \in 1 .. n : defs[walk[i]].parent = r \/ \E j \in 1 .. n : j < i /\ walk[j] = defs[walk[i]].parent
  <2>1. IsFiniteSet(below)
    BY BelowIs, FS_Subset
  <2>2. walk \in SetToSeqs(below)
        /\ \A i \in DOMAIN walk : defs[walk[i]].parent = r \/ \E j \in DOMAIN walk : j < i /\ walk[j] = defs[walk[i]].parent
    BY DEF Walks
  <2> HIDE DEF below
  <2>3. /\ n \in Nat /\ walk \in [1 .. n -> below]
        /\ \A i, j \in 1 .. n : i # j => walk[i] # walk[j]
        /\ below = {walk[i] : i \in 1 .. n}
    BY <1>1, <2>1, <2>2, SetToSeqsAre
  <2> QED
    BY <2>2, <2>3
<1>3. /\ below \subseteq DOMAIN defs /\ r \notin below
      /\ \A d \in DOMAIN defs : defs[d].parent \in below \cup {r} => d \in below
  BY BelowIs, NotBelowItself
<1> HIDE DEF below
<1>4. PICK f : f = CHOOSE h : h = [i \in 0 .. Len(walk) |->
            IF i = 0 THEN attrs
            ELSE [h[i - 1] EXCEPT ![walk[i]] = Combine(defs[walk[i]].own, h[i - 1][defs[walk[i]].parent])]]
  OBVIOUS
<1>5. Updates(f, defs, attrs, walk, n)
  <2>1. \E h : Updates(h, defs, attrs, walk, n)
    BY <1>2, UpdatesExist
  <2> QED
    BY <1>1, <1>4, <2>1 DEF Updates
<1>6. after = f[n]
  BY <1>1, <1>4 DEF Updated
<1>7. f[0] = attrs /\ \A i \in 1 .. n : f[i] = [f[i - 1] EXCEPT ![walk[i]] = Combine(defs[walk[i]].own, f[i - 1][defs[walk[i]].parent])]
  <2>1. \A i \in 0 .. n : f[i] = IF i = 0 THEN attrs
            ELSE [f[i - 1] EXCEPT ![walk[i]] = Combine(defs[walk[i]].own, f[i - 1][defs[walk[i]].parent])]
    BY <1>5 DEF Updates
  <2>2. 0 \in 0 .. n /\ \A i \in 1 .. n : i \in 0 .. n /\ i # 0
    BY <1>2
  <2> QED
    BY <2>1, <2>2
<1> DEFINE Good(k) ==
             /\ f[k] = [t \in DOMAIN defs |-> f[k][t]]
             /\ \A d \in DOMAIN defs : (\A i \in 1 .. k : walk[i] # d) => f[k][d] = attrs[d]
             /\ \A i \in 1 .. k : f[k][walk[i]] = Combine(defs[walk[i]].own, f[k][defs[walk[i]].parent])
           Bad == {k \in Nat : k \in 0 .. n /\ ~ Good(k)}
<1>8. Bad = {}
  <2> SUFFICES ASSUME Bad # {} PROVE FALSE
    OBVIOUS
  <2>1. PICK k \in Bad : \A j \in Bad : k <= j
    <3>1. Bad \subseteq Nat
      OBVIOUS
    <3> HIDE DEF Bad
    <3> QED
      BY <3>1, LeastNumber
  <2>2. k \in Nat /\ k \in 0 .. n /\ ~ Good(k)
    BY <2>1
  <2>3. k \in 1 .. n
    <3>1. Good(0)
      BY <1>7
    <3>2. k # 0
      BY <2>2, <3>1
    <3>3. k \in Nat /\ k \in 0 .. n
      BY <2>2
    <3> HIDE DEF Good
    <3> QED
      BY <1>2, <3>2, <3>3
  <2>4. PICK j \in Nat : k = j + 1 /\ j \in 0 .. n /\ j = k - 1
    <3>1. k - 1 \in Nat /\ k = (k - 1) + 1 /\ k - 1 \in 0 .. n
      BY <1>2, <2>3
    <3> QED
      BY <3>1
  <2>5. Good(j)
    BY <2>1, <2>4
  <2>6. PICK d, p : d = walk[k] /\ p = defs[d].parent
    OBVIOUS
  <2>7. k \in 1 .. n /\ d \in DOMAIN defs /\ d \in below /\ d # r /\ \A i \in 1 .. j : walk[i] # d
    <3>1. d \in below
      BY <1>2, <2>3, <2>6
    <3>2. ASSUME NEW i \in 1 .. j PROVE walk[i] # d
      <4>1. i \in 1 .. n /\ i # k
        BY <1>2, <2>3, <2>4
      <4> QED
        BY <1>2, <2>3, <2>6, <4>1
    <3> QED
      BY <1>3, <2>3, <3>1, <3>2
  <2>8. f[k] = [f[j] EXCEPT ![d] = Combine(defs[d].own, f[j][p])]
    BY <1>7, <2>4, <2>6, <2>7
  <2>9. f[k] = [t \in DOMAIN defs |-> f[k][t]] /\ f[k][d] = Combine(defs[d].own, f[j][p])
        /\ \A t \in DOMAIN defs : t # d => f[k][t] = f[j][t]
    BY <2>5, <2>7, <2>8
  <2>10. p \in DOMAIN defs /\ p # d
    <3>1. CASE p = r
      BY <2>7, <3>1
    <3>2. CASE p # r
      <4>1. PICK i \in 1 .. n : i < k /\ walk[i] = p
        BY <1>2, <2>6, <2>7, <3>2
      <4> QED
        BY <1>2, <1>3, <2>6, <2>7, <4>1
    <3> QED
      BY <3>1, <3>2
  <2>11. ASSUME NEW i \in 1 .. j
         PROVE  f[k][walk[i]] = Combine(defs[walk[i]].own, f[k][defs[walk[i]].parent])
    <3>1. PICK c, q : c = walk[i] /\ q = defs[c].parent
      OBVIOUS
    <3>2. i \in 1 .. n /\ i < k /\ c \in DOMAIN defs /\ c # d
      BY <1>2, <1>3, <2>4, <2>7, <3>1
    <3>3. f[j][c] = Combine(defs[c].own, f[j][q])
      BY <2>5, <3>1
    <3>4. q \in DOMAIN defs /\ q # d
      <4>1. CASE q = r
        BY <2>7, <4>1
      <4>2. CASE q # r
        <5>1. PICK h \in 1 .. n : h < i /\ walk[h] = q
          BY <1>2, <3>1, <3>2, <4>2
        <5>2. h \in 1 .. j
          BY <2>4, <3>2, <5>1
        <5> QED
          BY <1>2, <1>3, <2>7, <5>1, <5>2
      <4> QED
        BY <4>1, <4>2
    <3> QED
      BY <2>9, <3>1, <3>2, <3>3, <3>4
  <2>12. \A i \in 1 .. k : i \in 1 .. j \/ i = k
    BY <2>4
  <2>13. \A t \in DOMAIN defs : (\A i \in 1 .. k : walk[i] # t) => f[k][t] = attrs[t]
    <3> SUFFICES ASSUME NEW t \in DOMAIN defs, \A i \in 1 .. k : walk[i] # t PROVE f[k][t] = attrs[t]
      OBVIOUS
    <3>1. t # d /\ \A i \in 1 .. j : walk[i] # t
      <4>1. k \in 1 .. k /\ \A i \in 1 .. j : i \in 1 .. k
        BY <2>4
      <4> QED
        BY <2>6, <4>1
    <3> QED
      BY <2>5, <2>9, <3>1
  <2>14. \A i \in 1 .. k : f[k][walk[i]] = Combine(defs[walk[i]].own, f[k][defs[walk[i]].parent])
    <3>1. f[k][walk[k]] = Combine(defs[walk[k]].own, f[k][defs[walk[k]].parent])
      BY <2>6, <2>9, <2>10
    <3> QED
      BY <2>11, <2>12, <3>1
  <2> QED
    BY <2>2, <2>9, <2>13, <2>14
<1>9. Good(n)
  BY <1>2, <1>8
<1>10. ASSUME NEW d \in DOMAIN defs PROVE after[d] = Combine(defs[d].own, Inherited(after, defs[d].parent))
  <2>1. DOMAIN after = DOMAIN defs /\ DOMAIN attrs = DOMAIN defs
    BY <1>6, <1>9
  <2>2. CASE d \in below
    <3>1. PICK i \in 1 .. n : walk[i] = d
      BY <1>2, <2>2
    <3>2. after[d] = Combine(defs[d].own, after[defs[d].parent])
      BY <1>6, <1>9, <3>1
    <3>3. defs[d].parent \in DOMAIN defs
      BY <1>2, <1>3, <3>1
    <3> QED
      BY <2>1, <3>2, <3>3 DEF Inherited
  <2>3. CASE d \notin below
    <3>1. after[d] = attrs[d]
      BY <1>2, <1>6, <1>9, <2>3
    <3>2. defs[d].parent \notin below
      BY <1>3, <2>3
    <3>3. defs[d].parent \in DOMAIN defs => after[defs[d].parent] = attrs[defs[d].parent]
      BY <1>2, <1>6, <1>9, <3>2
    <3>4. Inherited(after, defs[d].parent) = Inherited(attrs, defs[d].parent)
      BY <2>1, <3>3 DEF Inherited
    <3>5. attrs[d] = Combine(defs[d].own, Inherited(attrs, defs[d].parent))
      BY <2>3 DEF below
    <3> QED
      BY <3>1, <3>4, <3>5
  <2> QED
    BY <2>2, <2>3
<1> QED
  BY <1>6, <1>9, <1>10

-----------------------------------------------------------------------------
AnyDescription ==
    [parent : RuleNames \cup {GameEntity, Missing}, own : OwnValues \cup {NoRule.own}]
RuleEntry == [name : RuleNames, desc : AnyDescription]

RulesTypes ==
    /\ files \in [RuleNames -> AnyDescription] /\ dirty \subseteq RuleNames
    /\ work \in Seq(RuleEntry)
    /\ waiting \in [RuleNames \cup {GameEntity} -> Seq(RuleEntry)]
    /\ Installed \subseteq RuleNames
    /\ factories \in [Installed -> AnyDescription]
    /\ attributes = [t \in Installed |-> attributes[t]]

RulesInv == RulesTypes /\ Founded(factories) /\ TypesInherit

LEMMA NamesAre ==
    /\ RuleNames \subseteq Nat /\ GameEntity \notin RuleNames
    /\ \A S \in SUBSET RuleNames : IsFiniteSet(S)
BY RulesAssumption, FS_Subset DEF GameEntity

LEMMA DescriptionsAre ==
    \A r \in RuleNames : \A desc \in Descriptions(r) \cup {NoRule} : desc \in AnyDescription
BY RulesAssumption DEF Descriptions, NoRule, AnyDescription

\* An order of names has no others.
LEMMA ByNameIs ==
    ASSUME NEW names \in SUBSET RuleNames, NEW o \in ByName(names)
    PROVE  Len(o) \in Nat /\ o \in [1 .. Len(o) -> names]
<1>1. o \in SetToSeqs(names) /\ IsFiniteSet(names)
  BY NamesAre DEF ByName
<1> QED
  BY <1>1, SetToSeqsAre

LEMMA EntriesAre ==
    ASSUME NEW names \in SUBSET RuleNames, NEW o \in ByName(names), NEW d,
           \A r \in names : d[r] \in AnyDescription
    PROVE  [i \in DOMAIN o |-> Entry(o[i], d[o[i]])] \in Seq(RuleEntry)
<1>1. PICK n \in Nat : n = Len(o) /\ o \in [1 .. n -> names]
  BY ByNameIs
<1>2. PICK s : s = [i \in 1 .. n |-> Entry(o[i], d[o[i]])]
  OBVIOUS
<1>3. \A i \in 1 .. n : s[i] \in RuleEntry
  BY <1>1, <1>2 DEF Entry, RuleEntry
<1>4. s \in [1 .. n -> RuleEntry]
  BY <1>2, <1>3
<1>5. s \in Seq(RuleEntry)
  BY <1>1, <1>4
<1> QED
  BY <1>1, <1>2, <1>5

LEMMA InOrderIs ==
    ASSUME files \in [RuleNames -> AnyDescription], NEW names \in SUBSET RuleNames, NEW s \in InOrder(names)
    PROVE  s \in Seq(RuleEntry)
<1>1. PICK some : some = {r \in names : files[r] # NoRule}
  OBVIOUS
<1>2. PICK o \in ByName(some) : s = [i \in DOMAIN o |-> Entry(o[i], files[o[i]])]
  BY <1>1 DEF InOrder
<1>3. some \in SUBSET RuleNames /\ \A r \in some : files[r] \in AnyDescription
  BY <1>1
<1>4. [i \in DOMAIN o |-> Entry(o[i], files[o[i]])] \in Seq(RuleEntry)
  BY <1>3, EntriesAre
<1> QED
  BY <1>2, <1>4

LEMMA ReadyIs ==
    ASSUME RulesTypes, NEW r \in RuleNames, NEW s \in Ready(r)
    PROVE  s \in Seq(RuleEntry)
<1>1. PICK for : for = waiting[r] /\ for \in Seq(RuleEntry)
  BY DEF RulesTypes
<1>2. DOMAIN for \subseteq Nat /\ \A i \in DOMAIN for : for[i] \in RuleEntry
  BY <1>1
<1>3. PICK names : names = {for[i].name : i \in DOMAIN for}
  OBVIOUS
<1>4. PICK o \in ByName(names) : s = [i \in DOMAIN o |-> Entry(o[i], FirstOf(for, o[i]))]
  <2>1. PICK o \in ByName({waiting[r][i].name : i \in DOMAIN waiting[r]}) :
           s = [i \in DOMAIN o |-> Entry(o[i], FirstOf(waiting[r], o[i]))]
    BY Zenon DEF Ready
  <2>2. o \in ByName(names)
    BY <1>1, <1>3, <2>1, Zenon
  <2>3. s = [i \in DOMAIN o |-> Entry(o[i], FirstOf(for, o[i]))]
    BY <1>1, <2>1, Zenon
  <2> QED
    BY <2>2, <2>3
<1>5. PICK d : d = [n \in names |-> FirstOf(for, n)]
  OBVIOUS
<1>6. names \in SUBSET RuleNames
  BY <1>2, <1>3 DEF RuleEntry
<1>7. ASSUME NEW n \in names PROVE d[n] \in AnyDescription
  <2>1. PICK P : P = {j \in DOMAIN for : for[j].name = n}
    OBVIOUS
  <2>2. P \subseteq Nat /\ P # {} /\ P \subseteq DOMAIN for
    BY <1>2, <1>3, <2>1
  <2>3. Min(P) \in P
    <3>1. \E x \in P : \A y \in P : x <= y
      BY <2>2, LeastNumber
    <3> QED
      BY <3>1 DEF Min
  <2>4. for[Min(P)] \in RuleEntry
    BY <1>2, <2>2, <2>3
  <2>5. d[n] = for[Min(P)].desc
    BY <1>5, <2>1 DEF FirstOf
  <2> QED
    BY <2>4, <2>5 DEF RuleEntry
<1>8. [i \in DOMAIN o |-> Entry(o[i], d[o[i]])] \in Seq(RuleEntry)
  BY <1>6, <1>7, EntriesAre
<1>9. \A i \in DOMAIN o : o[i] \in names
  <2>1. o \in [1 .. Len(o) -> names]
    BY <1>6, ByNameIs
  <2> QED
    BY <2>1
<1>10. \A i \in DOMAIN o : d[o[i]] = FirstOf(for, o[i])
  BY <1>5, <1>9
<1>11. s = [i \in DOMAIN o |-> Entry(o[i], d[o[i]])]
  BY <1>4, <1>10
<1> QED
  BY <1>8, <1>11

\* The first rule of those to handle, and the rest.
LEMMA NextRuleIs ==
    ASSUME RulesTypes, work # <<>>
    PROVE  NextRule \in RuleEntry /\ Tail(work) \in Seq(RuleEntry)
BY DEF RulesTypes, NextRule

\* What a step that handles a rule leaves for the types.
LEMMA HandledKeeps ==
    ASSUME RulesTypes, NEW rest \in Seq(RuleEntry), NEW attrs, NEW notes, Handled(rest, attrs, notes),
           waiting' \in [RuleNames \cup {GameEntity} -> Seq(RuleEntry)],
           Installed' \subseteq RuleNames, factories' \in [Installed' -> AnyDescription],
           attrs = [t \in Installed' |-> attrs[t]]
    PROVE  RulesTypes' /\ attributes' = attrs
BY DEF RulesTypes, Handled

LEMMA RulesStart == ASSUME RulesInit PROVE RulesInv
<1>1. files \in [RuleNames -> AnyDescription]
  <2>1. \A r \in RuleNames : files[r] \in AnyDescription
    BY DescriptionsAre DEF RulesInit
  <2>2. files = [r \in RuleNames |-> files[r]]
    BY DEF RulesInit
  <2> QED
    BY <2>1, <2>2
<1>2. work \in Seq(RuleEntry)
  BY <1>1, InOrderIs DEF RulesInit
<1>3. Installed = {} /\ DOMAIN attributes = {}
  BY DEF RulesInit, Installed
<1>4. factories \in [Installed -> AnyDescription] /\ attributes = [t \in Installed |-> attributes[t]]
  BY <1>3 DEF RulesInit
<1>5. RulesTypes
  BY <1>1, <1>2, <1>3, <1>4 DEF RulesInit, RulesTypes
<1> QED
  BY <1>3, <1>5 DEF RulesInv, Founded, TypesInherit, Installed

LEMMA WaitKeeps == ASSUME RulesInv, WaitForRule PROVE RulesInv'
<1>1. RulesTypes /\ work # <<>>
  BY DEF RulesInv, WaitForRule
<1>2. NextRule \in RuleEntry /\ Tail(work) \in Seq(RuleEntry)
  BY <1>1, NextRuleIs
<1>3. PICK p : p = NextRule.desc.parent
  OBVIOUS
<1>4. Installed' = Installed /\ factories' = factories
  BY DEF WaitForRule, Installed
<1>5. p \notin Installed
  BY <1>3, NamesAre DEF WaitForRule, HasFactory, RulesInv, RulesTypes
<1>6. waiting' = [waiting EXCEPT ![p] = Append(@, NextRule)]
  BY <1>3 DEF WaitForRule
<1>7. /\ waiting' \in [RuleNames \cup {GameEntity} -> Seq(RuleEntry)]
      /\ \A t \in Installed : waiting'[t] = waiting[t]
  <2>1. waiting \in [RuleNames \cup {GameEntity} -> Seq(RuleEntry)] /\ Installed \subseteq RuleNames
    BY <1>1 DEF RulesTypes
  <2>2. \A q \in RuleNames \cup {GameEntity} : Append(waiting[q], NextRule) \in Seq(RuleEntry)
    BY <1>2, <2>1
  <2> QED
    BY <1>5, <1>6, <2>1, <2>2
<1>8. RulesTypes' /\ attributes' = attributes
  <2>1. /\ attributes = [t \in Installed' |-> attributes[t]] /\ Installed' \subseteq RuleNames
        /\ factories' \in [Installed' -> AnyDescription]
    BY <1>1, <1>4 DEF RulesTypes
  <2>2. Handled(Tail(work), attributes, batch)
    BY DEF WaitForRule
  <2> QED
    BY <1>1, <1>2, <1>7, <2>1, <2>2, HandledKeeps
<1>9. TypesInherit'
  BY <1>4, <1>7, <1>8 DEF RulesInv, TypesInherit, HasFactory
<1> QED
  BY <1>4, <1>8, <1>9 DEF RulesInv

\* A type is added whose parent is there: it is the parent of none.
LEMMA AddedFounded ==
    ASSUME NEW defs, Founded(defs), NEW r, r \notin DOMAIN defs, NEW desc, desc.parent # r,
           \A d \in DOMAIN defs : defs[d].parent # r
    PROVE  Founded(WithType(defs, r, desc))
<1>1. PICK more : more = WithType(defs, r, desc)
  OBVIOUS
<1>2. DOMAIN more = DOMAIN defs \cup {r} /\ more[r] = desc /\ \A d \in DOMAIN defs : more[d] = defs[d]
  BY <1>1 DEF WithType
<1> SUFFICES ASSUME NEW S \in SUBSET DOMAIN more, S # {} PROVE \E d \in S : more[d].parent \notin S
  BY <1>1 DEF Founded
<1>3. CASE S \subseteq {r}
  <2>1. S = {r}
    BY <1>3
  <2> QED
    BY <1>2, <2>1
<1>4. CASE ~ (S \subseteq {r})
  <2>1. PICK T : T = S \ {r}
    OBVIOUS
  <2>2. T \in SUBSET DOMAIN defs /\ T # {}
    BY <1>2, <1>4, <2>1
  <2>3. PICK d \in T : defs[d].parent \notin T
    BY <2>2 DEF Founded
  <2>4. d \in DOMAIN defs /\ d \in S /\ defs[d].parent # r
    BY <2>1, <2>2, <2>3
  <2> QED
    BY <1>2, <2>1, <2>3, <2>4
<1> QED
  BY <1>3, <1>4

LEMMA InstallKeeps == ASSUME RulesInv, InstallRule PROVE RulesInv'
<1>1. RulesTypes /\ work # <<>> /\ Founded(factories) /\ TypesInherit
  BY DEF RulesInv, InstallRule
<1>2. PICK r, desc : r = NextRule.name /\ desc = NextRule.desc
  OBVIOUS
<1>3. r \in RuleNames /\ desc \in AnyDescription /\ Tail(work) \in Seq(RuleEntry)
  BY <1>1, <1>2, NextRuleIs DEF RuleEntry
<1>4. PICK start : start = IF r \in HardCoded THEN Unset ELSE Inherited(attributes, desc.parent)
  OBVIOUS
<1>5. PICK attrs, defs : attrs = WithType(attributes, r, Combine(desc.own, start)) /\ defs = WithType(factories, r, desc)
  OBVIOUS
<1>6. /\ r \notin Installed /\ HasFactory(r, desc.parent) /\ factories' = defs
      /\ waiting' = [waiting EXCEPT ![r] = <<>>]
      /\ \E ready \in Ready(r) :
            IF desc.parent = GameEntity THEN Handled(ready \o Tail(work), attrs, batch)
            ELSE \E walk \in Walks(defs, desc.parent) :
                   Handled(ready \o Tail(work), Updated(defs, attrs, walk),
                           Noted({desc.parent} \cup ToSet(walk), attrs, Updated(defs, attrs, walk)))
  BY <1>2, <1>4, <1>5 DEF InstallRule
<1>7. PICK ready \in Ready(r) :
         IF desc.parent = GameEntity THEN Handled(ready \o Tail(work), attrs, batch)
         ELSE \E walk \in Walks(defs, desc.parent) :
                Handled(ready \o Tail(work), Updated(defs, attrs, walk),
                        Noted({desc.parent} \cup ToSet(walk), attrs, Updated(defs, attrs, walk)))
  BY <1>6
<1>8. ready \o Tail(work) \in Seq(RuleEntry)
  <2>1. ready \in Seq(RuleEntry)
    BY <1>1, <1>3, <1>7, ReadyIs
  <2> QED
    BY <1>3, <2>1
<1>9. /\ Installed' = Installed \cup {r} /\ Installed' = DOMAIN defs
      /\ defs[r] = desc /\ \A t \in Installed : defs[t] = factories[t]
      /\ attrs[r] = Combine(desc.own, start) /\ \A t \in Installed : attrs[t] = attributes[t]
      /\ attrs = [t \in Installed' |-> attrs[t]]
  <2>1. DOMAIN attributes = Installed
    BY <1>1 DEF RulesTypes
  <2> QED
    BY <1>5, <1>6, <2>1 DEF WithType, Installed
<1>10. /\ Installed \subseteq RuleNames /\ Installed' \subseteq RuleNames
       /\ factories' \in [Installed' -> AnyDescription]
  <2>1. Installed \subseteq RuleNames /\ factories \in [Installed -> AnyDescription]
    BY <1>1 DEF RulesTypes
  <2>2. \A t \in Installed' : defs[t] \in AnyDescription
    BY <1>3, <1>9, <2>1
  <2>3. defs = [t \in Installed' |-> defs[t]]
    BY <1>5, <1>9 DEF WithType
  <2> QED
    BY <1>3, <1>6, <1>9, <2>1, <2>2, <2>3
<1>11. \A t \in Installed : factories[t].parent \in Installed \cup {GameEntity}
  BY <1>1 DEF TypesInherit, HasFactory
<1>12. r # GameEntity /\ GameEntity \notin Installed' /\ desc.parent # r
  <2>1. r # GameEntity /\ GameEntity \notin Installed'
    BY <1>3, <1>10, NamesAre
  <2> QED
    BY <1>6, <2>1 DEF HasFactory
<1>13. Founded(defs)
  <2>1. \A t \in DOMAIN factories : factories[t].parent # r
    BY <1>6, <1>11, <1>12 DEF Installed
  <2> QED
    BY <1>1, <1>5, <1>6, <1>12, <2>1, AddedFounded DEF Installed
<1>14. waiting' \in [RuleNames \cup {GameEntity} -> Seq(RuleEntry)] /\ \A t \in Installed' : waiting'[t] = <<>>
  <2>1. waiting \in [RuleNames \cup {GameEntity} -> Seq(RuleEntry)] /\ <<>> \in Seq(RuleEntry)
    BY <1>1 DEF RulesTypes
  <2>2. \A t \in Installed : waiting[t] = <<>> /\ t \in RuleNames /\ t # r
    BY <1>1, <1>6, <1>10 DEF TypesInherit
  <2> QED
    BY <1>3, <1>6, <1>9, <2>1, <2>2
<1>15. \A t \in Installed' : HasFactory(t, defs[t].parent)'
  <2>1. ASSUME NEW t \in Installed' PROVE HasFactory(t, defs[t].parent)
    BY <1>1, <1>6, <1>9 DEF TypesInherit
  <2> QED
    BY <1>9, <2>1 DEF HasFactory
<1>16. ASSUME NEW t \in Installed
       PROVE  attrs[t] = Combine(defs[t].own, Inherited(attrs, defs[t].parent))
  <2>1. DOMAIN attributes = Installed /\ DOMAIN attrs = Installed'
    BY <1>1, <1>9 DEF RulesTypes
  <2>2. attributes[t] = Combine(factories[t].own, Inherited(attributes, factories[t].parent))
    BY <1>1 DEF TypesInherit
  <2>3. Inherited(attrs, factories[t].parent) = Inherited(attributes, factories[t].parent)
    BY <1>9, <1>11, <1>12, <2>1 DEF Inherited
  <2> QED
    BY <1>9, <2>2, <2>3
<1>17. \E after : /\ RulesTypes' /\ attributes' = after
                  /\ \A t \in Installed' : after[t] = Combine(defs[t].own, Inherited(after, defs[t].parent))
  <2>1. CASE desc.parent = GameEntity
    <3>1. Handled(ready \o Tail(work), attrs, batch)
      BY <1>7, <2>1
    <3>2. RulesTypes' /\ attributes' = attrs
      BY <1>1, <1>8, <1>9, <1>10, <1>14, <3>1, HandledKeeps
    <3>3. attrs[r] = Combine(defs[r].own, Inherited(attrs, defs[r].parent))
      <4>1. start = Unset
        BY <1>4, <1>6, <2>1 DEF HasFactory
      <4>2. Inherited(attrs, GameEntity) = Unset
        <5>1. DOMAIN attrs = Installed'
          BY <1>9
        <5> QED
          BY <1>12, <5>1 DEF Inherited
      <4> QED
        BY <1>9, <2>1, <4>1, <4>2
    <3> QED
      BY <1>9, <1>16, <3>2, <3>3
  <2>2. CASE desc.parent # GameEntity
    <3>1. PICK walk \in Walks(defs, desc.parent) :
             Handled(ready \o Tail(work), Updated(defs, attrs, walk),
                     Noted({desc.parent} \cup ToSet(walk), attrs, Updated(defs, attrs, walk)))
      BY <1>7, <2>2
    <3>2. PICK after : after = Updated(defs, attrs, walk)
      OBVIOUS
    <3>3. desc.parent \in DOMAIN defs /\ IsFiniteSet(DOMAIN defs)
      BY <1>6, <1>9, <1>10, <2>2, NamesAre DEF HasFactory
    <3>4. \A d \in DOMAIN defs \ Descendants(defs, desc.parent) :
             attrs[d] = Combine(defs[d].own, Inherited(attrs, defs[d].parent))
      <4>1. r \in Descendants(defs, desc.parent)
        BY <1>9, BelowIs
      <4> QED
        BY <1>9, <1>16, <4>1
    <3>5. /\ after = [t \in DOMAIN defs |-> after[t]]
          /\ \A d \in DOMAIN defs : after[d] = Combine(defs[d].own, Inherited(after, defs[d].parent))
      BY <1>9, <1>13, <3>1, <3>2, <3>3, <3>4, UpdatedInherits
    <3>6. RulesTypes' /\ attributes' = after
      BY <1>1, <1>8, <1>9, <1>10, <1>14, <3>1, <3>2, <3>5, HandledKeeps
    <3> QED
      BY <1>9, <3>5, <3>6
  <2> QED
    BY <2>1, <2>2
<1>18. TypesInherit'
  BY <1>6, <1>14, <1>15, <1>17 DEF TypesInherit, Installed
<1> QED
  BY <1>6, <1>13, <1>17, <1>18 DEF RulesInv

LEMMA ModifyKeeps == ASSUME RulesInv, ModifyRule PROVE RulesInv'
<1>1. RulesTypes /\ work # <<>> /\ Founded(factories) /\ TypesInherit
  BY DEF RulesInv, ModifyRule
<1>2. PICK r, desc : r = NextRule.name /\ desc = NextRule.desc
  OBVIOUS
<1>3. r \in RuleNames /\ desc \in AnyDescription /\ Tail(work) \in Seq(RuleEntry)
  BY <1>1, <1>2, NextRuleIs DEF RuleEntry
<1>4. PICK attrs, defs :
         /\ attrs = [attributes EXCEPT ![r] = Combine(desc.own, Inherited(attributes, desc.parent))]
         /\ defs = [factories EXCEPT ![r].own = desc.own]
  OBVIOUS
<1>5. /\ r \in Installed /\ waiting' = waiting
      /\ IF desc.parent # factories[r].parent
         THEN UNCHANGED factories /\ Handled(Tail(work), attributes, batch)
         ELSE /\ factories' = defs
              /\ \E walk \in Walks(defs, r) :
                    Handled(Tail(work), Updated(defs, attrs, walk),
                            Noted({r} \cup ToSet(walk), attributes, Updated(defs, attrs, walk)))
  BY <1>2, <1>4 DEF ModifyRule
<1>6. /\ Installed \subseteq RuleNames /\ factories \in [Installed -> AnyDescription]
      /\ waiting' \in [RuleNames \cup {GameEntity} -> Seq(RuleEntry)]
      /\ attributes = [t \in Installed |-> attributes[t]]
  BY <1>1, <1>5 DEF RulesTypes
<1>7. CASE desc.parent # factories[r].parent
  <2>1. factories' = factories /\ Installed' = Installed /\ Handled(Tail(work), attributes, batch)
    BY <1>5, <1>7 DEF Installed
  <2>2. RulesTypes' /\ attributes' = attributes
    BY <1>1, <1>3, <1>6, <2>1, HandledKeeps
  <2>3. TypesInherit'
    BY <1>1, <1>5, <2>1, <2>2 DEF TypesInherit, HasFactory
  <2> QED
    BY <1>1, <2>1, <2>2, <2>3 DEF RulesInv
<1>8. CASE desc.parent = factories[r].parent
  <2>1. factories' = defs
    BY <1>5, <1>8
  <2>2. PICK walk \in Walks(defs, r) :
           Handled(Tail(work), Updated(defs, attrs, walk),
                   Noted({r} \cup ToSet(walk), attributes, Updated(defs, attrs, walk)))
    BY <1>5, <1>8
  <2>3. PICK after : after = Updated(defs, attrs, walk)
    OBVIOUS
  <2>4. factories[r] \in AnyDescription
    BY <1>5, <1>6
  <2>5. defs[r].parent = factories[r].parent /\ defs[r].own = desc.own /\ defs[r] \in AnyDescription
    <3>1. defs[r] = [factories[r] EXCEPT !.own = desc.own]
      BY <1>4, <1>5, <1>6
    <3> QED
      BY <1>3, <2>4, <3>1 DEF AnyDescription
  <2>6. /\ DOMAIN defs = Installed /\ \A t \in Installed : t # r => defs[t] = factories[t]
        /\ defs \in [Installed -> AnyDescription]
    BY <1>4, <1>5, <1>6, <2>5
  <2>7. /\ Installed' = Installed /\ factories' \in [Installed' -> AnyDescription]
        /\ \A t \in Installed : defs[t].parent = factories[t].parent
    BY <2>1, <2>5, <2>6 DEF Installed
  <2>8. Founded(defs)
    BY <1>1, <2>6, <2>7 DEF Founded, Installed
  <2>9. /\ attrs = [t \in Installed |-> attrs[t]]
        /\ attrs[r] = Combine(desc.own, Inherited(attributes, desc.parent))
        /\ \A t \in Installed : t # r => attrs[t] = attributes[t]
    BY <1>4, <1>5, <1>6
  <2>10. r \notin Descendants(defs, r)
    BY <2>8, NotBelowItself
  <2>11. ASSUME NEW d \in DOMAIN defs \ Descendants(defs, r)
         PROVE  attrs[d] = Combine(defs[d].own, Inherited(attrs, defs[d].parent))
    <3>1. defs[d].parent # r
      BY BelowIs
    <3>2. Inherited(attrs, defs[d].parent) = Inherited(attributes, defs[d].parent)
      <4>1. DOMAIN attrs = Installed /\ DOMAIN attributes = Installed
        BY <1>6, <2>9
      <4> QED
        BY <2>9, <3>1, <4>1 DEF Inherited
    <3>3. CASE d = r
      BY <1>8, <2>5, <2>9, <3>2, <3>3
    <3>4. CASE d # r
      <4>1. attributes[d] = Combine(factories[d].own, Inherited(attributes, factories[d].parent))
        BY <1>1, <2>6 DEF TypesInherit
      <4> QED
        BY <2>6, <2>9, <3>2, <3>4, <4>1
    <3> QED
      BY <3>3, <3>4
  <2>12. IsFiniteSet(DOMAIN defs) /\ r \in DOMAIN defs
    BY <1>5, <1>6, <2>6, NamesAre
  <2>13. attrs = [t \in DOMAIN defs |-> attrs[t]]
    BY <2>6, <2>9
  <2>14. /\ after = [t \in DOMAIN defs |-> after[t]]
         /\ \A d \in DOMAIN defs : after[d] = Combine(defs[d].own, Inherited(after, defs[d].parent))
    BY <2>2, <2>3, <2>8, <2>11, <2>12, <2>13, UpdatedInherits
  <2>15. RulesTypes' /\ attributes' = after
    <3>1. after = [t \in Installed' |-> after[t]] /\ Installed' \subseteq RuleNames
      BY <1>6, <2>6, <2>7, <2>14
    <3> QED
      BY <1>1, <1>3, <1>6, <2>2, <2>3, <2>7, <3>1, HandledKeeps
  <2>16. TypesInherit'
    <3>1. \A t \in Installed' : HasFactory(t, defs[t].parent)'
      BY <1>1, <2>7 DEF TypesInherit, HasFactory
    <3>2. \A t \in Installed' : waiting'[t] = <<>>
      BY <1>1, <1>5, <2>7 DEF TypesInherit
    <3> QED
      BY <2>1, <2>6, <2>7, <2>14, <2>15, <3>1, <3>2 DEF TypesInherit
  <2> QED
    BY <2>1, <2>8, <2>15, <2>16 DEF RulesInv
<1> QED
  BY <1>7, <1>8

LEMMA RulesSteps == ASSUME RulesInv, [RulesNext]_rulesVars PROVE RulesInv'
<1>1. ASSUME UNCHANGED <<waiting, factories, attributes>>, work' \in Seq(RuleEntry), dirty' \subseteq RuleNames,
             files' \in [RuleNames -> AnyDescription]
      PROVE  RulesInv'
  <2>1. RulesTypes'
    BY <1>1 DEF RulesInv, RulesTypes, Installed
  <2>2. TypesInherit' /\ Founded(factories)'
    BY <1>1 DEF RulesInv, TypesInherit, Installed, HasFactory
  <2> QED
    BY <2>1, <2>2 DEF RulesInv
<1>2. RulesTypes
  BY DEF RulesInv
<1>3. CASE WaitForRule
  BY <1>3, WaitKeeps
<1>4. CASE InstallRule
  BY <1>4, InstallKeeps
<1>5. CASE ModifyRule
  BY <1>5, ModifyKeeps
<1>6. CASE ProcessChangedRules
  <2>1. work' \in InOrder(dirty) /\ dirty \subseteq RuleNames /\ files \in [RuleNames -> AnyDescription]
    BY <1>2, <1>6 DEF ProcessChangedRules, RulesTypes
  <2>2. work' \in Seq(RuleEntry)
    BY <2>1, InOrderIs
  <2> QED
    BY <1>1, <1>6, <2>1, <2>2 DEF ProcessChangedRules
<1>7. ASSUME NEW r \in RuleNames, NEW desc \in Descriptions(r), WriteRule(r, desc) PROVE RulesInv'
  <2>1. desc \in AnyDescription
    BY DescriptionsAre
  <2> QED
    BY <1>1, <1>2, <1>7, <2>1 DEF WriteRule, RulesTypes
<1>8. CASE UNCHANGED rulesVars
  BY <1>1, <1>2, <1>8 DEF rulesVars, RulesTypes
<1> QED
  BY <1>3, <1>4, <1>5, <1>6, <1>7, <1>8 DEF RulesNext

\* In whatever order rules are read, wait for each other and change while the server
\* runs, an installed type's parent is installed, it has its parent's attributes
\* combined with its own, and nothing waits for it (EntityRuleHandler.cpp:
\* installEntityClass(), modifyEntityClass(); EntityFactory.cpp: updateProperties();
\* Ruleset.cpp: installItem()).
THEOREM TypesAlwaysInherit == RulesSpec => []TypesInherit
<1>1. RulesInit => RulesInv
  BY RulesStart
<1>2. RulesInv /\ [RulesNext]_rulesVars => RulesInv'
  BY RulesSteps
<1>3. RulesInv => TypesInherit
  BY DEF RulesInv
<1> QED
  BY <1>1, <1>2, <1>3, PTL DEF RulesSpec
=============================================================================
