------------------------- MODULE WorldRouterProofs -------------------------
(***************************************************************************)
(* Proofs about the world's router: who operations are from and to, how    *)
(* many entities there are, and the one tick of each.                      *)
(***************************************************************************)
EXTENDS WorldRouter, FiniteSetTheorems, WellFoundedInduction, NaturalsInduction, TLAPS

\* Every set of numbers has a least one.
LEMMA LeastNumber ==
    ASSUME NEW T, T \subseteq Nat, T # {}
    PROVE  \E x \in T : \A y \in T : x <= y
<1>1. IsWellFoundedOn(OpToRel(<, Nat), Nat)
  BY NatLessThanWellFounded
<1>2. PICK x \in T : \A y \in T : ~ (<<y, x>> \in OpToRel(<, Nat))
  BY <1>1, WFMin, Zenon
<1>3. \A y \in T : ~ (y < x)
  BY <1>2 DEF OpToRel
<1>4. x \in Nat /\ \A y \in T : y \in Nat
  BY <1>2
<1>5. \A y \in T : x <= y
  BY <1>3, <1>4
<1> QED
  BY <1>2, <1>5

\* A set of ids can be put in order, by taking in one id after the other.
Sorted(S) ==
    \E s \in [1 .. Cardinality(S) -> S] : \A i, j \in 1 .. Cardinality(S) : i < j => s[i] < s[j]

LEMMA IdsFinite ==
    ASSUME NEW S, S \subseteq Ids PROVE IsFiniteSet(S) /\ Cardinality(S) \in Nat
<1>1. IsFiniteSet(0 .. MaxId)
  BY WorldAssumption, FS_Interval
<1>2. IsFiniteSet(S)
  BY <1>1, FS_Subset DEF Ids
<1> QED
  BY <1>2, FS_CardinalityType

LEMMA SortedGrows ==
    ASSUME NEW S, NEW k \in Nat, S \subseteq 0 .. (k - 1), IsFiniteSet(S), Sorted(S)
    PROVE  Sorted(S \cup {k})
<1>1. PICK n : n = Cardinality(S)
  OBVIOUS
<1>2. n \in Nat /\ k \notin S /\ Cardinality(S \cup {k}) = n + 1
  BY <1>1, FS_CardinalityType, FS_AddElement
<1>3. PICK s \in [1 .. n -> S] : \A i, j \in 1 .. n : i < j => s[i] < s[j]
  BY <1>1 DEF Sorted
<1>4. PICK r : r = [i \in 1 .. (n + 1) |-> IF i = n + 1 THEN k ELSE s[i]]
  OBVIOUS
<1>5. r \in [1 .. (n + 1) -> S \cup {k}]
  BY <1>2, <1>3, <1>4
<1>6. ASSUME NEW i \in 1 .. (n + 1), NEW j \in 1 .. (n + 1), i < j PROVE r[i] < r[j]
  <2>1. i \in 1 .. n /\ r[i] = s[i] /\ s[i] \in S
    BY <1>2, <1>3, <1>4, <1>6
  <2>2. CASE j = n + 1
    <3>1. r[j] = k
      BY <1>4, <2>2
    <3>2. s[i] \in 0 .. (k - 1)
      BY <2>1
    <3>3. s[i] < k
      BY <3>2
    <3> QED
      BY <2>1, <3>1, <3>3
  <2>3. CASE j # n + 1
    BY <1>2, <1>3, <1>4, <1>6, <2>1, <2>3
  <2> QED
    BY <2>2, <2>3
<1> QED
  BY <1>2, <1>5, <1>6 DEF Sorted

LEMMA InOrderIs ==
    ASSUME NEW S, S \subseteq Ids
    PROVE  Cardinality(S) \in Nat /\ InOrder(S) \in [1 .. Cardinality(S) -> S]
<1> DEFINE Below(k) == {x \in S : x < k}
           Bad == {k \in Nat : ~ Sorted(Below(k))}
<1>1. Bad = {}
  <2> SUFFICES ASSUME Bad # {} PROVE FALSE
    OBVIOUS
  <2>1. PICK k \in Bad : \A j \in Bad : k <= j
    <3>1. Bad \subseteq Nat
      OBVIOUS
    <3> HIDE DEF Bad
    <3> QED
      BY <3>1, LeastNumber
  <2>2. k \in Nat /\ ~ Sorted(Below(k))
    BY <2>1
  <2>3. \A x \in S : x \in Nat
    BY DEF Ids
  <2>4. k # 0
    <3>1. Below(0) = {}
      BY <2>3
    <3>2. Cardinality({}) = 0
      BY FS_EmptySet
    <3>3. [i \in {} |-> i] \in [1 .. 0 -> {}]
      OBVIOUS
    <3>4. Sorted({})
      BY <3>2, <3>3 DEF Sorted
    <3> QED
      BY <2>2, <3>1, <3>4
  <2>5. PICK j \in Nat : k = j + 1
    BY <2>2, <2>4
  <2>6. Sorted(Below(j))
    BY <2>1, <2>2, <2>5
  <2>7. Below(j) \subseteq 0 .. (j - 1) /\ IsFiniteSet(Below(j))
    <3>1. Below(j) \subseteq Ids
      OBVIOUS
    <3>2. IsFiniteSet(Below(j))
      BY <3>1, IdsFinite
    <3> QED
      BY <2>3, <2>5, <3>2
  <2>8. Sorted(Below(j) \cup {j})
    <3> HIDE DEF Below
    <3> QED
      BY <2>5, <2>6, <2>7, SortedGrows
  <2>9. Below(k) = Below(j) \/ Below(k) = Below(j) \cup {j}
    BY <2>3, <2>5
  <2> QED
    BY <2>2, <2>6, <2>8, <2>9
<1>2. Below(MaxId + 1) = S
  <2>1. \A x \in S : x < MaxId + 1
    BY WorldAssumption DEF Ids
  <2> QED
    BY <2>1
<1>3. Sorted(S)
  <2>1. MaxId + 1 \in Nat
    BY WorldAssumption
  <2> HIDE DEF Below
  <2> QED
    BY <1>1, <1>2, <2>1
<1>4. Cardinality(S) \in Nat
  BY IdsFinite
<1> QED
  BY <1>3, <1>4 DEF Sorted, InOrder

-----------------------------------------------------------------------------
(* What is queued *)

\* The clock, rounded, goes up with time.
NowTime == Earliest(MaxTime, TimeAsSeconds)

LEMMA DivMonotone ==
    ASSUME NEW a \in Nat, NEW b \in Nat, NEW k \in Nat \ {0}, a <= b
    PROVE  a \div k <= b \div k /\ a \div k \in Nat /\ b \div k \in Nat
  BY SMTT(20)

LEMMA MultMonotone ==
    ASSUME NEW a \in Nat, NEW b \in Nat, NEW k \in Nat, a <= b
    PROVE  a * k <= b * k /\ a * k \in Nat /\ b * k \in Nat
  BY SMTT(20)

LEMMA HalfUp ==
    ASSUME NEW x \in Nat, NEW y \in Nat, NEW u \in Nat, x <= y
    PROVE  2 * x + u \in Nat /\ 2 * y + u \in Nat /\ 2 * x + u <= 2 * y + u
  OBVIOUS

LEMMA ClockSteady ==
    ASSUME now \in Nat, now' = now \/ now' = now + 1
    PROVE  /\ NowTime <= NowTime' /\ NowTime \in 0 .. MaxTime /\ NowTime' \in 0 .. MaxTime
           /\ TimeAsSeconds \in Nat
<1>1. PICK k \in Nat \ {0}, a \in Nat, b \in Nat :
        k = 2 * Ulp /\ a = 2 * now + Ulp /\ b = 2 * now' + Ulp /\ a <= b
  <2>1. Ulp \in Nat /\ Ulp # 0 /\ now' \in Nat /\ now <= now'
    BY WorldAssumption
  <2>2. 2 * Ulp \in Nat \ {0}
    BY <2>1
  <2>3. 2 * now + Ulp \in Nat /\ 2 * now' + Ulp \in Nat /\ 2 * now + Ulp <= 2 * now' + Ulp
    BY <2>1, HalfUp
  <2> QED
    BY <2>2, <2>3
<1>2. PICK c \in Nat, d \in Nat : c = a \div k /\ d = b \div k /\ c <= d
  BY <1>1, DivMonotone
<1>3. Ulp \in Nat
  BY WorldAssumption
<1>4. PICK x \in Nat, y \in Nat : x = c * Ulp /\ y = d * Ulp /\ x <= y
  BY <1>2, <1>3, MultMonotone
<1>5. TimeAsSeconds = x /\ TimeAsSeconds' = y
  BY <1>1, <1>2, <1>4 DEF TimeAsSeconds
<1> QED
  BY <1>4, <1>5, WorldAssumption DEF NowTime, Earliest

\* When an operation is queued for: now, when it is to be delivered immediately.
LEMMA ResolvedTime ==
    ASSUME now \in Nat, NEW op \in Operations
    PROVE  /\ ResolveDispatchTime(op) \in 0 .. MaxTime
           /\ op.timing = "immediate" => ResolveDispatchTime(op) = NowTime
<1>1. TimeAsSeconds \in Nat
  <2>1. PICK k \in Nat \ {0}, a \in Nat : k = 2 * Ulp /\ a = 2 * now + Ulp
    BY WorldAssumption
  <2>2. PICK c \in Nat : c = a \div k
    BY <2>1, DivMonotone
  <2>3. Ulp \in Nat /\ c * Ulp \in Nat
    BY <2>2, WorldAssumption, MultMonotone
  <2> QED
    BY <2>1, <2>2, <2>3 DEF TimeAsSeconds
<1>2. op.timing \in {"immediate", "future", "preset"} /\ op.seconds \in 0 .. MaxTime
  BY DEF Operations
<1> QED
  BY <1>1, <1>2, WorldAssumption DEF ResolveDispatchTime, NowTime, Earliest

\* What every operation obeys that is sent from one of the entities in known.
Sound(r, known) ==
    /\ r.op.to \in Ids /\ r.from \in known
    /\ r.op.cls = "tick" => r.op.to = r.from /\ r.op.timing # "immediate"

\* A batch of operations from the entities in known.
Batch(reqs, known) ==
    /\ reqs \in Seq(D!Request)
    /\ \A i \in DOMAIN reqs : Sound(reqs[i], known) /\ (reqs[i].op.timing = "immediate" => reqs[i].time = NowTime)

\* No operation of the batch is a tick for id.
TickFree(reqs, id) == \A i \in DOMAIN reqs : ~ (reqs[i].op.cls = "tick" /\ reqs[i].op.to = id)

\* The places of the batch with a tick for id.
TickPlaces(reqs, id) == {j \in DOMAIN reqs : reqs[j].op.cls = "tick" /\ reqs[j].op.to = id}

LEMMA EmptyBatch ==
    ASSUME NEW known PROVE Batch(<<>>, known) /\ \A id : TickFree(<<>>, id)
<1>1. <<>> \in Seq(D!Request) /\ DOMAIN <<>> = {}
  OBVIOUS
<1> QED
  BY <1>1 DEF Batch, TickFree

\* message() with a receiver queues that operation.
LEMMA MessageTo ==
    ASSUME now \in Nat, NEW op \in Operations, NEW from \in Ids, NEW present, NEW known, from \in known,
           op.to \in Ids, op.cls = "tick" => op.to = from /\ op.timing # "immediate"
    PROVE  /\ Batch(Message(op, from, present), known)
           /\ Len(Message(op, from, present)) = 1
           /\ Message(op, from, present)[1].op = op
<1>1. op.to # NoOne
  BY WorldAssumption DEF Ids, NoOne
<1>2. PICK r : r = [op |-> op, from |-> from, time |-> ResolveDispatchTime(op)]
  OBVIOUS
<1>3. r \in D!Request
  BY <1>2, ResolvedTime DEF D!Request, D!Times
<1>4. Message(op, from, present) = <<r>>
  BY <1>1, <1>2 DEF Message
<1>5. <<r>> \in Seq(D!Request) /\ DOMAIN <<r>> = {1} /\ <<r>>[1] = r /\ Len(<<r>>) = 1
  BY <1>3
<1>6. Sound(r, known) /\ (r.op.timing = "immediate" => r.time = NowTime) /\ r.op = op
  BY <1>2, ResolvedTime DEF Sound
<1> QED
  BY <1>4, <1>5, <1>6 DEF Batch

\* broadcast() queues a copy for every observer.
LEMMA BroadcastTo ==
    ASSUME now \in Nat, NEW op \in Operations, NEW from \in Ids, NEW present, present \subseteq Ids,
           NEW known, from \in known, op.cls # "tick"
    PROVE  /\ Batch(Broadcast(op, from, present), known)
           /\ \A id : TickFree(Broadcast(op, from, present), id)
<1>1. PICK S, n, s : S = Perceptive \cap present /\ n = Cardinality(S) /\ s = InOrder(S)
  OBVIOUS
<1>2. S \subseteq Ids /\ n \in Nat /\ s \in [1 .. n -> S]
  <2>1. S \subseteq Ids
    BY <1>1
  <2> QED
    BY <1>1, <2>1, InOrderIs
<1>3. PICK b : b = [i \in 1 .. n |-> [op |-> [op EXCEPT !.to = s[i]], from |-> from,
                                      time |-> ResolveDispatchTime(op)]]
  OBVIOUS
<1>4. Broadcast(op, from, present) = b
  <2>1. DOMAIN s = 1 .. n
    BY <1>2
  <2> QED
    BY <1>1, <1>3, <2>1 DEF Broadcast
<1>5. ASSUME NEW i \in 1 .. n
      PROVE  /\ b[i] \in D!Request /\ Sound(b[i], known) /\ b[i].op.cls # "tick"
             /\ b[i].op.timing = "immediate" => b[i].time = NowTime
  <2>1. s[i] \in Ids
    BY <1>2
  <2>2. PICK o : o = [op EXCEPT !.to = s[i]]
    OBVIOUS
  <2>3. o \in Operations /\ o.to = s[i] /\ o.cls = op.cls /\ o.timing = op.timing
    BY <2>1, <2>2 DEF Operations
  <2>4. b[i] = [op |-> o, from |-> from, time |-> ResolveDispatchTime(op)]
    BY <1>3, <2>2
  <2>5. b[i] \in D!Request
    BY <2>3, <2>4, ResolvedTime DEF D!Request, D!Times
  <2> QED
    BY <2>1, <2>3, <2>4, <2>5, ResolvedTime DEF Sound
<1>6. b \in Seq(D!Request) /\ DOMAIN b = 1 .. n
  BY <1>2, <1>3, <1>5
<1> QED
  BY <1>4, <1>5, <1>6 DEF Batch, TickFree

\* Setting the time leaves the rest of an operation as it is.
LEMMA TimedIs ==
    ASSUME NEW op \in Operations, NEW o \in Timed(op)
    PROVE  /\ o \in Operations /\ o.cls = op.cls /\ o.to = op.to /\ o.arg = op.arg
           /\ op.timing # "immediate" => o.timing # "immediate"
<1>1. CASE o = op
  BY <1>1
<1>2. CASE \E t \in Presets : o = [op EXCEPT !.timing = "preset", !.seconds = t]
  <2>1. PICK t \in Presets : o = [op EXCEPT !.timing = "preset", !.seconds = t]
    BY <1>2
  <2>2. t \in 0 .. MaxTime
    BY WorldAssumption
  <2> QED  BY <2>1, <2>2 DEF Operations
<1> QED  BY <1>1, <1>2 DEF Timed

-----------------------------------------------------------------------------
(* The inductive invariant *)

\* Entities that are in the world or were destroyed.
Known == m_eobjects \cup destroyed

\* What is queued is numbered, addressed, from a known entity and in order.
QueueInv ==
    /\ m_operationQueue \subseteq D!OpQueEntry /\ m_sequence \in Nat /\ now \in Nat
    /\ \A e \in m_operationQueue :
          /\ e.sequence <= m_sequence /\ Sound(e, Known)
          /\ e.op.timing = "immediate" => e.time <= NowTime
    /\ ImmediateInOrder

\* What is set aside are ticks, and only in a suspended world.
AsideInv ==
    /\ m_suspendedQueue \in Seq(D!Request)
    /\ \A i \in DOMAIN m_suspendedQueue :
          m_suspendedQueue[i].op.cls = "tick" /\ Sound(m_suspendedQueue[i], Known)
    /\ NothingStranded

EntitiesInv ==
    /\ m_eobjects \subseteq Ids /\ destroyed \subseteq Ids \ {World} /\ m_eobjects \cap destroyed = {}
    /\ m_entityCount \in Nat /\ m_isSuspended \in BOOLEAN /\ failed \subseteq Ids /\ up \in BOOLEAN
    /\ up => World \in m_eobjects
    /\ CountMatches

\* The one tick of an entity is queued or set aside.
WaitingTicks(id) == {e \in m_operationQueue : e.op.cls = "tick" /\ e.op.to = id}
TicksAside(id) == {i \in DOMAIN m_suspendedQueue : m_suspendedQueue[i].op.to = id}
OneTick(id) ==
    \/ TicksAside(id) = {} /\ \E e : WaitingTicks(id) = {e}
    \/ WaitingTicks(id) = {} /\ \E i : TicksAside(id) = {i}
TicksInv == up => \A id \in m_eobjects \ ({World} \cup failed) : OneTick(id)

WorldInv == QueueInv /\ AsideInv /\ EntitiesInv /\ TicksInv

\* Entries leave the queue and a batch is added.
LEMMA QueueKeeps ==
    ASSUME QueueInv, NEW q, q \subseteq m_operationQueue, NEW reqs, NEW known, known = Known',
           Batch(reqs, known),
           Known \subseteq Known', m_operationQueue' = D!WithAdded(q, reqs), m_sequence' = m_sequence + Len(reqs),
           m_sequence' <= MaxSequence, now' = now
    PROVE  QueueInv'
<1>1. /\ reqs \in Seq(D!Request) /\ Len(reqs) \in Nat /\ DOMAIN reqs = 1 .. Len(reqs) /\ m_sequence \in Nat
      /\ now \in Nat /\ now' \in Nat /\ m_sequence' \in Nat
  BY DEF Batch, QueueInv
<1>2. NowTime' = NowTime /\ NowTime \in 0 .. MaxTime
  <2>1. NowTime' = NowTime
    BY DEF NowTime, TimeAsSeconds
  <2> QED
    BY <1>1, <2>1, ClockSteady
<1>3. ASSUME NEW i \in DOMAIN reqs
      PROVE  /\ D!Stamped(reqs[i], m_sequence + i) \in D!OpQueEntry
             /\ D!Stamped(reqs[i], m_sequence + i).sequence = m_sequence + i
             /\ D!Stamped(reqs[i], m_sequence + i).op = reqs[i].op
             /\ D!Stamped(reqs[i], m_sequence + i).from = reqs[i].from
             /\ D!Stamped(reqs[i], m_sequence + i).time = reqs[i].time
  <2>1. reqs[i] \in D!Request
    BY <1>1, <1>3
  <2>2. m_sequence + i \in 1 .. MaxSequence
    BY <1>1, <1>3, WorldAssumption
  <2> QED
    BY <2>1, <2>2 DEF D!Stamped, D!OpQueEntry, D!Request
<1>4. \A e \in m_operationQueue' :
         e \in q \/ \E i \in DOMAIN reqs : e = D!Stamped(reqs[i], m_sequence + i)
  BY DEF D!WithAdded
<1>5. ASSUME NEW e \in m_operationQueue'
      PROVE  /\ e \in D!OpQueEntry /\ e.sequence <= m_sequence' /\ Sound(e, Known')
             /\ e.op.timing = "immediate" => e.time <= NowTime'
  <2>1. CASE e \in q
    <3>1. e \in m_operationQueue
      BY <2>1
    <3>2. e \in D!OpQueEntry /\ e.sequence \in Nat /\ e.sequence <= m_sequence
      BY <3>1 DEF QueueInv, D!OpQueEntry
    <3>3. Sound(e, Known) /\ (e.op.timing = "immediate" => e.time <= NowTime)
      BY <3>1 DEF QueueInv
    <3> QED
      BY <1>1, <1>2, <3>2, <3>3 DEF Sound
  <2>2. ASSUME NEW i \in DOMAIN reqs, e = D!Stamped(reqs[i], m_sequence + i)
        PROVE  /\ e \in D!OpQueEntry /\ e.sequence <= m_sequence' /\ Sound(e, Known')
               /\ e.op.timing = "immediate" => e.time <= NowTime'
    <3>1. e \in D!OpQueEntry /\ e.sequence <= m_sequence'
      BY <1>1, <1>3, <2>2
    <3>2. Sound(reqs[i], known) /\ (reqs[i].op.timing = "immediate" => reqs[i].time = NowTime)
      BY <2>2 DEF Batch
    <3> QED
      BY <1>2, <1>3, <2>2, <3>1, <3>2 DEF Sound
  <2> QED
    BY <1>4, <2>1, <2>2
<1>6. ImmediateInOrder'
  <2> SUFFICES ASSUME NEW e \in m_operationQueue', NEW f \in m_operationQueue',
                      e.op.timing = "immediate", f.op.timing = "immediate", e.sequence < f.sequence
               PROVE  D!Before(e, f)
    BY DEF ImmediateInOrder, D!Before
  <2>1. CASE e \in q /\ f \in q
    BY <2>1 DEF QueueInv, ImmediateInOrder
  <2>2. ASSUME NEW i \in DOMAIN reqs, f = D!Stamped(reqs[i], m_sequence + i) PROVE e.time <= f.time
    <3>1. f.time = NowTime
      BY <1>3, <2>2 DEF Batch
    <3> QED
      BY <1>2, <1>5, <3>1
  <2>3. ASSUME NEW i \in DOMAIN reqs, e = D!Stamped(reqs[i], m_sequence + i), f \in q PROVE FALSE
    <3>1. f.sequence \in Nat /\ f.sequence <= m_sequence /\ e.sequence = m_sequence + i
      BY <1>3, <2>3 DEF QueueInv, D!OpQueEntry
    <3> QED
      BY <1>1, <3>1
  <2>4. e.time \in Int /\ f.time \in Int
    BY <1>5 DEF D!OpQueEntry, D!Times
  <2>5. e.time <= f.time => D!Before(e, f)
    BY <2>4 DEF D!Before
  <2> QED
    BY <1>4, <2>1, <2>2, <2>3, <2>5
<1> QED
  BY <1>1, <1>5, <1>6 DEF QueueInv

-----------------------------------------------------------------------------
(* The steps *)

\* An entry is handed over and a batch comes of it.
LEMMA HandleIs ==
    ASSUME NEW e, NEW reqs, Handle(e, reqs)
    PROVE  /\ up /\ up' = up /\ e \in m_operationQueue /\ now' = now
           /\ m_operationQueue' = D!WithAdded(m_operationQueue \ {e}, reqs)
           /\ m_sequence' = m_sequence + Len(reqs) /\ m_sequence' <= MaxSequence
  BY DEF Handle, D!DispatchDue, D!Dispatch, D!AddOperationsToQueue, D!IsTop

LEMMA HandleKeepsQueue ==
    ASSUME QueueInv, NEW e, NEW reqs, Handle(e, reqs), NEW known, known = Known', Batch(reqs, known),
           Known \subseteq Known'
    PROVE  QueueInv'
<1>1. PICK q : q = m_operationQueue \ {e}
  OBVIOUS
<1>2. /\ m_operationQueue' = D!WithAdded(q, reqs) /\ q \subseteq m_operationQueue
      /\ m_sequence' = m_sequence + Len(reqs) /\ m_sequence' <= MaxSequence /\ now' = now
  BY <1>1, HandleIs
<1> QED
  BY <1>2, QueueKeeps

\* The ticks of an entity that neither the entry nor the batch is about.
LEMMA TicksStay ==
    ASSUME NEW e, NEW reqs, Handle(e, reqs), NEW id, ~ (e.op.cls = "tick" /\ e.op.to = id), TickFree(reqs, id)
    PROVE  WaitingTicks(id)' = WaitingTicks(id)
<1>1. m_operationQueue' = (m_operationQueue \ {e}) \cup {D!Stamped(reqs[i], m_sequence + i) : i \in DOMAIN reqs}
  BY HandleIs DEF D!WithAdded
<1>2. \A i \in DOMAIN reqs : D!Stamped(reqs[i], m_sequence + i).op = reqs[i].op
  BY DEF D!Stamped
<1>3. \A f \in m_operationQueue' : f.op.cls = "tick" /\ f.op.to = id => f \in m_operationQueue
  BY <1>1, <1>2 DEF TickFree
<1>4. \A f \in m_operationQueue : f.op.cls = "tick" /\ f.op.to = id => f \in m_operationQueue'
  BY <1>1
<1> QED
  BY <1>3, <1>4 DEF WaitingTicks

LEMMA TicksKeep ==
    ASSUME TicksInv, up, UNCHANGED m_suspendedQueue, failed \subseteq failed',
           \A id \in m_eobjects' \ ({World} \cup failed') :
              id \in m_eobjects /\ WaitingTicks(id)' = WaitingTicks(id)
    PROVE  TicksInv'
<1>1. ASSUME NEW id \in m_eobjects' \ ({World} \cup failed') PROVE OneTick(id)'
  <2>1. OneTick(id) /\ WaitingTicks(id)' = WaitingTicks(id)
    BY <1>1 DEF TicksInv
  <2>2. TicksAside(id)' = TicksAside(id)
    BY DEF TicksAside
  <2> QED
    BY <2>1, <2>2 DEF OneTick
<1> QED
  BY <1>1 DEF TicksInv

LEMMA AsideKeeps ==
    ASSUME AsideInv, UNCHANGED m_suspendedQueue, Known \subseteq Known',
           m_isSuspended => m_isSuspended'
    PROVE  AsideInv'
  BY DEF AsideInv, Sound, NothingStranded

\* What is delivered is addressed to an entity of the world.
LEMMA DeliverableIs ==
    ASSUME WorldInv, NEW e \in m_operationQueue
    PROVE  /\ e.op \in Operations /\ e.op.to \in Ids /\ e.from \in Ids /\ e.from \in Known
           /\ e.op.cls = "tick" => e.op.to = e.from
           /\ Deliverable(e) => e.op.to \in m_eobjects
<1>1. e.op \in Operations /\ e.from \in Ids
  BY DEF WorldInv, QueueInv, D!OpQueEntry
<1>2. Sound(e, Known)
  BY DEF WorldInv, QueueInv
<1> QED
  BY <1>1, <1>2 DEF Sound, Known, Deliverable, Alive

\* Entities and suspension stay as they are, and the ticks of those that never failed.
LEMMA QuietKeeps ==
    ASSUME WorldInv, NEW e, NEW reqs, Handle(e, reqs), Batch(reqs, Known),
           UNCHANGED <<entityVars, m_suspendedQueue>>, m_isSuspended' \in BOOLEAN,
           m_isSuspended => m_isSuspended', failed \subseteq failed', failed' \subseteq Ids,
           \A id \in m_eobjects \ ({World} \cup failed') :
              ~ (e.op.cls = "tick" /\ e.op.to = id) /\ TickFree(reqs, id)
    PROVE  WorldInv'
<1>1. up /\ up' = up /\ Known' = Known
  BY HandleIs DEF entityVars, Known
<1>2. QueueInv'
  <2>1. PICK known : known = Known
    OBVIOUS
  <2> QED
    BY <1>1, <2>1, HandleKeepsQueue DEF WorldInv
<1>3. AsideInv'
  BY <1>1, AsideKeeps DEF WorldInv
<1>4. EntitiesInv'
  BY <1>1 DEF WorldInv, EntitiesInv, CountMatches, entityVars
<1>5. TicksInv'
  <2>1. \A id \in m_eobjects' \ ({World} \cup failed') : id \in m_eobjects /\ WaitingTicks(id)' = WaitingTicks(id)
    BY TicksStay DEF entityVars
  <2> QED
    BY <1>1, <2>1, TicksKeep DEF WorldInv
<1> QED
  BY <1>2, <1>3, <1>4, <1>5 DEF WorldInv

LEMMA OperationUnseenKeeps ==
    ASSUME WorldInv, NEW e \in m_operationQueue, OperationUnseen(e) PROVE WorldInv'
<1>1. PICK op : op = Op("unseen", e.from, e.op.to, "immediate")
  OBVIOUS
<1>2. PICK reqs : reqs = IF e.from \in destroyed THEN <<>> ELSE Message(op, e.from, m_eobjects)
  OBVIOUS
<1>3. /\ Handle(e, reqs) /\ UNCHANGED <<entityVars, suspensionVars, failed>> /\ e.op.cls # "tick"
      /\ e.from \in Ids /\ e.from \in Known /\ op \in Operations /\ op.to = e.from /\ op.cls = "unseen"
  <2>1. e.from \in Ids /\ e.from \in Known /\ e.op.to \in Ids /\ (e.op.cls = "tick" => e.op.to = e.from)
    BY DeliverableIs
  <2>2. op \in Operations /\ op.to = e.from /\ op.cls = "unseen"
    BY <1>1, <2>1, WorldAssumption DEF Op, Operations, Classes
  <2> QED
    BY <1>1, <1>2, <2>1, <2>2 DEF OperationUnseen
<1>4. Batch(reqs, Known) /\ \A id : TickFree(reqs, id)
  <2>1. CASE e.from \in destroyed
    BY <1>2, <2>1, EmptyBatch
  <2>2. CASE e.from \notin destroyed
    <3>1. PICK known : known = Known
      OBVIOUS
    <3>2. now \in Nat
      BY DEF WorldInv, QueueInv
    <3>3. /\ Batch(Message(op, e.from, m_eobjects), known) /\ Len(Message(op, e.from, m_eobjects)) = 1
          /\ Message(op, e.from, m_eobjects)[1].op = op
      BY <1>3, <3>1, <3>2, MessageTo
    <3>4. reqs \in Seq(D!Request) /\ Len(reqs) = 1 /\ reqs[1].op = op /\ Batch(reqs, known)
      BY <1>2, <2>2, <3>3 DEF Batch
    <3>5. \A i \in DOMAIN reqs : reqs[i].op = op
      BY <3>4
    <3> QED
      BY <1>3, <3>1, <3>4, <3>5 DEF TickFree
  <2> QED
    BY <2>1, <2>2
<1> QED
  BY <1>3, <1>4, QuietKeeps DEF suspensionVars, WorldInv, EntitiesInv

\* Nothing comes of an entry that is no tick of an entity that never failed.
LEMMA NothingComes ==
    ASSUME WorldInv, NEW e, Handle(e, <<>>),
           UNCHANGED <<entityVars, m_suspendedQueue>>, m_isSuspended' \in BOOLEAN,
           m_isSuspended => m_isSuspended', failed \subseteq failed', failed' \subseteq Ids,
           e.op.cls = "tick" => e.op.to \notin m_eobjects \ failed'
    PROVE  WorldInv'
<1>1. PICK reqs : reqs = <<>>
  OBVIOUS
<1>2. Handle(e, reqs) /\ Batch(reqs, Known) /\ \A id : TickFree(reqs, id)
  BY <1>1, EmptyBatch
<1>3. \A id \in m_eobjects \ ({World} \cup failed') :
         ~ (e.op.cls = "tick" /\ e.op.to = id) /\ TickFree(reqs, id)
  BY <1>2
<1> QED
  BY <1>2, <1>3, QuietKeeps

LEMMA QuietTypes ==
    ASSUME WorldInv PROVE m_isSuspended \in BOOLEAN /\ failed \subseteq Ids /\ m_eobjects \cap destroyed = {}
  BY DEF WorldInv, EntitiesInv

LEMMA OperationToSelfDroppedKeeps ==
    ASSUME WorldInv, NEW e \in m_operationQueue, OperationToSelfDropped(e) PROVE WorldInv'
<1>1. /\ Handle(e, <<>>) /\ UNCHANGED <<entityVars, suspensionVars, failed>>
      /\ e.op.to \in destroyed
  BY DEF OperationToSelfDropped
<1>2. UNCHANGED <<entityVars, m_suspendedQueue, m_isSuspended, failed>>
  BY <1>1 DEF suspensionVars
<1> QED
  BY <1>1, <1>2, QuietTypes, NothingComes

LEMMA DeliverPerceptionKeeps ==
    ASSUME WorldInv, NEW e \in m_operationQueue, DeliverPerception(e) PROVE WorldInv'
<1>1. Handle(e, <<>>) /\ UNCHANGED <<entityVars, suspensionVars, failed>> /\ e.op.cls # "tick"
  BY DEF DeliverPerception
<1>2. UNCHANGED <<entityVars, m_suspendedQueue, m_isSuspended, failed>>
  BY <1>1 DEF suspensionVars
<1> QED
  BY <1>1, <1>2, QuietTypes, NothingComes

LEMMA DeliverThrowsKeeps ==
    ASSUME WorldInv, NEW e \in m_operationQueue, DeliverThrows(e) PROVE WorldInv'
<1>1. /\ Handle(e, <<>>) /\ UNCHANGED <<entityVars, suspensionVars>>
      /\ failed' = failed \cup (IF e.op.cls = "tick" THEN {e.op.to} ELSE {})
  BY DEF DeliverThrows
<1>2. UNCHANGED <<entityVars, m_suspendedQueue, m_isSuspended>>
  BY <1>1 DEF suspensionVars
<1>3. e.op.to \in Ids
  BY DeliverableIs
<1>4. failed \subseteq failed' /\ failed' \subseteq Ids /\ (e.op.cls = "tick" => e.op.to \in failed')
  BY <1>1, <1>3, QuietTypes
<1> QED
  BY <1>1, <1>2, <1>4, QuietTypes, NothingComes

LEMMA DeliverSuspendKeeps ==
    ASSUME WorldInv, NEW e \in m_operationQueue, DeliverSuspend(e) PROVE WorldInv'
<1>1. /\ Handle(e, <<>>) /\ UNCHANGED <<entityVars, m_suspendedQueue, failed>> /\ e.op.cls # "tick"
      /\ m_isSuspended' = (m_isSuspended \/ e.op.to = World)
  BY DEF DeliverSuspend
<1>2. m_isSuspended' \in BOOLEAN /\ (m_isSuspended => m_isSuspended')
  BY <1>1
<1> QED
  BY <1>1, <1>2, QuietTypes, NothingComes

LEMMA DeliverTalkKeeps ==
    ASSUME WorldInv, NEW e \in m_operationQueue, NEW speaker \in Ids,
           NEW op \in Timed(Perception(NoOne, speaker)), DeliverTalk(e, speaker, op)
    PROVE  WorldInv'
<1>1. op \in Operations /\ op.to = NoOne /\ op.cls = "perception"
  <2>1. PICK p : p = Perception(NoOne, speaker)
    OBVIOUS
  <2>2. p \in Operations /\ p.to = NoOne /\ p.cls = "perception"
    BY <2>1, WorldAssumption DEF Perception, Op, Operations, Classes
  <2> QED  BY <2>1, <2>2, TimedIs
<1>2. PICK reqs : reqs = IF speaker = e.op.to \/ speaker \in m_eobjects
                         THEN Message(op, speaker, m_eobjects) ELSE <<>>
  OBVIOUS
<1>3. Handle(e, reqs) /\ UNCHANGED <<entityVars, suspensionVars, failed>> /\ e.op.cls = "talk" /\ Deliverable(e)
  BY <1>2 DEF DeliverTalk, Delivered
<1>4. Batch(reqs, Known) /\ \A id : TickFree(reqs, id)
  <2>1. CASE ~ (speaker = e.op.to \/ speaker \in m_eobjects)
    BY <1>2, <2>1, EmptyBatch
  <2>2. CASE speaker = e.op.to \/ speaker \in m_eobjects
    <3>1. speaker \in Known /\ now \in Nat /\ m_eobjects \subseteq Ids
      <4>1. e.op.to \in m_eobjects
        BY <1>3, DeliverableIs
      <4> QED
        BY <2>2, <4>1 DEF Known, WorldInv, QueueInv, EntitiesInv
    <3>3. reqs = Broadcast(op, speaker, m_eobjects)
      BY <1>1, <1>2, <2>2 DEF Message
    <3>4. PICK known, present : known = Known /\ present = m_eobjects
      OBVIOUS
    <3>5. Batch(Broadcast(op, speaker, present), known) /\ \A id : TickFree(Broadcast(op, speaker, present), id)
      BY <1>1, <3>1, <3>4, BroadcastTo
    <3> QED
      BY <3>3, <3>4, <3>5
  <2> QED
    BY <2>1, <2>2
<1>5. UNCHANGED <<entityVars, m_suspendedQueue, m_isSuspended, failed>>
  BY <1>3 DEF suspensionVars
<1> QED
  BY <1>3, <1>4, <1>5, QuietTypes, QuietKeeps

\* The ticks of an entity after an entry was handed over.
LEMMA TicksChange ==
    ASSUME NEW e, NEW reqs, Handle(e, reqs), NEW id
    PROVE  WaitingTicks(id)' =
               (WaitingTicks(id) \ {e})
               \cup {D!Stamped(reqs[i], m_sequence + i) : i \in TickPlaces(reqs, id)}
<1>1. m_operationQueue' = (m_operationQueue \ {e}) \cup {D!Stamped(reqs[i], m_sequence + i) : i \in DOMAIN reqs}
  BY HandleIs DEF D!WithAdded
<1>2. \A i \in DOMAIN reqs : D!Stamped(reqs[i], m_sequence + i).op = reqs[i].op
  BY DEF D!Stamped
<1> QED
  BY <1>1, <1>2 DEF WaitingTicks, TickPlaces

LEMMA DeliverTickKeeps ==
    ASSUME WorldInv, NEW e \in m_operationQueue,
           NEW op \in Timed(TickTo(e.op.to)), DeliverTick(e, op)
    PROVE  WorldInv'
<1>1. PICK id, reqs : id = e.op.to /\ reqs = Message(op, id, m_eobjects)
  OBVIOUS
<1>2. /\ Handle(e, reqs) /\ UNCHANGED <<entityVars, suspensionVars, failed>> /\ e.op.cls = "tick"
      /\ e.op.to = id /\ id \in Ids /\ id \in m_eobjects /\ id \in Known
  <2>1. Deliverable(e) /\ Handle(e, reqs) /\ e.op.cls = "tick"
    BY <1>1 DEF DeliverTick, Delivered
  <2>2. id \in Ids /\ id \in m_eobjects
    BY <1>1, <2>1, DeliverableIs
  <2> QED
    BY <1>1, <2>1, <2>2 DEF DeliverTick, Known
<1>3. UNCHANGED <<entityVars, m_suspendedQueue, m_isSuspended, failed>> /\ up /\ up' = up /\ Known' = Known
  BY <1>2, HandleIs DEF suspensionVars, Known, entityVars
<1>4. /\ Batch(reqs, Known) /\ reqs \in Seq(D!Request) /\ DOMAIN reqs = {1} /\ reqs[1].op = op
      /\ op.cls = "tick" /\ op.to = id
  <2>0. PICK t : t = TickTo(id) /\ op \in Timed(t)
    BY <1>1
  <2>01. t \in Operations /\ t.to = id /\ t.cls = "tick" /\ t.timing = "future"
    BY <1>2, <2>0, WorldAssumption DEF TickTo, Op, Operations, Classes
  <2>1. op \in Operations /\ op.to = id /\ op.cls = "tick" /\ op.timing # "immediate"
    BY <2>0, <2>01, TimedIs
  <2>2. now \in Nat
    BY DEF WorldInv, QueueInv
  <2>3. PICK known, present : known = Known /\ present = m_eobjects
    OBVIOUS
  <2>4. /\ Batch(Message(op, id, present), known) /\ Len(Message(op, id, present)) = 1
        /\ Message(op, id, present)[1].op = op
    BY <1>2, <2>1, <2>2, <2>3, MessageTo
  <2>5. Batch(reqs, Known) /\ Len(reqs) = 1 /\ reqs[1].op = op
    BY <1>1, <2>3, <2>4
  <2>6. reqs \in Seq(D!Request)
    BY <2>5 DEF Batch
  <2> QED
    BY <2>1, <2>5, <2>6
<1>5. QueueInv'
  <2>1. PICK known : known = Known
    OBVIOUS
  <2> QED
    BY <1>2, <1>3, <1>4, <2>1, HandleKeepsQueue DEF WorldInv
<1>6. AsideInv'
  BY <1>3, AsideKeeps DEF WorldInv
<1>7. EntitiesInv'
  BY <1>3 DEF WorldInv, EntitiesInv, CountMatches, entityVars
<1>8. TicksInv'
  <2> SUFFICES ASSUME NEW x \in m_eobjects \ ({World} \cup failed) PROVE OneTick(x)'
    BY <1>3 DEF TicksInv, entityVars
  <2>1. OneTick(x)
    BY <1>3 DEF WorldInv, TicksInv
  <2>2. TicksAside(x)' = TicksAside(x)
    BY <1>3 DEF TicksAside
  <2>3. CASE x # id
    <3>1. ~ (e.op.cls = "tick" /\ e.op.to = x) /\ TickFree(reqs, x)
      BY <1>2, <1>4, <2>3 DEF TickFree
    <3>2. WaitingTicks(x)' = WaitingTicks(x)
      BY <1>2, <3>1, TicksStay
    <3> QED
      BY <2>1, <2>2, <3>2 DEF OneTick
  <2>4. CASE x = id
    <3>1. e \in WaitingTicks(x)
      BY <1>2, <2>4 DEF WaitingTicks
    <3>2. TicksAside(x) = {} /\ WaitingTicks(x) = {e}
      BY <2>1, <3>1 DEF OneTick
    <3>3. TickPlaces(reqs, x) = {1}
      BY <1>4, <2>4 DEF TickPlaces
    <3>4. WaitingTicks(x)' = {D!Stamped(reqs[1], m_sequence + 1)}
      BY <1>2, <3>2, <3>3, TicksChange
    <3> QED
      BY <2>2, <3>2, <3>4 DEF OneTick
  <2> QED
    BY <2>3, <2>4
<1> QED
  BY <1>5, <1>6, <1>7, <1>8 DEF WorldInv

\* Two batches are sent one after the other.
LEMMA BatchJoin ==
    ASSUME NEW r, NEW s, NEW known, Batch(r, known), Batch(s, known)
    PROVE  /\ Batch(r \o s, known)
           /\ r \in Seq(D!Request) /\ s \in Seq(D!Request) /\ r \o s \in Seq(D!Request)
           /\ DOMAIN (r \o s) = 1 .. (Len(r) + Len(s))
           /\ \A i \in DOMAIN (r \o s) : (r \o s)[i] = IF i <= Len(r) THEN r[i] ELSE s[i - Len(r)]
<1>1. r \in Seq(D!Request) /\ s \in Seq(D!Request)
  BY DEF Batch
<1>2. PICK t : t = r \o s
  OBVIOUS
<1>3. /\ t \in Seq(D!Request) /\ Len(t) = Len(r) + Len(s) /\ DOMAIN t = 1 .. (Len(r) + Len(s))
      /\ \A i \in DOMAIN t : t[i] = IF i <= Len(r) THEN r[i] ELSE s[i - Len(r)]
  BY <1>1, <1>2
<1>4. \A i \in DOMAIN t : (i \in DOMAIN r /\ t[i] = r[i]) \/ (i - Len(r) \in DOMAIN s /\ t[i] = s[i - Len(r)])
  BY <1>1, <1>3
<1>5. Batch(t, known)
  BY <1>3, <1>4 DEF Batch
<1> QED
  BY <1>1, <1>2, <1>3, <1>5

\* What a new entity sends: a perception of it to all observers, and its first tick.
LEMMA NewEntitySends ==
    ASSUME now \in Nat, NEW id \in Ids, NEW present, present \subseteq Ids, NEW known, id \in known, NEW reqs,
           reqs = Message(Perception(NoOne, id), id, present \cup {id}) \o Message(TickTo(id), id, present)
    PROVE  /\ Batch(reqs, known)
           /\ \A x : x # id => TickFree(reqs, x)
           /\ \E k : TickPlaces(reqs, id) = {k}
<1>1. PICK a, b, here, p, t : /\ p = Perception(NoOne, id) /\ t = TickTo(id) /\ here = present \cup {id}
                              /\ a = Broadcast(p, id, here) /\ b = Message(t, id, present)
  OBVIOUS
<1>2. p \in Operations /\ p.to = NoOne /\ p.cls = "perception"
  BY <1>1, WorldAssumption DEF Perception, Op, Operations, Classes
<1>3. t \in Operations /\ t.to = id /\ t.cls = "tick" /\ t.timing = "future"
  BY <1>1, WorldAssumption DEF TickTo, Op, Operations, Classes
<1>4. here \subseteq Ids
  BY <1>1
<1>5. Batch(a, known) /\ \A x : TickFree(a, x)
  BY <1>1, <1>2, <1>4, BroadcastTo
<1>6. Batch(b, known) /\ Len(b) = 1 /\ b[1].op = t
  BY <1>1, <1>3, MessageTo
<1>7. Message(p, id, here) = a
  BY <1>1, <1>2 DEF Message
<1>8. reqs = a \o b
  BY <1>1, <1>7
<1>9. /\ Batch(reqs, known) /\ a \in Seq(D!Request) /\ DOMAIN reqs = 1 .. (Len(a) + Len(b))
      /\ \A i \in DOMAIN reqs : reqs[i] = IF i <= Len(a) THEN a[i] ELSE b[i - Len(a)]
  BY <1>5, <1>6, <1>8, BatchJoin
<1>10. PICK n \in Nat : n = Len(a) /\ DOMAIN a = 1 .. n
  BY <1>9
<1>11. DOMAIN reqs = 1 .. (n + 1) /\ (\A i \in 1 .. n : reqs[i] = a[i]) /\ reqs[n + 1].op = t
  <2>1. DOMAIN reqs = 1 .. (n + 1)
    BY <1>6, <1>9, <1>10
  <2>2. ASSUME NEW i \in 1 .. n PROVE reqs[i] = a[i]
    <3>1. i \in 1 .. (n + 1) /\ i <= n
      BY <1>10
    <3> QED
      BY <1>9, <1>10, <2>1, <3>1
  <2>3. reqs[n + 1] = b[1]
    <3>1. n + 1 \in 1 .. (n + 1) /\ ~ (n + 1 <= n) /\ (n + 1) - n = 1
      BY <1>10
    <3> QED
      BY <1>9, <1>10, <2>1, <3>1
  <2> QED
    BY <1>6, <2>1, <2>2, <2>3
<1>12. ASSUME NEW i \in 1 .. n, NEW x PROVE ~ (reqs[i].op.cls = "tick" /\ reqs[i].op.to = x)
  BY <1>5, <1>10, <1>11 DEF TickFree
<1>13. 1 .. (n + 1) = (1 .. n) \cup {n + 1}
  BY <1>10
<1>14. ASSUME NEW x, x # id PROVE TickFree(reqs, x)
  <2>1. ASSUME NEW i \in DOMAIN reqs PROVE ~ (reqs[i].op.cls = "tick" /\ reqs[i].op.to = x)
    <3>1. i \in 1 .. n \/ i = n + 1
      BY <1>11, <1>13
    <3>2. CASE i \in 1 .. n
      BY <1>12, <3>2
    <3>3. CASE i = n + 1
      BY <1>3, <1>11, <1>14, <3>3
    <3> QED
      BY <3>1, <3>2, <3>3
  <2> QED
    BY <2>1 DEF TickFree
<1>15. TickPlaces(reqs, id) = {n + 1}
  BY <1>3, <1>11, <1>12, <1>13 DEF TickPlaces
<1> QED
  BY <1>9, <1>14, <1>15

LEMMA DeliverCreateKeeps ==
    ASSUME WorldInv, NEW e \in m_operationQueue, NEW id \in Ids \cup {NoOne}, DeliverCreate(e, id) PROVE WorldInv'
<1>1. CASE id = NoOne
  <2>1. Handle(e, <<>>) /\ UNCHANGED <<entityVars, suspensionVars, failed>> /\ e.op.cls # "tick"
    BY <1>1 DEF DeliverCreate
  <2>2. UNCHANGED <<entityVars, m_suspendedQueue, m_isSuspended, failed>>
    BY <2>1 DEF suspensionVars
  <2> QED
    BY <2>1, <2>2, QuietTypes, NothingComes
<1>2. CASE id # NoOne
  <2>1. PICK reqs : reqs = Message(Perception(NoOne, id), id, m_eobjects \cup {id}) \o Message(TickTo(id), id, m_eobjects)
    OBVIOUS
  <2>2. /\ Handle(e, reqs) /\ UNCHANGED <<suspensionVars, failed, destroyed>> /\ e.op.cls = "create"
        /\ id \notin m_eobjects \cup destroyed /\ m_eobjects' = m_eobjects \cup {id}
        /\ m_entityCount' = m_entityCount + 1 /\ id \in Ids
    BY <1>2, <2>1 DEF DeliverCreate
  <2>3. /\ Known' = Known \cup {id} /\ id \notin Known /\ UNCHANGED <<m_suspendedQueue, m_isSuspended, failed>>
        /\ up /\ up' = up
    BY <2>2, HandleIs DEF Known, suspensionVars
  <2>4. PICK known, present : known = Known' /\ present = m_eobjects
    OBVIOUS
  <2>5. /\ Batch(reqs, known) /\ (\A x : x # id => TickFree(reqs, x))
        /\ \E k : TickPlaces(reqs, id) = {k}
    <3>1. now \in Nat /\ present \subseteq Ids
      BY <2>4 DEF WorldInv, QueueInv, EntitiesInv
    <3>2. reqs = Message(Perception(NoOne, id), id, present \cup {id}) \o Message(TickTo(id), id, present)
      BY <2>1, <2>4
    <3>3. id \in known /\ id \in Ids
      BY <2>2, <2>3, <2>4
    <3> QED
      BY <3>1, <3>2, <3>3, NewEntitySends
  <2>6. QueueInv'
    BY <2>2, <2>3, <2>4, <2>5, HandleKeepsQueue DEF WorldInv
  <2>7. AsideInv'
    BY <2>3, AsideKeeps DEF WorldInv
  <2>8. EntitiesInv'
    <3>1. m_eobjects \subseteq Ids /\ m_entityCount = Cardinality(m_eobjects) /\ m_entityCount \in Nat
      BY <2>3 DEF WorldInv, EntitiesInv, CountMatches
    <3>2. Cardinality(m_eobjects \cup {id}) = m_entityCount + 1
      BY <2>2, <3>1, IdsFinite, FS_AddElement
    <3>3. m_entityCount' \in Nat /\ CountMatches'
      BY <2>2, <3>1, <3>2 DEF CountMatches
    <3> QED
      BY <2>2, <2>3, <3>3 DEF WorldInv, EntitiesInv
  <2>9. TicksInv'
    <3> SUFFICES ASSUME NEW x \in (m_eobjects \cup {id}) \ ({World} \cup failed) PROVE OneTick(x)'
      BY <2>2, <2>3 DEF TicksInv
    <3>1. TicksAside(x)' = TicksAside(x)
      BY <2>3 DEF TicksAside
    <3>2. CASE x # id
      <4>1. OneTick(x)
        BY <2>3, <3>2 DEF WorldInv, TicksInv
      <4>2. WaitingTicks(x)' = WaitingTicks(x)
        BY <2>2, <2>5, <3>2, TicksStay
      <4> QED
        BY <3>1, <4>1, <4>2 DEF OneTick
    <3>3. CASE x = id
      <4>1. WaitingTicks(x) = {}
        BY <2>3, <3>3 DEF WaitingTicks, WorldInv, QueueInv, Sound
      <4>2. TicksAside(x) = {}
        BY <2>3, <3>3 DEF TicksAside, WorldInv, AsideInv, Sound
      <4>3. PICK k : TickPlaces(reqs, x) = {k}
        BY <2>5, <3>3
      <4>4. WaitingTicks(x)' = {D!Stamped(reqs[k], m_sequence + k)}
        BY <2>2, <4>1, <4>3, TicksChange
      <4> QED
        BY <3>1, <4>2, <4>4 DEF OneTick
    <3> QED
      BY <3>2, <3>3
  <2> QED
    BY <2>6, <2>7, <2>8, <2>9 DEF WorldInv
<1> QED
  BY <1>1, <1>2

\* Entities are destroyed; the ticks of the others stay.
LEMMA RemovalKeeps ==
    ASSUME WorldInv, NEW e, NEW reqs, Handle(e, reqs), Batch(reqs, Known), \A id : TickFree(reqs, id),
           e.op.cls # "tick", UNCHANGED <<suspensionVars, failed>>,
           EntitiesInv', Known' = Known, m_eobjects' \subseteq m_eobjects
    PROVE  WorldInv'
<1>1. up /\ up' = up /\ UNCHANGED <<m_suspendedQueue, m_isSuspended, failed>>
  BY HandleIs DEF suspensionVars
<1>2. QueueInv'
  <2>1. PICK known : known = Known
    OBVIOUS
  <2> QED
    BY <2>1, HandleKeepsQueue DEF WorldInv
<1>3. AsideInv'
  BY <1>1, AsideKeeps DEF WorldInv
<1>4. TicksInv'
  <2>1. \A id \in m_eobjects' \ ({World} \cup failed') : id \in m_eobjects /\ WaitingTicks(id)' = WaitingTicks(id)
    BY TicksStay
  <2> QED
    BY <1>1, <2>1, TicksKeep DEF WorldInv
<1> QED
  BY <1>2, <1>3, <1>4 DEF WorldInv

LEMMA DelEntityKeeps ==
    ASSUME WorldInv, up, NEW id \in m_eobjects, DelEntity(id), UNCHANGED <<m_isSuspended, failed, up>>
    PROVE  EntitiesInv' /\ Known' = Known /\ m_eobjects' \subseteq m_eobjects
<1>1. /\ m_eobjects \subseteq Ids /\ m_entityCount = Cardinality(m_eobjects) /\ m_entityCount \in Nat
      /\ destroyed \subseteq Ids \ {World} /\ m_eobjects \cap destroyed = {} /\ World \in m_eobjects
      /\ m_isSuspended \in BOOLEAN /\ failed \subseteq Ids
  BY DEF WorldInv, EntitiesInv, CountMatches
<1>2. CASE id = World
  <2>1. destroyed' = destroyed /\ m_eobjects' = m_eobjects /\ m_entityCount' = m_entityCount
    BY <1>2 DEF DelEntity
  <2> QED
    BY <2>1 DEF WorldInv, EntitiesInv, CountMatches, Known
<1>3. CASE id # World
  <2>1. /\ destroyed' = destroyed \cup {id} /\ m_eobjects' = m_eobjects \ {id}
        /\ m_entityCount' = m_entityCount - 1
    BY <1>3 DEF DelEntity
  <2>2. Cardinality(m_eobjects \ {id}) = m_entityCount - 1 /\ m_entityCount' = Cardinality(m_eobjects')
    BY <1>1, <2>1, IdsFinite, FS_RemoveElement
  <2>3. m_eobjects' \subseteq Ids /\ m_entityCount' \in Nat
    <3>1. m_eobjects' \subseteq Ids
      BY <1>1, <2>1
    <3>2. PICK S : S = m_eobjects'
      OBVIOUS
    <3>3. Cardinality(S) \in Nat
      BY <3>1, <3>2, IdsFinite
    <3> QED
      BY <2>2, <3>1, <3>2, <3>3
  <2>4. destroyed' \subseteq Ids \ {World} /\ m_eobjects' \cap destroyed' = {} /\ World \in m_eobjects'
    BY <1>1, <1>3, <2>1
  <2>5. EntitiesInv'
    BY <1>1, <2>2, <2>3, <2>4 DEF EntitiesInv, CountMatches
  <2>6. Known' = Known
    BY <2>1 DEF Known
  <2> QED
    BY <2>1, <2>5, <2>6
<1> QED
  BY <1>2, <1>3

LEMMA DeliverDeleteKeeps ==
    ASSUME WorldInv, NEW e \in m_operationQueue, DeliverDelete(e) PROVE WorldInv'
<1>1. PICK id, op, reqs : /\ id = e.op.to /\ op = Perception(NoOne, id)
                          /\ reqs = IF id = World THEN <<>> ELSE Broadcast(op, id, m_eobjects)
  OBVIOUS
<1>2. /\ Handle(e, reqs) /\ UNCHANGED <<suspensionVars, failed>> /\ e.op.cls # "tick" /\ Deliverable(e)
      /\ DelEntity(id)
  BY <1>1 DEF DeliverDelete, Delivered
<1>3. id \in m_eobjects /\ id \in Ids
  BY <1>1, <1>2, DeliverableIs
<1>4. up /\ UNCHANGED <<m_isSuspended, failed, up>>
  BY <1>2, HandleIs DEF suspensionVars
<1>5. EntitiesInv' /\ Known' = Known /\ m_eobjects' \subseteq m_eobjects
  BY <1>2, <1>3, <1>4, DelEntityKeeps
<1>6. Batch(reqs, Known) /\ \A x : TickFree(reqs, x)
  <2>1. CASE id = World
    BY <1>1, <2>1, EmptyBatch
  <2>2. CASE id # World
    <3>1. op \in Operations /\ op.cls = "perception"
      BY <1>1, <1>3, WorldAssumption DEF Perception, Op, Operations, Classes
    <3>2. PICK known, present : known = Known /\ present = m_eobjects
      OBVIOUS
    <3>3. id \in known /\ now \in Nat /\ present \subseteq Ids
      BY <1>3, <3>2 DEF Known, WorldInv, QueueInv, EntitiesInv
    <3>4. Batch(Broadcast(op, id, present), known) /\ \A x : TickFree(Broadcast(op, id, present), x)
      BY <1>3, <3>1, <3>3, BroadcastTo
    <3> QED
      BY <1>1, <2>2, <3>2, <3>4
  <2> QED
    BY <2>1, <2>2
<1> QED
  BY <1>2, <1>5, <1>6, RemovalKeeps

LEMMA DeliverDestroyKeeps ==
    ASSUME WorldInv, NEW e \in m_operationQueue, DeliverDestroy(e) PROVE WorldInv'
<1>1. Handle(e, <<>>) /\ UNCHANGED <<suspensionVars, failed>> /\ e.op.cls # "tick"
  BY DEF DeliverDestroy
<1>2. up /\ UNCHANGED <<m_suspendedQueue, m_isSuspended, failed, up>>
  BY <1>1, HandleIs DEF suspensionVars
<1>3. CASE UNCHANGED entityVars
  BY <1>1, <1>2, <1>3, QuietTypes, NothingComes
<1>4. ASSUME NEW id \in m_eobjects, DelEntity(id) PROVE WorldInv'
  <2>1. EntitiesInv' /\ Known' = Known /\ m_eobjects' \subseteq m_eobjects
    BY <1>2, <1>4, DelEntityKeeps
  <2>2. PICK reqs : reqs = <<>>
    OBVIOUS
  <2>3. Handle(e, reqs) /\ Batch(reqs, Known) /\ \A x : TickFree(reqs, x)
    BY <1>1, <2>2, EmptyBatch
  <2> QED
    BY <1>1, <2>1, <2>3, RemovalKeeps
<1> QED
  BY <1>3, <1>4 DEF DeliverDestroy

LEMMA DeliverClearKeeps ==
    ASSUME WorldInv, NEW e \in m_operationQueue, DeliverClear(e) PROVE WorldInv'
<1>1. /\ Handle(e, <<>>) /\ UNCHANGED <<suspensionVars, failed>> /\ e.op.cls # "tick"
      /\ destroyed' = destroyed \cup (m_eobjects \ {World}) /\ m_eobjects' = {World}
      /\ m_entityCount' = m_entityCount - Cardinality(m_eobjects \ {World})
  BY DEF DeliverClear
<1>2. up /\ UNCHANGED <<m_isSuspended, failed, up>>
  BY <1>1, HandleIs DEF suspensionVars
<1>3. /\ m_eobjects \subseteq Ids /\ m_entityCount = Cardinality(m_eobjects) /\ m_entityCount \in Nat
      /\ destroyed \subseteq Ids \ {World} /\ World \in m_eobjects
      /\ m_isSuspended \in BOOLEAN /\ failed \subseteq Ids
  BY <1>2 DEF WorldInv, EntitiesInv, CountMatches
<1>4. m_entityCount' = 1
  <2>1. Cardinality(m_eobjects \ {World}) = m_entityCount - 1
    BY <1>3, IdsFinite, FS_RemoveElement
  <2> QED
    BY <1>1, <1>3, <2>1
<1>5. Cardinality({World}) = 1
  BY FS_Singleton
<1>6. EntitiesInv' /\ Known' = Known /\ m_eobjects' \subseteq m_eobjects
  <2>1. destroyed' \subseteq Ids \ {World} /\ m_eobjects' \cap destroyed' = {} /\ m_eobjects' \subseteq Ids
    BY <1>1, <1>3
  <2>2. Known' = Known
    BY <1>1, <1>3 DEF Known
  <2>3. CountMatches' /\ m_entityCount' \in Nat
    BY <1>1, <1>4, <1>5 DEF CountMatches
  <2>4. World \in m_eobjects' /\ m_eobjects' \subseteq m_eobjects
    BY <1>1, <1>3
  <2> QED
    BY <1>2, <1>3, <2>1, <2>2, <2>3, <2>4 DEF EntitiesInv
<1>7. PICK reqs : reqs = <<>>
  OBVIOUS
<1>8. Handle(e, reqs) /\ Batch(reqs, Known) /\ \A x : TickFree(reqs, x)
  BY <1>1, <1>7, EmptyBatch
<1> QED
  BY <1>1, <1>6, <1>8, RemovalKeeps

\* The one tick of an entity moves from the queue to those set aside.
LEMMA DeliverSuspendedKeeps ==
    ASSUME WorldInv, NEW e \in m_operationQueue, DeliverSuspended(e) PROVE WorldInv'
<1>1. PICK id, r, n : /\ id = e.op.to /\ r = [op |-> e.op, from |-> e.op.to, time |-> e.time]
                      /\ n = Len(m_suspendedQueue)
  OBVIOUS
<1>2. /\ Handle(e, <<>>) /\ UNCHANGED <<entityVars, m_isSuspended, failed>> /\ e.op.cls = "tick"
      /\ Deliverable(e) /\ m_isSuspended /\ m_suspendedQueue' = Append(m_suspendedQueue, r)
  BY <1>1 DEF DeliverSuspended
<1>3. /\ id \in m_eobjects /\ id \in Ids /\ id = e.op.to /\ id = e.from /\ e.op \in Operations
      /\ Sound(e, Known) /\ id \in Known /\ e.time \in D!Times
  <2>1. id \in m_eobjects /\ id \in Ids /\ id = e.from /\ e.op \in Operations
    BY <1>1, <1>2, DeliverableIs
  <2>2. Sound(e, Known) /\ e \in D!OpQueEntry
    BY DEF WorldInv, QueueInv
  <2>3. e.time \in D!Times
    BY <2>2 DEF D!OpQueEntry
  <2> QED
    BY <1>1, <2>1, <2>2, <2>3 DEF Known
<1>4. up /\ up' = up /\ Known' = Known /\ UNCHANGED <<m_eobjects, destroyed, m_entityCount, m_isSuspended, failed>>
  BY <1>2, HandleIs DEF entityVars, Known
<1>5. r \in D!Request /\ r.op = e.op /\ r.from = id
  BY <1>1, <1>3 DEF D!Request
<1>6. m_suspendedQueue \in Seq(D!Request) /\ n \in Nat /\ DOMAIN m_suspendedQueue = 1 .. n
  BY <1>1 DEF WorldInv, AsideInv
<1>7. /\ m_suspendedQueue' \in Seq(D!Request) /\ DOMAIN m_suspendedQueue' = 1 .. (n + 1)
      /\ m_suspendedQueue'[n + 1] = r /\ \A i \in 1 .. n : m_suspendedQueue'[i] = m_suspendedQueue[i]
  BY <1>1, <1>2, <1>5, <1>6
<1>8. 1 .. (n + 1) = (1 .. n) \cup {n + 1} /\ n + 1 \notin 1 .. n
  BY <1>6
<1>9. PICK reqs : reqs = <<>>
  OBVIOUS
<1>10. Handle(e, reqs) /\ Batch(reqs, Known) /\ \A x : TickFree(reqs, x)
  BY <1>2, <1>9, EmptyBatch
<1>11. QueueInv'
  <2>1. PICK known : known = Known
    OBVIOUS
  <2> QED
    BY <1>4, <1>10, <2>1, HandleKeepsQueue DEF WorldInv
<1>12. AsideInv'
  <2>1. Sound(r, Known) /\ r.op.cls = "tick"
    BY <1>2, <1>3, <1>5 DEF Sound
  <2>2. ASSUME NEW i \in 1 .. (n + 1)
        PROVE  m_suspendedQueue'[i].op.cls = "tick" /\ Sound(m_suspendedQueue'[i], Known)
    <3>1. CASE i = n + 1
      BY <1>7, <2>1, <3>1
    <3>2. CASE i \in 1 .. n
      BY <1>6, <1>7, <3>2 DEF WorldInv, AsideInv
    <3> QED
      BY <1>8, <3>1, <3>2
  <2>3. NothingStranded'
    BY <1>2, <1>4 DEF NothingStranded
  <2>4. \A i \in DOMAIN m_suspendedQueue' :
           m_suspendedQueue'[i].op.cls = "tick" /\ Sound(m_suspendedQueue'[i], Known')
    BY <1>4, <1>7, <2>2
  <2> QED
    BY <1>7, <2>3, <2>4 DEF AsideInv, Sound
<1>13. EntitiesInv'
  BY <1>4 DEF WorldInv, EntitiesInv, CountMatches
<1>14. TicksInv'
  <2> SUFFICES ASSUME NEW x \in m_eobjects \ ({World} \cup failed) PROVE OneTick(x)'
    BY <1>4 DEF TicksInv
  <2>1. OneTick(x)
    BY <1>4 DEF WorldInv, TicksInv
  <2>2. CASE x # id
    <3>1. WaitingTicks(x)' = WaitingTicks(x)
      BY <1>3, <1>10, <2>2, TicksStay
    <3>2. TicksAside(x)' = TicksAside(x)
      BY <1>3, <1>5, <1>6, <1>7, <1>8, <2>2 DEF TicksAside
    <3> QED
      BY <2>1, <3>1, <3>2 DEF OneTick
  <2>3. CASE x = id
    <3>1. e \in WaitingTicks(x)
      BY <1>2, <1>3, <2>3 DEF WaitingTicks
    <3>2. TicksAside(x) = {} /\ WaitingTicks(x) = {e}
      BY <2>1, <3>1 DEF OneTick
    <3>3. TickPlaces(reqs, x) = {}
      BY <1>10 DEF TickFree, TickPlaces
    <3>4. WaitingTicks(x)' = {}
      BY <1>10, <3>2, <3>3, TicksChange
    <3>5. TicksAside(x)' = {n + 1}
      BY <1>3, <1>5, <1>6, <1>7, <1>8, <2>3, <3>2 DEF TicksAside
    <3> QED
      BY <3>4, <3>5 DEF OneTick
  <2> QED
    BY <2>2, <2>3
<1> QED
  BY <1>11, <1>12, <1>13, <1>14 DEF WorldInv

\* Everything set aside is queued again.
LEMMA DeliverResumeKeeps ==
    ASSUME WorldInv, NEW e \in m_operationQueue, DeliverResume(e) PROVE WorldInv'
<1>1. UNCHANGED <<entityVars, failed>> /\ e.op.cls # "tick"
  BY DEF DeliverResume
<1>2. CASE UNCHANGED suspensionVars /\ Handle(e, <<>>)
  <2>1. UNCHANGED <<m_suspendedQueue, m_isSuspended>>
    BY <1>2 DEF suspensionVars
  <2> QED
    BY <1>1, <1>2, <2>1, QuietTypes, NothingComes
<1>3. CASE ResumeWorld /\ Handle(e, m_suspendedQueue)
  <2>1. PICK reqs, known : reqs = m_suspendedQueue /\ known = Known
    OBVIOUS
  <2>2. /\ Handle(e, reqs) /\ m_suspendedQueue' = <<>> /\ m_isSuspended' = FALSE /\ up /\ up' = up
        /\ Known' = Known /\ UNCHANGED <<m_eobjects, destroyed, m_entityCount, failed>>
    BY <1>1, <1>3, <2>1, HandleIs DEF ResumeWorld, entityVars, Known
  <2>3. /\ reqs \in Seq(D!Request)
        /\ \A i \in DOMAIN reqs : reqs[i].op.cls = "tick" /\ Sound(reqs[i], known)
    BY <2>1 DEF WorldInv, AsideInv
  <2>4. Batch(reqs, known)
    BY <2>3 DEF Batch, Sound
  <2>5. QueueInv'
    BY <2>1, <2>2, <2>4, HandleKeepsQueue DEF WorldInv
  <2>6. AsideInv'
    <3>1. <<>> \in Seq(D!Request) /\ DOMAIN <<>> = {}
      OBVIOUS
    <3> QED
      BY <2>2, <3>1 DEF AsideInv, NothingStranded
  <2>7. EntitiesInv'
    BY <2>2 DEF WorldInv, EntitiesInv, CountMatches
  <2>8. TicksInv'
    <3> SUFFICES ASSUME NEW x \in m_eobjects \ ({World} \cup failed) PROVE OneTick(x)'
      BY <2>2 DEF TicksInv
    <3>1. OneTick(x)
      BY <2>2 DEF WorldInv, TicksInv
    <3>2. TicksAside(x)' = {}
      <4>1. DOMAIN <<>> = {}
        OBVIOUS
      <4> QED
        BY <2>2, <4>1 DEF TicksAside
    <3>3. TickPlaces(reqs, x) = TicksAside(x)
      BY <2>1, <2>3 DEF TickPlaces, TicksAside
    <3>4. e \notin WaitingTicks(x)
      BY <1>1 DEF WaitingTicks
    <3>5. WaitingTicks(x)' = (WaitingTicks(x) \ {e}) \cup {D!Stamped(reqs[i], m_sequence + i) : i \in TicksAside(x)}
      BY <2>2, <3>3, TicksChange
    <3>6. CASE TicksAside(x) = {} /\ \E f : WaitingTicks(x) = {f}
      <4>1. WaitingTicks(x)' = WaitingTicks(x)
        BY <3>4, <3>5, <3>6
      <4> QED
        BY <3>2, <3>6, <4>1 DEF OneTick
    <3>7. CASE WaitingTicks(x) = {} /\ \E i : TicksAside(x) = {i}
      <4>1. PICK k : TicksAside(x) = {k}
        BY <3>7
      <4>2. WaitingTicks(x)' = {D!Stamped(reqs[k], m_sequence + k)}
        BY <3>5, <3>7, <4>1
      <4> QED
        BY <3>2, <4>2 DEF OneTick
    <3> QED
      BY <3>1, <3>6, <3>7 DEF OneTick
  <2> QED
    BY <2>5, <2>6, <2>7, <2>8 DEF WorldInv
<1> QED
  BY <1>2, <1>3 DEF DeliverResume

LEMMA ClientOpsAre ==
    ASSUME NEW op \in ClientOps PROVE op \in Operations /\ op.cls \notin {"tick", "perception"}
<1>1. World \in Ids
  BY WorldAssumption DEF World, Ids
<1>2. CASE \E c \in Commands \cap {"create", "clear", "suspend", "resume"} : op = Op(c, World, NoOne, "immediate")
  BY <1>1, <1>2, WorldAssumption DEF Op, Operations, Classes
<1>3. CASE \E c \in Commands \cap {"talk", "delete"}, to \in Ids \cup {NoOne} : op = Op(c, to, NoOne, "immediate")
  BY <1>3, WorldAssumption DEF Op, Operations, Classes
<1>4. CASE \E c \in Commands \cap {"destroy"}, arg \in Ids : op = Op(c, World, arg, "immediate")
  BY <1>1, <1>4, WorldAssumption DEF Op, Operations, Classes
<1> QED
  BY <1>2, <1>3, <1>4 DEF ClientOps

LEMMA ClientMessageKeeps ==
    ASSUME WorldInv, NEW from \in m_eobjects, NEW op \in ClientOps, ClientMessage(from, op) PROVE WorldInv'
<1>1. PICK reqs, q : reqs = Message(op, from, m_eobjects) /\ q = m_operationQueue
  OBVIOUS
<1>2. /\ m_operationQueue' = D!WithAdded(q, reqs) /\ m_sequence' = m_sequence + Len(reqs)
      /\ m_sequence' <= MaxSequence /\ now' = now
      /\ UNCHANGED <<m_eobjects, destroyed, m_entityCount, m_isSuspended, m_suspendedQueue, failed, up>>
  BY <1>1 DEF ClientMessage, D!AddOperationsToQueue, entityVars, suspensionVars
<1>3. op \in Operations /\ op.cls # "tick" /\ op.cls # "perception"
  BY ClientOpsAre
<1>4. from \in Known /\ from \in Ids /\ now \in Nat /\ up /\ Known' = Known
  BY <1>2 DEF Known, WorldInv, QueueInv, EntitiesInv, ClientMessage
<1>5. Batch(reqs, Known) /\ \A x : TickFree(reqs, x)
  <2>1. CASE op.to = NoOne
    <3>1. reqs = <<>>
      BY <1>1, <1>3, <2>1 DEF Message
    <3> QED
      BY <3>1, EmptyBatch
  <2>2. CASE op.to # NoOne
    <3>1. op.to \in Ids
      BY <1>3, <2>2 DEF Operations
    <3>2. PICK known, present : known = Known /\ present = m_eobjects
      OBVIOUS
    <3>3. Batch(Message(op, from, present), known) /\ Len(Message(op, from, present)) = 1 /\ Message(op, from, present)[1].op = op
      BY <1>3, <1>4, <3>1, <3>2, MessageTo
    <3>4. reqs \in Seq(D!Request) /\ Len(reqs) = 1 /\ reqs[1].op = op /\ Batch(reqs, known)
      BY <1>1, <3>2, <3>3 DEF Batch
    <3>5. \A i \in DOMAIN reqs : reqs[i].op = op
      BY <3>4
    <3> QED
      BY <1>3, <3>2, <3>4, <3>5 DEF TickFree
  <2> QED
    BY <2>1, <2>2
<1>6. QueueInv'
  <2>1. PICK known : known = Known
    OBVIOUS
  <2> QED
    BY <1>1, <1>2, <1>4, <1>5, <2>1, QueueKeeps DEF WorldInv
<1>7. AsideInv'
  BY <1>2, <1>4, AsideKeeps DEF WorldInv
<1>8. EntitiesInv'
  BY <1>2 DEF WorldInv, EntitiesInv, CountMatches
<1>9. TicksInv'
  <2>1. ASSUME NEW id PROVE WaitingTicks(id)' = WaitingTicks(id)
    <3>1. m_operationQueue' = m_operationQueue \cup {D!Stamped(reqs[i], m_sequence + i) : i \in DOMAIN reqs}
      BY <1>1, <1>2 DEF D!WithAdded
    <3>2. \A i \in DOMAIN reqs : D!Stamped(reqs[i], m_sequence + i).op = reqs[i].op
      BY DEF D!Stamped
    <3>3. \A f \in m_operationQueue' : f.op.cls = "tick" /\ f.op.to = id => f \in m_operationQueue
      BY <1>5, <3>1, <3>2 DEF TickFree
    <3> QED
      BY <3>1, <3>3 DEF WaitingTicks
  <2> QED
    BY <1>2, <1>4, <2>1, TicksKeep DEF WorldInv
<1> QED
  BY <1>6, <1>7, <1>8, <1>9 DEF WorldInv

\* Neither the queue nor the entities change, and the clock does not go back.
LEMMA IdleKeeps ==
    ASSUME WorldInv, UNCHANGED <<m_operationQueue, m_sequence, entityVars, suspensionVars, failed, up>>,
           now' = now \/ now' = now + 1
    PROVE  WorldInv'
<1>1. /\ UNCHANGED <<m_operationQueue, m_sequence, m_eobjects, destroyed, m_entityCount, m_isSuspended,
                     m_suspendedQueue, failed, up>>
      /\ Known' = Known
  BY DEF entityVars, suspensionVars, Known
<1>2. QueueInv'
  <2>1. now \in Nat /\ now' \in Nat
    BY DEF WorldInv, QueueInv
  <2>2. NowTime <= NowTime' /\ NowTime \in Int /\ NowTime' \in Int
    BY <2>1, ClockSteady
  <2>3. ASSUME NEW e \in m_operationQueue
        PROVE  /\ e.sequence <= m_sequence /\ Sound(e, Known)
               /\ e.op.timing = "immediate" => e.time <= NowTime'
    <3>1. e.time \in Int
      BY DEF WorldInv, QueueInv, D!OpQueEntry, D!Times
    <3> QED
      BY <2>2, <3>1 DEF WorldInv, QueueInv
  <2>4. ImmediateInOrder'
    BY <1>1 DEF WorldInv, QueueInv, ImmediateInOrder, D!Before
  <2>5. m_operationQueue \subseteq D!OpQueEntry /\ m_sequence \in Nat
    BY DEF WorldInv, QueueInv
  <2> QED
    BY <1>1, <2>1, <2>3, <2>4, <2>5 DEF QueueInv, Sound
<1>3. AsideInv'
  BY <1>1, AsideKeeps DEF WorldInv
<1>4. EntitiesInv'
  BY <1>1 DEF WorldInv, EntitiesInv, CountMatches
<1>5. TicksInv'
  <2>1. \A id : WaitingTicks(id)' = WaitingTicks(id)
    BY <1>1 DEF WaitingTicks
  <2>2. \A id : TicksAside(id)' = TicksAside(id)
    BY <1>1 DEF TicksAside
  <2>3. \A id : OneTick(id)' <=> OneTick(id)
    BY <2>1, <2>2 DEF OneTick
  <2> QED
    BY <1>1, <2>3 DEF WorldInv, TicksInv
<1> QED
  BY <1>2, <1>3, <1>4, <1>5 DEF WorldInv

LEMMA ShutdownKeeps ==
    ASSUME WorldInv, Shutdown PROVE WorldInv'
<1>1. /\ m_operationQueue' = {} /\ m_suspendedQueue' = <<>> /\ m_eobjects' = {} /\ up' = FALSE
      /\ UNCHANGED <<m_sequence, now, destroyed, m_entityCount, m_isSuspended, failed>>
  BY DEF Shutdown, D!ClearQueues
<1>2. <<>> \in Seq(D!Request) /\ DOMAIN <<>> = {}
  OBVIOUS
<1>3. QueueInv'
  BY <1>1 DEF WorldInv, QueueInv, ImmediateInOrder
<1>4. AsideInv'
  BY <1>1, <1>2 DEF AsideInv, NothingStranded
<1>5. EntitiesInv'
  BY <1>1 DEF WorldInv, EntitiesInv, CountMatches
<1>6. TicksInv'
  BY <1>1 DEF TicksInv
<1> QED
  BY <1>3, <1>4, <1>5, <1>6 DEF WorldInv

LEMMA InitWorld ==
    ASSUME Init PROVE WorldInv
<1>1. PICK e : /\ \E t \in 0 .. MaxTime : e = [op |-> TickTo(1), from |-> 1, time |-> t, sequence |-> 1]
               /\ m_operationQueue = {e}
  BY DEF Init
<1>2. 1 \in Ids /\ World \in Ids /\ World # 1
  BY WorldAssumption DEF World, Ids
<1>3. /\ m_sequence = 1 /\ now = 0 /\ m_eobjects = {World, 1} /\ destroyed = {} /\ m_entityCount = 2
      /\ m_isSuspended = FALSE /\ m_suspendedQueue = <<>> /\ failed = {} /\ up = TRUE
  BY DEF Init
<1>4. PICK op : op = TickTo(1) /\ op \in Operations /\ op.cls = "tick" /\ op.to = 1 /\ op.timing = "future"
  <2>1. PICK o : o = TickTo(1)
    OBVIOUS
  <2>2. o \in Operations /\ o.cls = "tick" /\ o.to = 1 /\ o.timing = "future"
    BY <1>2, <2>1, WorldAssumption DEF TickTo, Op, Operations, Classes
  <2> QED
    BY <2>1, <2>2
<1>5. e.op = op /\ e.from = 1 /\ e.sequence = 1 /\ e \in D!OpQueEntry
  <2>1. 1 \in 1 .. MaxSequence
    BY WorldAssumption
  <2> QED
    BY <1>1, <1>2, <1>4, <2>1 DEF D!OpQueEntry, D!Times
<1>6. <<>> \in Seq(D!Request) /\ DOMAIN <<>> = {}
  OBVIOUS
<1>7. QueueInv
  <2>1. Sound(e, Known) /\ e.op.timing # "immediate"
    BY <1>2, <1>3, <1>4, <1>5 DEF Sound, Known
  <2>2. ImmediateInOrder
    BY <1>1, <2>1 DEF ImmediateInOrder
  <2> QED
    BY <1>1, <1>3, <1>5, <2>1, <2>2 DEF QueueInv
<1>8. AsideInv
  BY <1>3, <1>6 DEF AsideInv, NothingStranded
<1>9. EntitiesInv
  <2>1. Cardinality({World}) = 1 /\ IsFiniteSet({World})
    BY FS_Singleton
  <2>2. Cardinality({World} \cup {1}) = 2
    BY <1>2, <2>1, FS_AddElement
  <2>3. {World, 1} = {World} \cup {1}
    OBVIOUS
  <2> QED
    BY <1>2, <1>3, <2>2, <2>3 DEF EntitiesInv, CountMatches
<1>10. TicksInv
  <2>1. WaitingTicks(1) = {e}
    BY <1>1, <1>4, <1>5 DEF WaitingTicks
  <2>2. TicksAside(1) = {}
    BY <1>3, <1>6 DEF TicksAside
  <2>3. \A id \in m_eobjects \ ({World} \cup failed) : id = 1
    BY <1>3
  <2> QED
    BY <2>1, <2>2, <2>3 DEF TicksInv, OneTick
<1> QED
  BY <1>7, <1>8, <1>9, <1>10 DEF WorldInv

LEMMA NextKeepsWorld ==
    ASSUME WorldInv, [Next]_vars PROVE WorldInv'
<1>1. ASSUME NEW from \in {id \in m_eobjects : Alive(id)}, NEW op \in ClientOps, ClientMessage(from, op)
      PROVE  WorldInv'
  BY <1>1, ClientMessageKeeps
<1>2. CASE StartProcessing
  BY <1>2, IdleKeeps DEF StartProcessing, D!ProcessUntil
<1>3. ASSUME NEW e \in m_operationQueue, OperationUnseen(e) PROVE WorldInv'
  BY <1>3, OperationUnseenKeeps
<1>4. ASSUME NEW e \in m_operationQueue, OperationToSelfDropped(e) PROVE WorldInv'
  BY <1>4, OperationToSelfDroppedKeeps
<1>5. ASSUME NEW e \in m_operationQueue, DeliverSuspended(e) PROVE WorldInv'
  BY <1>5, DeliverSuspendedKeeps
<1>6. ASSUME NEW e \in m_operationQueue, NEW next \in Timed(TickTo(e.op.to)), DeliverTick(e, next)
      PROVE  WorldInv'
  BY <1>6, DeliverTickKeeps
<1>7. ASSUME NEW e \in m_operationQueue, DeliverPerception(e) PROVE WorldInv'
  BY <1>7, DeliverPerceptionKeeps
<1>8. ASSUME NEW e \in m_operationQueue, NEW speaker \in Ids, NEW heard \in Timed(Perception(NoOne, speaker)),
             DeliverTalk(e, speaker, heard)
      PROVE  WorldInv'
  BY <1>8, DeliverTalkKeeps
<1>9. ASSUME NEW e \in m_operationQueue, NEW id \in Ids \cup {NoOne}, DeliverCreate(e, id) PROVE WorldInv'
  BY <1>9, DeliverCreateKeeps
<1>10. ASSUME NEW e \in m_operationQueue, DeliverDelete(e) PROVE WorldInv'
  BY <1>10, DeliverDeleteKeeps
<1>11. ASSUME NEW e \in m_operationQueue, DeliverDestroy(e) PROVE WorldInv'
  BY <1>11, DeliverDestroyKeeps
<1>12. ASSUME NEW e \in m_operationQueue, DeliverClear(e) PROVE WorldInv'
  BY <1>12, DeliverClearKeeps
<1>13. ASSUME NEW e \in m_operationQueue, DeliverSuspend(e) PROVE WorldInv'
  BY <1>13, DeliverSuspendKeeps
<1>14. ASSUME NEW e \in m_operationQueue, DeliverResume(e) PROVE WorldInv'
  BY <1>14, DeliverResumeKeeps
<1>15. ASSUME NEW e \in m_operationQueue, DeliverThrows(e) PROVE WorldInv'
  BY <1>15, DeliverThrowsKeeps
<1>16. CASE StopProcessing
  BY <1>16, IdleKeeps DEF StopProcessing, D!EndProcessUntil
<1>17. CASE ClockTick
  BY <1>17, IdleKeeps DEF ClockTick, D!Tick
<1>18. CASE Shutdown
  BY <1>18, ShutdownKeeps
<1>19. CASE UNCHANGED vars
  BY <1>19, IdleKeeps DEF vars, dispatcherVars
<1>20. CASE AtBound
  BY <1>19, <1>20 DEF AtBound
<1> QED
  BY <1>1, <1>2, <1>3, <1>4, <1>5, <1>6, <1>7, <1>8, <1>9, <1>10, <1>11, <1>12, <1>13, <1>14, <1>15, <1>16,
     <1>17, <1>18, <1>19, <1>20 DEF Next

LEMMA WorldAlwaysInv == Spec => []WorldInv
<1>1. Init => WorldInv
  BY InitWorld
<1>2. WorldInv /\ [Next]_vars => WorldInv'
  BY NextKeepsWorld
<1> QED
  BY <1>1, <1>2, PTL DEF Spec

-----------------------------------------------------------------------------
\* RouterInv: entities are counted and deleted once, what is queued has a receiver
\* and no tick stays aside after resumeWorld(), for any number of entities.
THEOREM RouterAlwaysSound == Spec => []RouterInv
<1>1. ASSUME WorldInv PROVE RouterInv
  <2>1. AllAddressed
    <3>1. \A e \in m_operationQueue : e.op.to \in Ids
      BY <1>1 DEF WorldInv, QueueInv, Sound
    <3>2. NoOne \notin Ids
      BY WorldAssumption DEF Ids, NoOne
    <3> QED
      BY <3>1, <3>2 DEF AllAddressed
  <2>2. WorldTypeOK
    BY <1>1 DEF WorldInv, QueueInv, AsideInv, EntitiesInv, WorldTypeOK
  <2> QED
    BY <1>1, <2>1, <2>2 DEF RouterInv, WorldInv, AsideInv, EntitiesInv
<1>2. WorldInv => RouterInv
  BY <1>1
<1> QED
  BY <1>2, WorldAlwaysInv, PTL

\* OneTickEach: an entity whose handlers never threw has exactly one tick waiting,
\* in the queue or aside, however often the world is suspended and resumed.
THEOREM OneTickAlways == Spec => []OneTickEach
<1>1. ASSUME WorldInv, up, NEW id \in m_eobjects \ ({World} \cup failed) PROVE TicksOf(id) = 1
  <2>1. OneTick(id)
    BY <1>1 DEF WorldInv, TicksInv
  <2>2. TicksOf(id) = Cardinality(WaitingTicks(id)) + Cardinality(TicksAside(id))
    BY DEF TicksOf, WaitingTicks, TicksAside
  <2>3. Cardinality({}) = 0 /\ \A x : Cardinality({x}) = 1
    BY FS_EmptySet, FS_Singleton
  <2>4. PICK a, b : a = Cardinality(WaitingTicks(id)) /\ b = Cardinality(TicksAside(id))
    OBVIOUS
  <2>5. (a = 1 /\ b = 0) \/ (a = 0 /\ b = 1)
    BY <2>1, <2>3, <2>4 DEF OneTick
  <2> QED
    BY <2>2, <2>4, <2>5
<1>2. WorldInv => OneTickEach
  BY <1>1 DEF OneTickEach
<1> QED
  BY <1>2, WorldAlwaysInv, PTL

\* ImmediateInOrder: operations sent for immediate delivery are dispatched in the
\* order they were sent, whatever the float that holds the time is rounded to.
THEOREM ImmediateAlwaysInOrder == Spec => []ImmediateInOrder
<1>1. WorldInv => ImmediateInOrder
  BY DEF WorldInv, QueueInv
<1> QED
  BY <1>1, WorldAlwaysInv, PTL

=============================================================================
