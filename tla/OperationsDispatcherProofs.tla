--------------------- MODULE OperationsDispatcherProofs ---------------------
(***************************************************************************)
(* Proofs that the operation queue keeps its promises for every set of     *)
(* operations and senders, every bound and every operation processor, and  *)
(* that the main loop uses it as it is meant to be used.                   *)
(***************************************************************************)
EXTENDS MainLoop, TLAPS

\* A batch of requests is added under sequence numbers of its own, above
\* every number given out before (addOperationToQueue, ++m_sequence).
LEMMA AddedEntries ==
    ASSUME NEW q, q \subseteq OpQueEntry, m_sequence \in 0 .. MaxSequence,
           NEW reqs \in Seq(Request), m_sequence + Len(reqs) <= MaxSequence
    PROVE  /\ WithAdded(q, reqs) \subseteq OpQueEntry
           /\ \A e \in WithAdded(q, reqs) :
                 e \in q \/ (e.sequence > m_sequence /\ e.sequence <= m_sequence + Len(reqs))
           /\ \A e, f \in WithAdded(q, reqs) :
                 (e \notin q /\ f \notin q /\ e.sequence = f.sequence) => e = f
           /\ m_sequence + Len(reqs) \in 0 .. MaxSequence
<1> USE BoundsAssumption
<1>0. Len(reqs) \in Nat /\ DOMAIN reqs = 1 .. Len(reqs)
  OBVIOUS
<1>1. ASSUME NEW i \in DOMAIN reqs
      PROVE  /\ Stamped(reqs[i], m_sequence + i) \in OpQueEntry
             /\ Stamped(reqs[i], m_sequence + i).sequence = m_sequence + i
             /\ m_sequence + i > m_sequence
             /\ m_sequence + i <= m_sequence + Len(reqs)
  <2>1. reqs[i] \in Request /\ i \in 1 .. Len(reqs)
    BY <1>0
  <2>2. m_sequence + i \in 1 .. MaxSequence
    BY <2>1, <1>0
  <2> QED
    BY <2>1, <2>2, <1>0 DEF Stamped, Request, OpQueEntry
<1>2. ASSUME NEW e \in WithAdded(q, reqs), e \notin q
      PROVE  \E i \in DOMAIN reqs : e = Stamped(reqs[i], m_sequence + i)
  BY <1>2 DEF WithAdded
<1>3. WithAdded(q, reqs) \subseteq OpQueEntry
  BY <1>1, <1>2
<1>4. ASSUME NEW e \in WithAdded(q, reqs), e \notin q
      PROVE  e.sequence > m_sequence /\ e.sequence <= m_sequence + Len(reqs)
  <2>1. PICK i \in DOMAIN reqs : e = Stamped(reqs[i], m_sequence + i)
    BY <1>2, <1>4
  <2> QED
    BY <2>1, <1>1
<1>5. ASSUME NEW e \in WithAdded(q, reqs), NEW f \in WithAdded(q, reqs),
             e \notin q, f \notin q, e.sequence = f.sequence
      PROVE  e = f
  <2>1. PICK i \in DOMAIN reqs : e = Stamped(reqs[i], m_sequence + i)
    BY <1>2, <1>5
  <2>2. PICK j \in DOMAIN reqs : f = Stamped(reqs[j], m_sequence + j)
    BY <1>2, <1>5
  <2>3. m_sequence + i = m_sequence + j
    BY <2>1, <2>2, <1>1, <1>5
  <2>4. i = j
    BY <2>3, <1>0
  <2> QED
    BY <2>1, <2>2, <2>4
<1> QED
  BY <1>0, <1>3, <1>4, <1>5

\* What the processor returns is a sequence of requests.
LEMMA ResultsAreRequests == Results \subseteq Seq(Request)
  BY BoundsAssumption DEF Results

-----------------------------------------------------------------------------
\* The inductive invariant: NoOvertaking alone says nothing of what still
\* waits in the queue, WaitingIsLater and SequencesUnique do.
IInv == TypeOK /\ SequencesUnique /\ WaitingIsLater /\ NoOvertaking /\ NotEarly /\ NoOversleep

\* Adding a batch of operations to a part q of the queue keeps what the
\* invariant says of the queue (addOperationToQueue from inside and outside
\* of a processor).
LEMMA AddKeepsQueue ==
    ASSUME TypeOK, SequencesUnique, WaitingIsLater, NoOversleep,
           NEW q, q \subseteq m_operationQueue,
           NEW reqs \in Seq(Request), AddOperationsToQueue(q, reqs)
    PROVE  /\ m_operationQueue' \subseteq OpQueEntry
           /\ m_sequence' \in 0 .. MaxSequence
           /\ m_sequence <= m_sequence'
           /\ m_operation_queues_dirty' \in BOOLEAN
           /\ \A e, f \in m_operationQueue' : e.sequence = f.sequence => e = f
           /\ \A e \in m_operationQueue' :
                 e \in q \/ e.sequence > m_sequence
           /\ \A e \in m_operationQueue' : e.sequence <= m_sequence'
           /\ ~m_operation_queues_dirty' => \A e \in m_operationQueue' : e.time >= cleanHead
<1> USE BoundsAssumption
<1>1. /\ q \subseteq OpQueEntry
      /\ m_sequence \in 0 .. MaxSequence
      /\ m_operation_queues_dirty \in BOOLEAN
      /\ cleanHead \in 0 .. Never
  BY DEF TypeOK
<1>2. /\ m_sequence + Len(reqs) <= MaxSequence
      /\ m_operationQueue' = WithAdded(q, reqs)
      /\ m_sequence' = m_sequence + Len(reqs)
      /\ m_operation_queues_dirty' = (m_operation_queues_dirty \/ HeadChanged(q, reqs))
  BY DEF AddOperationsToQueue
<1>3. /\ WithAdded(q, reqs) \subseteq OpQueEntry
      /\ \A e \in WithAdded(q, reqs) :
            e \in q \/ (e.sequence > m_sequence /\ e.sequence <= m_sequence + Len(reqs))
      /\ \A e, f \in WithAdded(q, reqs) :
            (e \notin q /\ f \notin q /\ e.sequence = f.sequence) => e = f
      /\ m_sequence + Len(reqs) \in 0 .. MaxSequence
  BY <1>1, <1>2, AddedEntries
<1>4. \A e \in q : e.sequence <= m_sequence /\ e.sequence \in Int
  BY <1>1 DEF SequencesUnique, OpQueEntry
<1>5. ASSUME NEW e \in WithAdded(q, reqs), NEW f \in WithAdded(q, reqs),
             e.sequence = f.sequence
      PROVE  e = f
  <2>1. CASE e \in q /\ f \in q
    BY <2>1, <1>5 DEF SequencesUnique
  <2>2. CASE e \notin q /\ f \notin q
    BY <2>2, <1>5, <1>3
  <2>3. CASE e \in q /\ f \notin q
    BY <2>3, <1>5, <1>3, <1>4, <1>1
  <2>4. CASE e \notin q /\ f \in q
    BY <2>4, <1>5, <1>3, <1>4, <1>1
  <2> QED
    BY <2>1, <2>2, <2>3, <2>4
<1>6. ASSUME NEW e \in WithAdded(q, reqs)
      PROVE  e.sequence <= m_sequence + Len(reqs)
  <2>1. Len(reqs) \in Nat
    OBVIOUS
  <2> QED
    BY <2>1, <1>1, <1>3, <1>4
<1>7. ASSUME ~m_operation_queues_dirty', NEW e \in WithAdded(q, reqs)
      PROVE  e.time >= cleanHead
  <2>1. ~m_operation_queues_dirty /\ ~HeadChanged(q, reqs)
    BY <1>7, <1>2
  <2>2. \A f \in q : f.time >= cleanHead
    BY <2>1 DEF NoOversleep
  <2>3. CASE e \in q
    BY <2>2, <2>3
  <2>4. CASE e \notin q
    <3>1. PICK i \in DOMAIN reqs : e = Stamped(reqs[i], m_sequence + i)
      BY <2>4 DEF WithAdded
    <3>2. PICK f \in q : ~Before(e, f)
      BY <3>1, <2>1 DEF HeadChanged
    <3>3. f.time \in Int /\ e.time \in Int
      BY <1>1, <1>3 DEF OpQueEntry, Times
    <3>4. f.time <= e.time
      BY <3>2, <3>3 DEF Before
    <3> QED
      BY <3>4, <3>3, <2>2, <1>1 DEF Never
  <2> QED
    BY <2>3, <2>4
<1>8. m_sequence <= m_sequence + Len(reqs)
  BY <1>1
<1>9. m_operation_queues_dirty' \in BOOLEAN
  BY <1>2, <1>1 DEF HeadChanged
<1> QED
  BY <1>2, <1>3, <1>5, <1>6, <1>7, <1>8, <1>9

\* Handing the head of the queue to the processor keeps the invariant: the
\* popped entry comes before all that stay, and what the processor adds is
\* younger than everything dispatched so far (dispatchOperation).
LEMMA DispatchKeepsOrder ==
    ASSUME IInv, NEW e \in m_operationQueue, IsTop(e, m_operationQueue),
           NEW by \in {"processUntil", "dispatchNextOp"},
           by = "processUntil" => e.time <= now,
           NEW reqs \in Seq(Request), Dispatch(e, by, reqs),
           now' = now, cleanHead' = cleanHead, loop' \in {"idle", "first", "again"}
    PROVE  IInv'
<1> USE BoundsAssumption
<1> DEFINE q == m_operationQueue \ {e}
           d == [time |-> e.time, sequence |-> e.sequence, at |-> now, by |-> by]
           n == Len(dispatched)
<1>1. /\ m_operationQueue \subseteq OpQueEntry
      /\ e \in OpQueEntry
      /\ m_sequence \in 0 .. MaxSequence
      /\ now \in Times
      /\ dispatched \in Seq(DispatchedEntry)
      /\ cleanHead \in 0 .. Never
  BY DEF IInv, TypeOK
<1>2. AddOperationsToQueue(q, reqs) /\ dispatched' = Append(dispatched, d)
  BY DEF Dispatch
<1>3. d \in DispatchedEntry
  BY <1>1 DEF DispatchedEntry, OpQueEntry
<1>4. /\ n \in Nat
      /\ dispatched' \in Seq(DispatchedEntry)
      /\ DOMAIN dispatched = 1 .. n
      /\ DOMAIN dispatched' = 1 .. (n + 1)
      /\ dispatched'[n + 1] = d
      /\ \A i \in 1 .. n : dispatched'[i] = dispatched[i]
  <2> HIDE DEF d
  <2> QED
    BY <1>1, <1>2, <1>3
<1>5. /\ m_operationQueue' \subseteq OpQueEntry
      /\ m_sequence' \in 0 .. MaxSequence
      /\ m_sequence <= m_sequence'
      /\ m_operation_queues_dirty' \in BOOLEAN
      /\ \A f, g \in m_operationQueue' : f.sequence = g.sequence => f = g
      /\ \A f \in m_operationQueue' : f \in q \/ f.sequence > m_sequence
      /\ \A f \in m_operationQueue' : f.sequence <= m_sequence'
      /\ ~m_operation_queues_dirty' => \A f \in m_operationQueue' : f.time >= cleanHead
  <2>1. q \subseteq m_operationQueue
    OBVIOUS
  <2> QED
    BY <2>1, <1>2, AddKeepsQueue DEF IInv
<1>6. /\ \A f \in m_operationQueue' : f.sequence \in Int /\ f.time \in Int
      /\ \A i \in 1 .. n : dispatched[i].sequence \in Int /\ dispatched[i].time \in Int
      /\ e.sequence \in Int /\ e.time \in Int
      /\ m_sequence \in Int /\ m_sequence' \in Int
  <2>1. \A f \in m_operationQueue' : f.sequence \in Int /\ f.time \in Int
    BY <1>5 DEF OpQueEntry, Times
  <2>2. \A i \in 1 .. n : dispatched[i] \in DispatchedEntry
    BY <1>1, <1>4
  <2>3. \A i \in 1 .. n : dispatched[i].sequence \in Int /\ dispatched[i].time \in Int
    BY <2>2 DEF DispatchedEntry, Times
  <2>4. e.sequence \in Int /\ e.time \in Int
    BY <1>1 DEF OpQueEntry, Times
  <2> QED
    BY <2>1, <2>3, <2>4, <1>1, <1>5
<1>7. d.sequence = e.sequence /\ d.time = e.time /\ d.at = now /\ d.by = by
  OBVIOUS
<1>8. e.sequence <= m_sequence /\ \A i \in 1 .. n : dispatched[i].sequence <= m_sequence
  BY <1>4 DEF IInv, SequencesUnique
<1>9. TypeOK'
  BY <1>1, <1>4, <1>5 DEF TypeOK
<1>10. SequencesUnique'
  <2>1. \A i \in 1 .. (n + 1) : dispatched'[i].sequence <= m_sequence'
    <3> HIDE DEF d
    <3> QED
      BY <1>4, <1>5, <1>6, <1>7, <1>8
  <2>2. ASSUME NEW i \in 1 .. (n + 1), NEW f \in m_operationQueue'
        PROVE  dispatched'[i].sequence # f.sequence
    <3>1. CASE f \in q /\ i \in 1 .. n
      <4>1. f \in m_operationQueue /\ i \in DOMAIN dispatched
        BY <3>1, <1>4
      <4> QED
        BY <3>1, <4>1, <1>4 DEF IInv, SequencesUnique
    <3>2. CASE f \in q /\ i = n + 1
      BY <3>2, <1>4, <1>7 DEF IInv, SequencesUnique
    <3>3. CASE f.sequence > m_sequence
      <4> HIDE DEF d
      <4>1. dispatched'[i].sequence <= m_sequence /\ dispatched'[i].sequence \in Int
        <5>1. CASE i \in 1 .. n
          BY <5>1, <1>4, <1>6, <1>8
        <5>2. CASE i = n + 1
          BY <5>2, <1>4, <1>6, <1>7, <1>8
        <5> QED
          BY <5>1, <5>2, <1>4
      <4>2. f.sequence \in Int /\ m_sequence \in Int
        BY <1>1, <1>6, <1>9 DEF TypeOK, OpQueEntry
      <4> QED
        BY <3>3, <4>1, <4>2
    <3> QED
      BY <3>1, <3>2, <3>3, <1>4, <1>5
  <2>3. ASSUME NEW i \in 1 .. (n + 1), NEW j \in 1 .. (n + 1),
               dispatched'[i].sequence = dispatched'[j].sequence
        PROVE  i = j
    <3>1. CASE i \in 1 .. n /\ j \in 1 .. n
      BY <3>1, <2>3, <1>4 DEF IInv, SequencesUnique
    <3>2. CASE i = n + 1 /\ j \in 1 .. n
      BY <3>2, <2>3, <1>4, <1>7 DEF IInv, SequencesUnique
    <3>3. CASE i \in 1 .. n /\ j = n + 1
      BY <3>3, <2>3, <1>4, <1>7 DEF IInv, SequencesUnique
    <3> QED
      BY <3>1, <3>2, <3>3, <1>4
  <2> QED
    BY <2>1, <2>2, <2>3, <1>4, <1>5 DEF SequencesUnique
<1>11. WaitingIsLater'
  <2>1. ASSUME NEW i \in 1 .. (n + 1), NEW f \in m_operationQueue',
               f.sequence < dispatched'[i].sequence
        PROVE  f.time > dispatched'[i].time
    <3>1. f \in q
      <4> HIDE DEF d
      <4> QED
        BY <2>1, <1>4, <1>5, <1>6, <1>7, <1>8
    <3>2. CASE i \in 1 .. n
      BY <3>1, <3>2, <2>1, <1>4 DEF IInv, WaitingIsLater
    <3>3. CASE i = n + 1
      <4>1. f.sequence < e.sequence /\ Before(e, f)
        BY <3>1, <3>3, <2>1, <1>4, <1>7 DEF IsTop
      <4> QED
        BY <4>1, <3>3, <1>4, <1>6, <1>7 DEF Before
    <3> QED
      BY <3>2, <3>3, <1>4
  <2> QED
    BY <2>1, <1>4 DEF WaitingIsLater
<1>12. NoOvertaking'
  <2>1. ASSUME NEW i \in 1 .. (n + 1), NEW j \in 1 .. (n + 1), i < j,
               dispatched'[j].sequence < dispatched'[i].sequence
        PROVE  dispatched'[j].time > dispatched'[i].time
    <3>1. i \in 1 .. n
      BY <2>1, <1>4
    <3>2. CASE j \in 1 .. n
      BY <3>1, <3>2, <2>1, <1>4 DEF IInv, NoOvertaking
    <3>3. CASE j = n + 1
      BY <3>1, <3>3, <2>1, <1>4, <1>7 DEF IInv, WaitingIsLater
    <3> QED
      BY <3>2, <3>3, <1>4
  <2> QED
    BY <2>1, <1>4 DEF NoOvertaking
<1>13. NotEarly'
  <2>1. ASSUME NEW i \in 1 .. (n + 1), dispatched'[i].by = "processUntil"
        PROVE  dispatched'[i].time <= dispatched'[i].at
    <3>1. CASE i \in 1 .. n
      BY <3>1, <2>1, <1>4 DEF IInv, NotEarly
    <3>2. CASE i = n + 1
      BY <3>2, <2>1, <1>4, <1>7
    <3> QED
      BY <3>1, <3>2, <1>4
  <2> QED
    BY <2>1, <1>4 DEF NotEarly
<1>14. NoOversleep'
  BY <1>5 DEF NoOversleep
<1> QED
  BY <1>9, <1>10, <1>11, <1>12, <1>13, <1>14 DEF IInv

-----------------------------------------------------------------------------
\* The inductive step: every operation of the dispatcher keeps the invariant.
LEMMA NextKeepsIInv == IInv /\ [Next]_vars => IInv'
<1> USE BoundsAssumption
<1> SUFFICES ASSUME IInv, [Next]_vars PROVE IInv'
  OBVIOUS
<1>1. ASSUME NEW r \in Request, AddOperationToQueue(r) PROVE IInv'
  <2>1. <<r>> \in Seq(Request) /\ AddOperationsToQueue(m_operationQueue, <<r>>)
    BY <1>1 DEF AddOperationToQueue
  <2>2. UNCHANGED <<now, loop, dispatched, cleanHead>>
    BY <1>1 DEF AddOperationToQueue
  <2>3. /\ m_operationQueue' \subseteq OpQueEntry
        /\ m_sequence' \in 0 .. MaxSequence
        /\ m_sequence <= m_sequence'
        /\ m_operation_queues_dirty' \in BOOLEAN
        /\ \A e, f \in m_operationQueue' : e.sequence = f.sequence => e = f
        /\ \A e \in m_operationQueue' : e \in m_operationQueue \/ e.sequence > m_sequence
        /\ \A e \in m_operationQueue' : e.sequence <= m_sequence'
        /\ ~m_operation_queues_dirty' => \A e \in m_operationQueue' : e.time >= cleanHead
    BY <2>1, AddKeepsQueue DEF IInv
  <2>4. /\ dispatched \in Seq(DispatchedEntry)
        /\ m_sequence \in Int /\ m_sequence' \in Int
        /\ \A e \in m_operationQueue' : e.sequence \in Int
        /\ \A i \in DOMAIN dispatched : dispatched[i].sequence \in Int
    <3>1. dispatched \in Seq(DispatchedEntry)
      BY DEF IInv, TypeOK
    <3>2. \A i \in DOMAIN dispatched : dispatched[i] \in DispatchedEntry
      BY <3>1
    <3>3. \A i \in DOMAIN dispatched : dispatched[i].sequence \in Int
      BY <3>2 DEF DispatchedEntry
    <3>4. \A e \in m_operationQueue' : e.sequence \in Int
      BY <2>3 DEF OpQueEntry
    <3>5. m_sequence \in Int /\ m_sequence' \in Int
      BY <2>3 DEF IInv, TypeOK
    <3> QED
      BY <3>1, <3>3, <3>4, <3>5
  <2>5. TypeOK'
    BY <2>2, <2>3 DEF IInv, TypeOK
  <2>6. SequencesUnique'
    <3>1. \A i \in DOMAIN dispatched : dispatched[i].sequence <= m_sequence
      BY DEF IInv, SequencesUnique
    <3>2. ASSUME NEW i \in DOMAIN dispatched, NEW e \in m_operationQueue'
          PROVE  dispatched[i].sequence # e.sequence
      <4>1. CASE e \in m_operationQueue
        BY <4>1 DEF IInv, SequencesUnique
      <4>2. CASE e.sequence > m_sequence
        BY <4>2, <3>1, <2>4
      <4> QED
        BY <4>1, <4>2, <2>3
    <3>3. \A i \in DOMAIN dispatched : dispatched[i].sequence <= m_sequence'
      BY <3>1, <2>3, <2>4
    <3> QED
      BY <3>2, <3>3, <2>2, <2>3 DEF IInv, SequencesUnique
  <2>7. WaitingIsLater'
    <3>1. ASSUME NEW i \in DOMAIN dispatched, NEW e \in m_operationQueue',
                 e.sequence < dispatched[i].sequence
          PROVE  e.time > dispatched[i].time
      <4>1. e \in m_operationQueue
        BY <3>1, <2>3, <2>4 DEF IInv, SequencesUnique
      <4> QED
        BY <4>1, <3>1 DEF IInv, WaitingIsLater
    <3> QED
      BY <3>1, <2>2 DEF WaitingIsLater
  <2>8. NoOvertaking' /\ NotEarly'
    BY <2>2 DEF IInv, NoOvertaking, NotEarly
  <2>9. NoOversleep'
    BY <2>2, <2>3 DEF NoOversleep
  <2> QED
    BY <2>5, <2>6, <2>7, <2>8, <2>9 DEF IInv
<1>2. ASSUME NEW e \in m_operationQueue, NEW reqs \in Results, DispatchDue(e, reqs)
      PROVE  IInv'
  <2>1. reqs \in Seq(Request)
    BY ResultsAreRequests
  <2>2. /\ IsTop(e, m_operationQueue) /\ e.time <= now
        /\ Dispatch(e, "processUntil", reqs)
        /\ loop' \in {"idle", "first", "again"} /\ now' = now /\ cleanHead' = cleanHead
    BY <1>2 DEF DispatchDue
  <2> QED
    BY <2>1, <2>2, DispatchKeepsOrder
<1>3. ASSUME NEW e \in m_operationQueue, NEW reqs \in Results, DispatchNextOp(e, reqs)
      PROVE  IInv'
  <2>1. reqs \in Seq(Request)
    BY ResultsAreRequests
  <2>2. /\ IsTop(e, m_operationQueue)
        /\ Dispatch(e, "dispatchNextOp", reqs)
        /\ now' = now /\ cleanHead' = cleanHead
        /\ loop' \in {"idle", "first", "again"}
    BY <1>3 DEF DispatchNextOp
  <2>3. "dispatchNextOp" # "processUntil"
    OBVIOUS
  <2> QED
    BY <2>1, <2>2, <2>3, DispatchKeepsOrder
<1>4. ASSUME NEW t \in 0 .. Never, MarkQueueAsClean(t) PROVE IInv'
  <2>1. /\ cleanHead' = t /\ IsNextTime(t) /\ m_operation_queues_dirty' = FALSE
        /\ UNCHANGED <<m_operationQueue, m_sequence, now, loop, dispatched>>
    BY <1>4 DEF MarkQueueAsClean
  <2>2. NoOversleep'
    <3>1. \A f \in m_operationQueue : f.time >= t
      <4>1. \A f \in m_operationQueue : f.time \in Int
        BY DEF IInv, TypeOK, OpQueEntry, Times
      <4> QED
        BY <4>1, <2>1 DEF IsNextTime, IsTop, Before
    <3> QED
      BY <3>1, <2>1 DEF NoOversleep
  <2>3. TypeOK'
    BY <2>1 DEF IInv, TypeOK
  <2> QED
    BY <2>1, <2>2, <2>3
       DEF IInv, SequencesUnique, WaitingIsLater, NoOvertaking, NotEarly
<1>5. CASE ClearQueues
  BY <1>5 DEF ClearQueues, IInv, TypeOK, SequencesUnique, WaitingIsLater, NoOvertaking,
              NotEarly, NoOversleep
<1>6. CASE Tick
  <2>1. now' \in Times
    BY <1>6 DEF Tick, IInv, TypeOK, Times
  <2> QED
    BY <1>6, <2>1 DEF Tick, IInv, TypeOK, SequencesUnique, WaitingIsLater, NoOvertaking,
                      NotEarly, NoOversleep
<1>7. CASE ProcessUntil \/ EndProcessUntil
  BY <1>7 DEF ProcessUntil, EndProcessUntil, IInv, TypeOK, SequencesUnique,
              WaitingIsLater, NoOvertaking, NotEarly, NoOversleep
<1>8. CASE UNCHANGED vars
  BY <1>8 DEF vars, IInv, TypeOK, SequencesUnique, WaitingIsLater, NoOvertaking,
              NotEarly, NoOversleep
<1> QED
  BY <1>1, <1>2, <1>3, <1>4, <1>5, <1>6, <1>7, <1>8 DEF Next

\* An empty dispatcher satisfies the invariant.
LEMMA InitIInv == Init => IInv
<1> SUFFICES ASSUME Init PROVE IInv
  OBVIOUS
<1>1. TypeOK
  <2>1. dispatched \in Seq(DispatchedEntry)
    BY DEF Init
  <2>2. /\ m_sequence \in 0 .. MaxSequence
        /\ now \in Times
        /\ cleanHead \in 0 .. Never
    BY BoundsAssumption DEF Init, Times, Never
  <2> QED
    BY <2>1, <2>2 DEF Init, TypeOK
<1> QED
  BY <1>1 DEF Init, IInv, SequencesUnique, WaitingIsLater, NoOvertaking, NotEarly, NoOversleep

\* The dispatcher's fields keep their types in every behaviour.
THEOREM TypeCorrect == Spec => []TypeOK
<1>1. IInv => TypeOK
  BY DEF IInv
<1> QED
  BY InitIInv, NextKeepsIInv, <1>1, PTL DEF Spec

\* Operations are dispatched in the order (time, arrival) whatever the
\* processors do to the queue while it is worked off, never twice and, by
\* processUntil(), never early.
THEOREM DispatchOrder == Spec => []DispatchInv
<1>1. IInv => DispatchInv
  BY DEF IInv, DispatchInv
<1> QED
  BY InitIInv, NextKeepsIInv, <1>1, PTL DEF Spec

\* A clean queue holds nothing that is due before the head its user last saw.
THEOREM DirtyFlagSound == Spec => []NoOversleep
<1>1. IInv => NoOversleep
  BY DEF IInv
<1> QED
  BY InitIInv, NextKeepsIInv, <1>1, PTL DEF Spec

-----------------------------------------------------------------------------
(* The main loop *)

\* Every step of the loop is a step of the dispatcher or leaves it alone.
LEMMA LoopStep == [LoopNext]_loopVars => [Next]_vars
<1> SUFFICES ASSUME [LoopNext]_loopVars PROVE [Next]_vars
  OBVIOUS
<1>1. CASE UNCHANGED loopVars
  BY <1>1 DEF loopVars
<1>2. CASE StartFrame
  BY <1>2 DEF StartFrame, Next
<1>3. CASE \E r \in Request : DispatchIncoming(r)
  BY <1>3 DEF DispatchIncoming, Next
<1>4. CASE StartProcessing
  BY <1>4 DEF StartProcessing, Next
<1>5. CASE \E e \in m_operationQueue, reqs \in Results : ProcessOne(e, reqs)
  BY <1>5 DEF ProcessOne, Next
<1>6. CASE StopProcessing
  BY <1>6 DEF StopProcessing, Next
<1>7. CASE IOHandler
  BY <1>7 DEF IOHandler, Receive, SoftSignal, HardSignal, SoftExitTimeout
<1>8. CASE FrameTimer \/ (\E answer \in PollAnswers : ExitCheck(answer)) \/ LeaveLoop
  BY <1>8 DEF FrameTimer, ExitCheck, LeaveLoop
<1>9. CASE Shutdown
  BY <1>9 DEF Shutdown, StoreShutdown, DisconnectAllConnections, WorldShutdown, Next
<1> QED
  BY <1>1, <1>2, <1>3, <1>4, <1>5, <1>6, <1>7, <1>8, <1>9 DEF LoopNext, loopVars

\* The main loop implements what its queue promises: however frames, I/O, signals and the
\* shutdown follow each other, the dispatcher is only used in ways its own specification
\* has, so that operations leave it in order, once and never early (MainLoop::run).
THEOREM LoopDrivesDispatcher == LoopSpec => Spec
<1>1. LoopInit => Init
  BY DEF LoopInit
<1> QED
  BY <1>1, LoopStep, PTL DEF LoopSpec, Spec

\* What is added in front of a queued operation is stamped strictly earlier: its
\* sequence number is above every number given out before.
LEMMA AddedInFront ==
    ASSUME IInv, NEW q, q \subseteq m_operationQueue, NEW reqs \in Seq(Request),
           AddOperationsToQueue(q, reqs),
           NEW f \in m_operationQueue, NEW e \in Ahead(f)' \ Ahead(f)
    PROVE  e.time < f.time
<1>1. e \in m_operationQueue' /\ e \notin m_operationQueue /\ Before(e, f)
  BY DEF Ahead
<1>2. m_operationQueue' = WithAdded(q, reqs) /\ m_sequence + Len(reqs) <= MaxSequence
  BY DEF AddOperationsToQueue
<1>3. /\ q \subseteq OpQueEntry /\ m_sequence \in 0 .. MaxSequence /\ f \in OpQueEntry
      /\ f.sequence <= m_sequence
  BY DEF IInv, TypeOK, SequencesUnique
<1>4. e \in OpQueEntry /\ e.sequence > m_sequence
  BY <1>1, <1>2, <1>3, AddedEntries
<1>5. e.sequence \in Int /\ f.sequence \in Int /\ m_sequence \in Int
  BY <1>3, <1>4 DEF OpQueEntry
<1>6. ~ (e.sequence < f.sequence)
  BY <1>3, <1>4, <1>5
<1> QED
  BY <1>1, <1>6 DEF Before

\* Operations for the same time are never reordered once they are queued: only what is
\* stamped strictly earlier gets in front, from clients or from the operations that are
\* handled (MainLoop::run, addOperationToQueue).
THEOREM OvertakenOnlyByEarlier == LoopSpec => OnlyEarlierOvertake
<1> DEFINE Step == \A f \in m_operationQueue \cap m_operationQueue' :
                      \A e \in Ahead(f)' \ Ahead(f) : e.time < f.time
<1>1. LoopInit => IInv
  BY InitIInv DEF LoopInit
<1>2. IInv /\ [LoopNext]_loopVars => IInv'
  BY LoopStep, NextKeepsIInv
<1>3. IInv /\ [LoopNext]_loopVars => [Step]_loopVars
  <2> SUFFICES ASSUME IInv, LoopNext, NEW f \in m_operationQueue \cap m_operationQueue',
                      NEW e \in Ahead(f)' \ Ahead(f)
               PROVE  e.time < f.time
    BY DEF loopVars
  <2>1. CASE \E r \in Request : DispatchIncoming(r)
    <3>1. PICK r \in Request : DispatchIncoming(r)
      BY <2>1
    <3>2. <<r>> \in Seq(Request) /\ AddOperationsToQueue(m_operationQueue, <<r>>)
      BY <3>1 DEF DispatchIncoming, AddOperationToQueue
    <3> QED
      BY <3>2, AddedInFront
  <2>2. CASE \E d \in m_operationQueue, reqs \in Results : ProcessOne(d, reqs)
    <3>1. PICK d \in m_operationQueue, reqs \in Results : ProcessOne(d, reqs)
      BY <2>2
    <3>2. AddOperationsToQueue(m_operationQueue \ {d}, reqs)
      BY <3>1 DEF ProcessOne, DispatchDue, Dispatch
    <3>3. reqs \in Seq(Request) /\ m_operationQueue \ {d} \subseteq m_operationQueue
      BY ResultsAreRequests
    <3> QED
      BY <3>2, <3>3, AddedInFront
  <2>3. CASE ~ (\E r \in Request : DispatchIncoming(r))
             /\ ~ (\E d \in m_operationQueue, reqs \in Results : ProcessOne(d, reqs))
    <3>1. CASE StartFrame \/ StartProcessing \/ StopProcessing
      BY <3>1 DEF StartFrame, StartProcessing, StopProcessing, Tick, ProcessUntil, EndProcessUntil, vars, Ahead
    <3>2. CASE IOHandler \/ FrameTimer \/ (\E answer \in PollAnswers : ExitCheck(answer)) \/ LeaveLoop
      BY <3>2 DEF IOHandler, Receive, SoftSignal, HardSignal, SoftExitTimeout, FrameTimer, ExitCheck,
                  LeaveLoop, vars, Ahead
    <3>3. CASE Shutdown
      BY <3>3 DEF Shutdown, StoreShutdown, DisconnectAllConnections, WorldShutdown, ClearQueues, vars, Ahead
    <3>4. CASE UNCHANGED loopVars
      BY <3>4 DEF loopVars, vars, Ahead
    <3> QED
      BY <2>3, <3>1, <3>2, <3>3, <3>4 DEF LoopNext
  <2> QED
    BY <2>1, <2>2, <2>3
<1> QED
  BY <1>1, <1>2, <1>3, PTL DEF LoopSpec, OnlyEarlierOvertake

=============================================================================
