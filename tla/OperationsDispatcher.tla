------------------------ MODULE OperationsDispatcher ------------------------
(***************************************************************************)
(* The time-ordered operation queue of cyphesis                            *)
(* (src/common/OperationsDispatcher.h and OperationsDispatcher_impl.h).    *)
(*                                                                         *)
(* One thread owns a dispatcher.  Operations are added with an absolute    *)
(* dispatch time and a fresh sequence number; processUntil() pops the      *)
(* entries that are due, least (time, sequence) first, and hands each one  *)
(* to an operation processor.  The processor may itself add operations to  *)
(* the queue it is being called from, and it may stop the loop from going  *)
(* on by using up the wall clock allowance.  Here the processor is left    *)
(* open: it adds any sequence of operations, with any dispatch times.      *)
(* WorldRouter instantiates this module with the real one.                 *)
(***************************************************************************)
EXTENDS Integers, Sequences, FiniteSets

CONSTANTS
    Ops,          \* what an operation says, apart from its time
    Senders,      \* the entities operations are sent from
    MaxTime,      \* bound: no operation is later than this, in ticks
    MaxSequence,  \* bound on m_sequence
    MaxResults    \* bound: how many operations one processor call adds

ASSUME BoundsAssumption ==
    /\ MaxTime \in Nat
    /\ MaxSequence \in Nat
    /\ MaxResults \in Nat

VARIABLES
    m_operationQueue,          \* the priority queue, a set of OpQueEntry
    m_sequence,                \* the last sequence number given out
    m_operation_queues_dirty,  \* set when the head of the queue changed
    now,                       \* what m_timeProviderFn returns
    loop,                      \* where the thread is with regard to processUntil()
    dispatched,                \* history: what was handed to the processor, in order
    cleanHead                  \* history: the head's time when last marked as clean

vars == <<m_operationQueue, m_sequence, m_operation_queues_dirty, now, loop,
          dispatched, cleanHead>>

Times == 0 .. MaxTime

\* The time until the next operation of an empty queue: later than every other.
Never == MaxTime + 1

\* An operation on its way into the queue: "seconds" is already set on it.
Request == [op : Ops, from : Senders, time : Times]

OpQueEntry == [op : Ops, from : Senders, time : Times, sequence : 1 .. MaxSequence]

\* What is remembered of a dispatched operation: its entry, the time it was
\* dispatched at and the operation of the dispatcher that did so.
DispatchedEntry == [time : Times, sequence : 1 .. MaxSequence, at : Times,
                    by : {"processUntil", "dispatchNextOp"}]

\* Mutant: entries of the same time are not told apart by their sequence.
Before_TimeOnly(e, f) == e.time <= f.time

\* std::greater on OpQueEntry: time first, then the order of arrival.
Before(e, f) ==
    \/ e.time < f.time
    \/ e.time = f.time /\ e.sequence < f.sequence

\* e is m_operationQueue.top() of the queue q.
IsTop(e, q) == e \in q /\ \A f \in q \ {e} : Before(e, f)

\* timeUntilNextOp(), as an absolute time.
IsNextTime(t) ==
    \/ m_operationQueue = {} /\ t = Never
    \/ \E e \in m_operationQueue : IsTop(e, m_operationQueue) /\ t = e.time

\* The entry made for the i-th of a batch of requests.
Stamped(r, s) == [op |-> r.op, from |-> r.from, time |-> r.time, sequence |-> s]

\* The queue after the requests reqs were added to q one after the other.
WithAdded(q, reqs) ==
    q \cup {Stamped(reqs[i], m_sequence + i) : i \in DOMAIN reqs}

\* Mutant: only the first operation of an empty queue makes it dirty.
HeadChanged_WhenEmpty(q, reqs) == q = {} /\ reqs # <<>>

\* Adding reqs to q moved the head at least once: the one that moved it
\* comes before everything that was queued already.
HeadChanged(q, reqs) ==
    \E i \in DOMAIN reqs : \A f \in q : Before(Stamped(reqs[i], m_sequence + i), f)

\* addOperationToQueue(), once per request.  The queue it starts from is q: the
\* processor is called after the entry it handles was popped.
AddOperationsToQueue(q, reqs) ==
    /\ m_sequence + Len(reqs) <= MaxSequence
    /\ m_operationQueue' = WithAdded(q, reqs)
    /\ m_sequence' = m_sequence + Len(reqs)
    /\ m_operation_queues_dirty' = (m_operation_queues_dirty \/ HeadChanged(q, reqs))

\* What the processor may add to the queue in one call.
Results == UNION {[1 .. n -> Request] : n \in 0 .. MaxResults}

\* The head is popped before it is dispatched, since dispatching alters the queue.
Dispatch(e, by, reqs) ==
    /\ AddOperationsToQueue(m_operationQueue \ {e}, reqs)
    /\ dispatched' = Append(dispatched,
                            [time |-> e.time, sequence |-> e.sequence, at |-> now, by |-> by])

-----------------------------------------------------------------------------
Init ==
    /\ m_operationQueue = {}
    /\ m_sequence = 0
    /\ m_operation_queues_dirty = FALSE
    /\ now = 0
    /\ loop = "idle"
    /\ dispatched = <<>>
    /\ cleanHead = 0

\* addOperationToQueue() called from outside the processing of another operation.
AddOperationToQueue(r) ==
    /\ loop = "idle"
    /\ AddOperationsToQueue(m_operationQueue, <<r>>)
    /\ UNCHANGED <<now, loop, dispatched, cleanHead>>

\* processUntil(now, ...) is entered: the do-loop promises one iteration.
ProcessUntil ==
    /\ loop = "idle"
    /\ loop' = "first"
    /\ UNCHANGED <<m_operationQueue, m_sequence, m_operation_queues_dirty, now,
                   dispatched, cleanHead>>

OpsAvailable == \E e \in m_operationQueue : e.time <= now

\* One turn of the do-loop: the head is due and is dispatched.
DispatchDue(e, reqs) ==
    /\ loop # "idle"
    /\ IsTop(e, m_operationQueue)
    /\ e.time <= now
    /\ Dispatch(e, "processUntil", reqs)
    /\ loop' = "again"
    /\ UNCHANGED <<now, cleanHead>>

\* Mutant: a while-loop, which may end before its first turn.
EndProcessUntil_While ==
    /\ loop # "idle"
    /\ loop' = "idle"
    /\ UNCHANGED <<m_operationQueue, m_sequence, m_operation_queues_dirty, now,
                   dispatched, cleanHead>>

\* The loop ends: nothing is due, or one turn was made and the wall clock ran out.
EndProcessUntil ==
    /\ loop # "idle"
    /\ ~OpsAvailable \/ loop = "again"
    /\ loop' = "idle"
    /\ UNCHANGED <<m_operationQueue, m_sequence, m_operation_queues_dirty, now,
                   dispatched, cleanHead>>

\* dispatchNextOp(): the head is dispatched whether it is due or not.
DispatchNextOp(e, reqs) ==
    /\ loop = "idle"
    /\ IsTop(e, m_operationQueue)
    /\ Dispatch(e, "dispatchNextOp", reqs)
    /\ UNCHANGED <<now, loop, cleanHead>>

\* A user reads timeUntilNextOp() and calls markQueueAsClean().
MarkQueueAsClean(t) ==
    /\ loop = "idle"
    /\ IsNextTime(t)
    /\ m_operation_queues_dirty' = FALSE
    /\ cleanHead' = t
    /\ UNCHANGED <<m_operationQueue, m_sequence, now, loop, dispatched>>

\* clearQueues()
ClearQueues ==
    /\ loop = "idle"
    /\ m_operationQueue' = {}
    /\ UNCHANGED <<m_sequence, m_operation_queues_dirty, now, loop, dispatched, cleanHead>>

\* The clock behind m_timeProviderFn moves; it never moves while an op is handled.
Tick ==
    /\ loop = "idle"
    /\ now < MaxTime
    /\ now' = now + 1
    /\ UNCHANGED <<m_operationQueue, m_sequence, m_operation_queues_dirty, loop,
                   dispatched, cleanHead>>

Next ==
    \/ \E r \in Request : AddOperationToQueue(r)
    \/ ProcessUntil
    \/ \E e \in m_operationQueue, reqs \in Results : DispatchDue(e, reqs)
    \/ EndProcessUntil
    \/ \E e \in m_operationQueue, reqs \in Results : DispatchNextOp(e, reqs)
    \/ \E t \in 0 .. Never : MarkQueueAsClean(t)
    \/ ClearQueues
    \/ Tick

Spec == Init /\ [][Next]_vars

-----------------------------------------------------------------------------
\* The type of every variable: what the dispatcher's fields can hold.
TypeOK ==
    /\ m_operationQueue \subseteq OpQueEntry
    /\ m_sequence \in 0 .. MaxSequence
    /\ m_operation_queues_dirty \in BOOLEAN
    /\ now \in Times
    /\ loop \in {"idle", "first", "again"}
    /\ dispatched \in Seq(DispatchedEntry)
    /\ cleanHead \in 0 .. Never

\* Sequence numbers identify operations: no two entries, queued or already
\* dispatched, share one, so an operation is handed over at most once.
SequencesUnique ==
    /\ \A e, f \in m_operationQueue : e.sequence = f.sequence => e = f
    /\ \A e \in m_operationQueue : e.sequence <= m_sequence
    /\ \A i \in DOMAIN dispatched : dispatched[i].sequence <= m_sequence
    /\ \A i \in DOMAIN dispatched, e \in m_operationQueue :
          dispatched[i].sequence # e.sequence
    /\ \A i, j \in DOMAIN dispatched :
          dispatched[i].sequence = dispatched[j].sequence => i = j

\* The queue half of NoOvertaking: an entry still waiting although it arrived
\* before one that was already dispatched is due strictly later than that one.
WaitingIsLater ==
    \A i \in DOMAIN dispatched, e \in m_operationQueue :
        e.sequence < dispatched[i].sequence => e.time > dispatched[i].time

\* Operations never overtake each other: if an operation was added before
\* another and was not due later, then it is dispatched before it, although
\* processors add operations to the very queue that is being worked off.
NoOvertaking ==
    \A i, j \in DOMAIN dispatched :
        (i < j /\ dispatched[j].sequence < dispatched[i].sequence)
            => dispatched[j].time > dispatched[i].time

\* processUntil() never hands over an operation before its time has come.
NotEarly ==
    \A i \in DOMAIN dispatched :
        dispatched[i].by = "processUntil" => dispatched[i].time <= dispatched[i].at

\* Operations are dispatched in the order (time, arrival), each at most once and,
\* by processUntil(), never early, although processors add to the queue.
DispatchInv == SequencesUnique /\ WaitingIsLater /\ NoOvertaking /\ NotEarly

\* isQueueDirty() can be trusted by a user that sleeps until the head's time
\* as it was when the queue was last marked as clean: while the flag is down
\* no queued operation is due earlier than that.
NoOversleep ==
    ~m_operation_queues_dirty => \A e \in m_operationQueue : e.time >= cleanHead

=============================================================================
