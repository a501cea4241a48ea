------------------------- MODULE SQLiteQueueProofs -------------------------
(***************************************************************************)
(* Proofs about the worker thread of DatabaseSQLite for every set of       *)
(* commands and every number of them and of spurious wake-ups: the type    *)
(* invariant, what a caller of blockUntilAllQueriesComplete() and of the   *)
(* destructor can rely on, and that the queue implements CommandLog.       *)
(***************************************************************************)
EXTENDS SQLiteQueue, TLAPS

\* With an empty queue everything has run.
LEMMA EmptyMeansDone ==
    ASSUME Inv, Len(pendingQueries) = 0
    PROVE  executed = issued
<1>1. worker # "popping"
  BY DEF Inv, TypeOK, FrontMoved, InHand
<1>2. Len(issued) = Len(executed)
  BY <1>1 DEF Inv, TypeOK, LogInv, Popped
<1>3. executed \in Seq(Commands) /\ issued \in Seq(Commands)
  BY DEF Inv, TypeOK
<1>4. \A i \in 1 .. Len(executed) : executed[i] = issued[i]
  BY DEF Inv, LogInv
<1> QED
  BY <1>2, <1>3, <1>4

\* The state the constructor leaves.
LEMMA InitInv == Init => Inv
<1> SUFFICES ASSUME Init PROVE Inv
  OBVIOUS
<1> USE QueueAssumption DEF Init
<1>1. FrontMoved
  BY DEF FrontMoved, InHand
<1>2. TypeOK
  <2>1. /\ pendingQueries \in Seq(Commands \cup {Moved})
        /\ Len(pendingQueries) <= MaxCommands
        /\ spurious \in 0 .. MaxSpurious
        /\ issued \in Seq(Commands)
        /\ executed \in Seq(Commands)
    OBVIOUS
  <2>2. worker \in WorkerStates /\ main \in MainStates
    BY DEF WorkerStates, MainStates
  <2> QED
    BY <1>1, <2>1, <2>2 DEF TypeOK
<1>3. LogInv
  BY DEF LogInv, Popped
<1>4. EndInv
  BY DEF EndInv
<1> QED
  BY <1>2, <1>3, <1>4 DEF Inv

\* scheduleCommand() extends the log and the queue alike.
LEMMA ScheduleInv ==
    ASSUME Inv, NEW c \in Commands, ScheduleCommand(c)
    PROVE  Inv'
<1> DEFINE p == Len(pendingQueries)
           n == Len(issued)
           x == Len(executed)
<1>1. /\ main = "idle" /\ main' = "scheduled"
      /\ worker' = worker /\ command' = command /\ executed' = executed
      /\ m_active' = m_active /\ spurious' = spurious /\ woken' = woken
  BY DEF ScheduleCommand, workerVars
<1>2. p \in Nat /\ n \in Nat /\ x \in Nat /\ Popped \in Nat /\ n < MaxCommands
  BY DEF ScheduleCommand, Inv, TypeOK, LogInv, Popped
<1>3. /\ Len(issued') = n + 1 /\ issued' \in Seq(Commands)
      /\ \A i \in 1 .. n : issued'[i] = issued[i]
      /\ issued'[n + 1] = c
  BY DEF ScheduleCommand, Inv, TypeOK
<1>4. /\ Len(pendingQueries') = p + 1 /\ pendingQueries' \in Seq(Commands \cup {Moved})
      /\ \A i \in 1 .. p : pendingQueries'[i] = pendingQueries[i]
      /\ pendingQueries'[p + 1] = c
  BY DEF ScheduleCommand, Inv, TypeOK
<1>5. n = Popped + p /\ Popped' = Popped
  BY <1>1 DEF Popped, Inv, LogInv
<1>6. InHand => p > 0
  BY DEF Inv, TypeOK, FrontMoved
<1>7. x <= n /\ (worker = "running" => x + 1 <= n)
  <2>1. CASE worker = "popping"
    <3>1. Popped = x - 1 /\ p > 0
      BY <1>6, <2>1 DEF Popped, InHand
    <3> QED
      BY <1>2, <1>5, <2>1, <3>1
  <2>2. CASE worker # "popping"
    <3>1. Popped = x /\ (worker = "running" => p > 0)
      BY <1>6, <2>2 DEF Popped, InHand
    <3> QED
      BY <1>2, <1>5, <3>1
  <2> QED
    BY <2>1, <2>2
<1>8. FrontMoved'
  <2>1. InHand' = InHand
    BY <1>1 DEF InHand
  <2>2. ASSUME NEW i \in 1 .. p + 1
        PROVE  (pendingQueries'[i] = Moved) <=> (i = 1 /\ InHand)
    <3>1. CASE i \in 1 .. p
      <4>1. pendingQueries'[i] = pendingQueries[i]
        BY <1>4, <3>1
      <4> QED
        BY <3>1, <4>1 DEF Inv, TypeOK, FrontMoved
    <3>2. CASE i = p + 1
      <4>1. pendingQueries'[i] # Moved
        BY <1>4, <3>2, QueueAssumption
      <4>2. i = 1 => ~InHand
        BY <1>2, <1>6, <3>2
      <4> QED
        BY <4>1, <4>2
    <3> QED
      BY <1>2, <3>1, <3>2
  <2>3. InHand => p + 1 > 0 /\ command \in Commands
    BY <1>2 DEF Inv, TypeOK, FrontMoved
  <2> QED
    BY <1>1, <1>4, <2>1, <2>2, <2>3 DEF FrontMoved
<1>9. TypeOK'
  <2>1. Len(pendingQueries') <= MaxCommands
    BY <1>2, <1>4, <1>5, QueueAssumption
  <2> QED
    BY <1>1, <1>3, <1>4, <1>8, <2>1 DEF Inv, TypeOK, MainStates
<1>10. LogInv'
  <2>1. \A i \in 1 .. x : executed[i] = issued'[i]
    BY <1>2, <1>3, <1>7 DEF Inv, LogInv
  <2>2. worker = "running" => command = issued'[x + 1]
    BY <1>2, <1>3, <1>7 DEF Inv, LogInv
  <2>3. ASSUME NEW i \in 1 .. p + 1, pendingQueries'[i] # Moved
        PROVE  pendingQueries'[i] = issued'[Popped + i]
    <3>1. CASE i \in 1 .. p
      <4>1. Popped + i \in 1 .. n
        BY <1>2, <1>5, <3>1
      <4>2. pendingQueries'[i] = pendingQueries[i] /\ issued'[Popped + i] = issued[Popped + i]
        BY <1>3, <1>4, <3>1, <4>1
      <4> QED
        BY <2>3, <3>1, <4>2 DEF Inv, LogInv
    <3>2. CASE i = p + 1
      <4>1. Popped + i = n + 1
        BY <1>2, <1>5, <3>2
      <4> QED
        BY <1>3, <1>4, <3>2, <4>1
    <3> QED
      BY <1>2, <3>1, <3>2
  <2>4. n + 1 <= MaxCommands /\ n + 1 = Popped + (p + 1) /\ Popped >= 0
    BY <1>2, <1>5, QueueAssumption
  <2> QED
    BY <1>1, <1>3, <1>4, <1>5, <2>1, <2>2, <2>3, <2>4 DEF LogInv
<1>11. EndInv'
  BY <1>1 DEF Inv, TypeOK, EndInv
<1> QED
  BY <1>9, <1>10, <1>11 DEF Inv

\* The worker takes the front of the queue: its place in the queue stays.
LEMMA TakeInv ==
    ASSUME Inv, WorkerTake
    PROVE  Inv'
<1> DEFINE p == Len(pendingQueries)
<1>1. /\ worker = "locking" /\ worker' = "running"
      /\ main' = main /\ m_active' = m_active /\ spurious' = spurious /\ woken' = woken
      /\ issued' = issued /\ executed' = executed
  BY DEF WorkerTake
<1>2. p \in Nat /\ p > 0
  BY DEF WorkerTake, Inv, TypeOK
<1>3. command' = pendingQueries[1]
  BY DEF WorkerTake, Inv, TypeOK
<1>4. /\ pendingQueries' \in Seq(Commands \cup {Moved}) /\ Len(pendingQueries') = p
      /\ pendingQueries'[1] = Moved
      /\ \A i \in 2 .. p : pendingQueries'[i] = pendingQueries[i]
  BY <1>2 DEF WorkerTake, Inv, TypeOK
<1>5. \A i \in 1 .. p : pendingQueries[i] \in Commands
  BY <1>1 DEF Inv, TypeOK, FrontMoved, InHand
<1>6. command' \in Commands
  BY <1>2, <1>3, <1>5
<1>7. FrontMoved'
  <2>1. InHand'
    BY <1>1 DEF InHand
  <2>2. ASSUME NEW i \in 1 .. p
        PROVE  (pendingQueries'[i] = Moved) <=> (i = 1)
    <3>1. CASE i = 1
      BY <1>4, <3>1
    <3>2. CASE i \in 2 .. p
      BY <1>4, <1>5, <3>2, QueueAssumption
    <3> QED
      BY <1>2, <3>1, <3>2
  <2> QED
    BY <1>2, <1>4, <1>6, <2>1, <2>2 DEF FrontMoved
<1>8. TypeOK'
  BY <1>1, <1>4, <1>7 DEF Inv, TypeOK, WorkerStates
<1>9. LogInv'
  <2>1. Popped' = Len(executed) /\ Popped = Len(executed)
    BY <1>1 DEF Popped
  <2>2. pendingQueries[1] = issued[Len(executed) + 1]
    BY <1>1, <1>2, <1>5, <2>1, QueueAssumption DEF Inv, LogInv
  <2>3. ASSUME NEW i \in 1 .. p, pendingQueries'[i] # Moved
        PROVE  pendingQueries'[i] = issued[Len(executed) + i]
    <3>1. i \in 2 .. p
      BY <1>2, <1>4, <2>3
    <3> QED
      BY <1>4, <1>5, <2>1, <3>1, QueueAssumption DEF Inv, LogInv
  <2>4. /\ Len(issued) <= MaxCommands
        /\ Len(issued) = Len(executed) + p /\ Len(executed) >= 0
        /\ \A i \in 1 .. Len(executed) : executed[i] = issued[i]
    BY <2>1 DEF Inv, LogInv
  <2> QED
    BY <1>1, <1>3, <1>4, <2>1, <2>2, <2>3, <2>4 DEF LogInv
<1>10. EndInv'
  BY <1>1, <1>2, <1>4 DEF Inv, EndInv
<1> QED
  BY <1>8, <1>9, <1>10 DEF Inv

\* Running the command in hand extends the log by what was scheduled next.
LEMMA RunInv ==
    ASSUME Inv, WorkerRun
    PROVE  Inv'
<1> DEFINE p == Len(pendingQueries)
           x == Len(executed)
<1>1. /\ worker = "running" /\ worker' = "popping" /\ command' = command
      /\ main' = main /\ m_active' = m_active /\ spurious' = spurious /\ woken' = woken
      /\ issued' = issued /\ pendingQueries' = pendingQueries
  BY DEF WorkerRun
<1>2. x \in Nat /\ command \in Commands
  BY <1>1 DEF Inv, TypeOK, FrontMoved, InHand
<1>3. /\ executed' \in Seq(Commands) /\ Len(executed') = x + 1
      /\ \A i \in 1 .. x : executed'[i] = executed[i]
      /\ executed'[x + 1] = command
  BY <1>2 DEF WorkerRun, Inv, TypeOK
<1>4. FrontMoved'
  BY <1>1 DEF Inv, TypeOK, FrontMoved, InHand
<1>5. TypeOK'
  BY <1>1, <1>3, <1>4 DEF Inv, TypeOK, WorkerStates
<1>6. LogInv'
  <2>1. Popped = x /\ Popped' = (x + 1) - 1
    BY <1>1, <1>3 DEF Popped
  <2>2. Popped' = Popped
    BY <1>2, <2>1
  <2>3. command = issued[x + 1]
    BY <1>1 DEF Inv, LogInv
  <2>4. ASSUME NEW i \in 1 .. x + 1 PROVE executed'[i] = issued[i]
    <3>1. CASE i \in 1 .. x
      BY <1>3, <3>1 DEF Inv, LogInv
    <3>2. CASE i = x + 1
      BY <1>3, <2>3, <3>2
    <3> QED
      BY <1>2, <3>1, <3>2
  <2> QED
    BY <1>1, <1>3, <2>2, <2>4 DEF Inv, LogInv
<1>7. EndInv'
  BY <1>1 DEF Inv, EndInv
<1> QED
  BY <1>5, <1>6, <1>7 DEF Inv

\* The command that has run leaves the queue.
LEMMA PopInv ==
    ASSUME Inv, WorkerPop
    PROVE  Inv'
<1> DEFINE p == Len(pendingQueries)
           x == Len(executed)
<1>1. /\ worker = "popping" /\ worker' = "locking"
      /\ main' = main /\ m_active' = m_active /\ spurious' = spurious /\ woken' = woken
      /\ issued' = issued /\ executed' = executed
  BY DEF WorkerPop
<1>2. p \in Nat /\ p > 0 /\ x \in Nat
  BY <1>1 DEF Inv, TypeOK, FrontMoved, InHand
<1>3. /\ pendingQueries' \in Seq(Commands \cup {Moved}) /\ Len(pendingQueries') = p - 1
      /\ \A i \in 1 .. p - 1 : pendingQueries'[i] = pendingQueries[i + 1]
  <2>1. pendingQueries # <<>>
    BY <1>2
  <2> QED
    BY <1>2, <2>1 DEF WorkerPop, Inv, TypeOK
<1>4. ASSUME NEW i \in 1 .. p - 1 PROVE pendingQueries'[i] # Moved
  <2>1. i + 1 \in 1 .. p /\ i + 1 # 1
    BY <1>2
  <2> QED
    BY <1>3, <2>1 DEF Inv, TypeOK, FrontMoved
<1>5. FrontMoved'
  BY <1>1, <1>3, <1>4 DEF FrontMoved, InHand
<1>6. TypeOK'
  <2>1. p - 1 <= MaxCommands
    BY <1>2, QueueAssumption DEF Inv, TypeOK
  <2> QED
    BY <1>1, <1>3, <1>5, <2>1 DEF Inv, TypeOK, WorkerStates
<1>7. LogInv'
  <2>1. Popped = x - 1 /\ Popped' = x
    BY <1>1 DEF Popped
  <2>2. Len(issued) = x + (p - 1) /\ Len(issued) <= MaxCommands
    BY <1>2, <2>1 DEF Inv, LogInv
  <2>3. ASSUME NEW i \in 1 .. p - 1
        PROVE  pendingQueries'[i] = issued[x + i]
    <3>1. i + 1 \in 1 .. p /\ pendingQueries[i + 1] # Moved
      BY <1>2, <1>3, <1>4
    <3>2. pendingQueries[i + 1] = issued[Popped + (i + 1)]
      BY <3>1 DEF Inv, LogInv
    <3>3. Popped + (i + 1) = x + i
      BY <1>2, <2>1
    <3> QED
      BY <1>3, <3>2, <3>3
  <2>4. \A i \in 1 .. x : executed[i] = issued[i]
    BY DEF Inv, LogInv
  <2> QED
    BY <1>1, <1>2, <1>3, <2>1, <2>2, <2>3, <2>4 DEF LogInv
<1>8. EndInv'
  <2>1. worker # "returned" /\ (main \in {"notified", "completed"} => woken)
    BY <1>1, <1>2 DEF Inv, EndInv
  <2> QED
    BY <1>1, <2>1 DEF Inv, EndInv
<1> QED
  BY <1>6, <1>7, <1>8 DEF Inv

\* Steps that touch neither the queue nor the logs nor what the worker has in
\* hand keep the relation between them.
LEMMA QuietStep ==
    ASSUME Inv,
           UNCHANGED <<pendingQueries, command, issued, executed>>,
           \/ worker' = worker
           \/ worker \notin {"running", "popping"} /\ worker' \notin {"running", "popping"}
    PROVE  FrontMoved' /\ LogInv'
<1>1. InHand' = InHand /\ Popped' = Popped /\ (worker' = "running" <=> worker = "running")
  BY DEF InHand, Popped
<1> QED
  BY <1>1 DEF Inv, TypeOK, FrontMoved, LogInv

\* The quiet steps: notifications, waits, wake-ups and the two ways to end.
LEMMA QuietInv ==
    ASSUME Inv,
           \/ NotifyScheduled \/ NotifyDestroy \/ Destroy \/ Join
           \/ BlockUntilAllQueriesComplete \/ BlockWakes \/ BlockReturns
           \/ SpuriousMain \/ SpuriousWorker
           \/ WorkerIdle \/ WorkerSleep \/ WorkerWakes \/ WorkerReturn
    PROVE  Inv'
<1> SUFFICES TypeOK' /\ LogInv' /\ EndInv'
  BY DEF Inv
<1> USE DEF WorkerStates, MainStates
<1>1. ASSUME UNCHANGED <<pendingQueries, command, issued, executed>>,
             \/ worker' = worker
             \/ worker \notin {"running", "popping"} /\ worker' \notin {"running", "popping"},
             worker' \in WorkerStates, main' \in MainStates,
             m_active' \in BOOLEAN, woken' \in BOOLEAN, spurious' \in 0 .. MaxSpurious
      PROVE  TypeOK' /\ LogInv'
  <2>1. FrontMoved' /\ LogInv'
    BY <1>1, QuietStep
  <2> QED
    BY <1>1, <2>1 DEF Inv, TypeOK
<1>2. CASE NotifyScheduled
  <2>1. TypeOK' /\ LogInv'
    BY <1>1, <1>2 DEF NotifyScheduled, WorkerNotified, Inv, TypeOK
  <2>2. EndInv'
    BY <1>2 DEF NotifyScheduled, WorkerNotified, Inv, TypeOK, EndInv
  <2> QED
    BY <2>1, <2>2
<1>3. CASE NotifyDestroy
  <2>1. TypeOK' /\ LogInv'
    BY <1>1, <1>3 DEF NotifyDestroy, WorkerNotified, Inv, TypeOK
  <2>2. EndInv'
    BY <1>3 DEF NotifyDestroy, WorkerNotified, Inv, TypeOK, EndInv
  <2> QED
    BY <2>1, <2>2
<1>4. CASE Destroy
  <2>1. TypeOK' /\ LogInv'
    BY <1>1, <1>4 DEF Destroy, workerVars, Inv, TypeOK
  <2>2. EndInv'
    BY <1>4 DEF Destroy, workerVars, Inv, TypeOK, EndInv
  <2> QED
    BY <2>1, <2>2
<1>5. CASE Join
  <2>1. TypeOK' /\ LogInv'
    BY <1>1, <1>5 DEF Join, workerVars, Inv, TypeOK
  <2>2. EndInv'
    BY <1>5 DEF Join, workerVars, Inv, TypeOK, EndInv
  <2> QED
    BY <2>1, <2>2
<1>6. CASE BlockUntilAllQueriesComplete
  <2>1. TypeOK' /\ LogInv'
    BY <1>1, <1>6 DEF BlockUntilAllQueriesComplete, workerVars, Inv, TypeOK
  <2>2. main' = "completed" => Len(pendingQueries) = 0
    BY <1>6 DEF BlockUntilAllQueriesComplete, QueueEmpty
  <2>3. EndInv'
    BY <1>6, <2>2 DEF BlockUntilAllQueriesComplete, workerVars, Inv, TypeOK, EndInv
  <2> QED
    BY <2>1, <2>3
<1>7. CASE BlockWakes
  <2>1. TypeOK' /\ LogInv'
    BY <1>1, <1>7 DEF BlockWakes, workerVars, Inv, TypeOK
  <2>2. EndInv'
    BY <1>7 DEF BlockWakes, workerVars, Inv, TypeOK, EndInv
  <2> QED
    BY <2>1, <2>2
<1>8. CASE BlockReturns
  <2>1. TypeOK' /\ LogInv'
    BY <1>1, <1>8 DEF BlockReturns, workerVars, Inv, TypeOK
  <2>2. EndInv'
    BY <1>8 DEF BlockReturns, workerVars, Inv, TypeOK, EndInv
  <2> QED
    BY <2>1, <2>2
<1>9. CASE SpuriousMain
  <2>1. spurious' \in 0 .. MaxSpurious
    BY <1>9, QueueAssumption DEF SpuriousMain, Inv, TypeOK
  <2>2. TypeOK' /\ LogInv'
    BY <1>1, <1>9, <2>1 DEF SpuriousMain, workerVars, Inv, TypeOK
  <2>3. EndInv'
    BY <1>9 DEF SpuriousMain, workerVars, Inv, TypeOK, EndInv
  <2> QED
    BY <2>2, <2>3
<1>10. CASE SpuriousWorker
  <2>1. spurious' \in 0 .. MaxSpurious
    BY <1>10, QueueAssumption DEF SpuriousWorker, Inv, TypeOK
  <2>2. TypeOK' /\ LogInv'
    BY <1>1, <1>10, <2>1 DEF SpuriousWorker, Inv, TypeOK
  <2>3. EndInv'
    BY <1>10 DEF SpuriousWorker, Inv, TypeOK, EndInv
  <2> QED
    BY <2>2, <2>3
<1>11. CASE WorkerIdle
  <2>1. TypeOK' /\ LogInv'
    BY <1>1, <1>11 DEF WorkerIdle, MainNotified, Inv, TypeOK
  <2>2. Len(pendingQueries') = 0
    BY <1>11 DEF WorkerIdle
  <2>3. EndInv'
    BY <1>11, <2>2 DEF WorkerIdle, MainNotified, Inv, TypeOK, EndInv
  <2> QED
    BY <2>1, <2>3
<1>12. CASE WorkerSleep
  <2>1. TypeOK' /\ LogInv'
    BY <1>1, <1>12 DEF WorkerSleep, Inv, TypeOK
  <2>2. EndInv'
    BY <1>12 DEF WorkerSleep, Inv, TypeOK, EndInv
  <2> QED
    BY <2>1, <2>2
<1>13. CASE WorkerWakes
  <2>1. TypeOK' /\ LogInv'
    BY <1>1, <1>13 DEF WorkerWakes, Inv, TypeOK
  <2>2. EndInv'
    BY <1>13 DEF WorkerWakes, Inv, TypeOK, EndInv
  <2> QED
    BY <2>1, <2>2
<1>14. CASE WorkerReturn
  <2>1. TypeOK' /\ LogInv'
    BY <1>1, <1>14 DEF WorkerReturn, Inv, TypeOK
  <2>2. Len(pendingQueries') = 0
    BY <1>14 DEF WorkerReturn
  <2>3. EndInv'
    BY <1>14, <2>2 DEF WorkerReturn, Inv, TypeOK, EndInv
  <2> QED
    BY <2>1, <2>3
<1> QED
  BY <1>2, <1>3, <1>4, <1>5, <1>6, <1>7, <1>8, <1>9, <1>10, <1>11, <1>12, <1>13, <1>14

\* Every step of either thread keeps the invariant.
LEMMA NextInv == Inv /\ [Next]_vars => Inv'
<1> SUFFICES ASSUME Inv, [Next]_vars PROVE Inv'
  OBVIOUS
<1>1. CASE UNCHANGED vars
  <2>1. FrontMoved' /\ LogInv'
    BY <1>1, QuietStep DEF vars, workerVars
  <2> QED
    BY <1>1, <2>1 DEF vars, workerVars, Inv, TypeOK, EndInv
<1>2. CASE \E c \in Commands : ScheduleCommand(c)
  BY <1>2, ScheduleInv
<1>3. CASE WorkerTake
  BY <1>3, TakeInv
<1>4. CASE WorkerRun
  BY <1>4, RunInv
<1>5. CASE WorkerPop
  BY <1>5, PopInv
<1> QED
  BY <1>1, <1>2, <1>3, <1>4, <1>5, QuietInv DEF Next, Main, Worker

\* The inductive invariant: types, the moved-from front, the queue as the rest of
\* the log, and what it means that a thread has ended.
THEOREM Invariance == Spec => []Inv
  BY InitInv, NextInv, PTL DEF Spec

\* When blockUntilAllQueriesComplete() returns other than by a spurious
\* wake-up, every command scheduled has run.
THEOREM BlockedCallerSeesAll == Spec => []BlockedUntilComplete
<1>1. Inv => BlockedUntilComplete
  <2> SUFFICES ASSUME Inv, main = "completed", ~woken PROVE executed = issued
    BY DEF BlockedUntilComplete
  <2>1. Len(pendingQueries) = 0
    BY DEF Inv, EndInv
  <2> QED
    BY <2>1, EmptyMeansDone
<1> QED
  BY <1>1, Invariance, PTL

\* When the destructor has joined the worker, every command has run.
THEOREM DestructorLosesNothing == Spec => []DestructorDrains
<1>1. Inv => DestructorDrains
  <2> SUFFICES ASSUME Inv, main = "destroyed" PROVE pendingQueries = <<>> /\ executed = issued
    BY DEF DestructorDrains
  <2>1. Len(pendingQueries) = 0
    BY DEF Inv, EndInv
  <2>2. pendingQueries = <<>>
    BY <2>1 DEF Inv, TypeOK
  <2> QED
    BY <2>1, <2>2, EmptyMeansDone
<1> QED
  BY <1>1, Invariance, PTL

\* The two threads and their queue implement the log of commands: they run in
\* the order of the scheduleCommand() calls, each exactly once.
THEOREM QueueImplementsLog == Spec => ImplementsLog
<1>1. Init => Log!Init
  BY DEF Init, Log!Init
<1>2. ASSUME Inv, [Next]_vars
      PROVE  [Log!Next]_(Log!logVars)
  <2>1. CASE \E c \in Commands : ScheduleCommand(c)
    BY <2>1 DEF ScheduleCommand, Log!Next, Log!Issue
  <2>2. CASE WorkerRun
    <3>1. command = issued[Len(executed) + 1] /\ Len(issued) = Len(executed) + Len(pendingQueries)
      BY <1>2, <2>2 DEF WorkerRun, Inv, LogInv, Popped
    <3>2. Len(pendingQueries) > 0 /\ Len(pendingQueries) \in Nat /\ Len(executed) \in Nat
      BY <1>2, <2>2 DEF WorkerRun, Inv, TypeOK, FrontMoved, InHand
    <3>3. Len(executed) < Len(issued)
      BY <3>1, <3>2
    <3> QED
      BY <2>2, <3>1, <3>3 DEF WorkerRun, Log!Next, Log!Execute
  <2>3. CASE UNCHANGED <<issued, executed>>
    BY <2>3 DEF Log!logVars
  <2>4. \/ \E c \in Commands : ScheduleCommand(c)
        \/ WorkerRun
        \/ UNCHANGED <<issued, executed>>
    BY <1>2 DEF Next, Main, Worker, vars, NotifyScheduled, NotifyDestroy, Destroy, Join,
                BlockUntilAllQueriesComplete, BlockWakes, BlockReturns, SpuriousMain,
                SpuriousWorker, WorkerIdle, WorkerSleep, WorkerWakes, WorkerReturn,
                WorkerTake, WorkerPop
  <2> QED
    BY <2>1, <2>2, <2>3, <2>4
<1> QED
  BY <1>1, <1>2, Invariance, PTL DEF Spec, ImplementsLog, Log!Spec
=============================================================================
