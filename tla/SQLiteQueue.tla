---------------------------- MODULE SQLiteQueue ----------------------------
(***************************************************************************)
(* The worker thread of common/DatabaseSQLite.cpp and the calls the main   *)
(* thread makes: scheduleCommand(), blockUntilAllQueriesComplete() and the *)
(* destructor.  Both threads take m_pendingQueriesMutex; every critical    *)
(* section is one step but the one that ends in m_workerCondition.wait(),  *)
(* because m_active is written without the mutex.  The mutex is therefore  *)
(* held between steps only by a worker that is about to sleep.             *)
(*                                                                         *)
(* A condition variable may wake a thread without a notification, which    *)
(* SpuriousWorker and SpuriousMain do, at most MaxSpurious times.  A       *)
(* command counts as executed when runCommandQuery() returns, successful   *)
(* or not: its result is ignored.                                          *)
(***************************************************************************)
EXTENDS Integers, Sequences

CONSTANTS
    Commands,     \* the SQL commands
    Moved,        \* what std::move() leaves of a command in the queue
    MaxCommands,  \* bound on the commands scheduled
    MaxSpurious   \* bound on spurious wake-ups

ASSUME QueueAssumption ==
    Moved \notin Commands /\ MaxCommands \in Nat /\ MaxSpurious \in Nat

VARIABLES
    pendingQueries,
    m_active,
    worker,       \* where the worker thread is in poll_tasks()
    command,      \* the worker's local copy of the command it runs
    main,         \* where the main thread is
    spurious,     \* wake-ups without a notification so far
    woken,        \* whether main's last wait ended by such a wake-up
    issued,       \* history: the commands scheduled
    executed      \* history: the commands run

workerVars == <<worker, command>>
vars == <<pendingQueries, m_active, workerVars, main, spurious, woken, issued, executed>>

WorkerStates == {"locking", "running", "popping", "sleeping", "waiting", "notified", "returned"}
MainStates == {"idle", "scheduled", "waiting", "notified", "completed",
               "deactivated", "joining", "destroyed"}

\* DatabaseSQLite(): the thread starts with the object.
Init ==
    /\ pendingQueries = <<>>
    /\ m_active = TRUE
    /\ worker = "locking" /\ command = Moved
    /\ main = "idle"
    /\ spurious = 0 /\ woken = FALSE
    /\ issued = <<>> /\ executed = <<>>

MutexFree == worker # "sleeping"

-----------------------------------------------------------------------------
(* The main thread *)

\* Mutant: the command is put in front of the others.
ScheduleCommand_Front(c) ==
    /\ main = "idle" /\ MutexFree
    /\ Len(issued) < MaxCommands
    /\ pendingQueries' = <<c>> \o pendingQueries
    /\ issued' = Append(issued, c)
    /\ main' = "scheduled"
    /\ UNCHANGED <<m_active, workerVars, spurious, woken, executed>>

\* scheduleCommand(): push_back() under the mutex...
ScheduleCommand(c) ==
    /\ main = "idle" /\ MutexFree
    /\ Len(issued) < MaxCommands
    /\ pendingQueries' = Append(pendingQueries, c)
    /\ issued' = Append(issued, c)
    /\ main' = "scheduled"
    /\ UNCHANGED <<m_active, workerVars, spurious, woken, executed>>

\* Mutant: nobody is notified.
WorkerNotified_Never == worker

\* m_workerCondition.notify_all(): wakes the worker if it waits, and is lost
\* otherwise.
WorkerNotified == IF worker = "waiting" THEN "notified" ELSE worker

\* ... and the notification after it.
NotifyScheduled ==
    /\ main = "scheduled"
    /\ worker' = WorkerNotified
    /\ main' = "idle"
    /\ UNCHANGED <<pendingQueries, m_active, command, spurious, woken, issued, executed>>

\* Mutant: a command the worker has taken already does not count.
QueueEmpty_WaitingOnly == pendingQueries \in {<<>>, <<Moved>>}

QueueEmpty == pendingQueries = <<>>

\* blockUntilAllQueriesComplete(): waits once, unless the queue is empty.
BlockUntilAllQueriesComplete ==
    /\ main = "idle" /\ MutexFree
    /\ main' = IF QueueEmpty THEN "completed" ELSE "waiting"
    /\ woken' = FALSE
    /\ UNCHANGED <<pendingQueries, m_active, workerVars, spurious, issued, executed>>

\* The waiting main thread has been woken and gets the mutex back.
BlockWakes ==
    /\ main = "notified" /\ MutexFree
    /\ main' = "completed"
    /\ UNCHANGED <<pendingQueries, m_active, workerVars, spurious, woken, issued, executed>>

BlockReturns ==
    /\ main = "completed"
    /\ main' = "idle"
    /\ UNCHANGED <<pendingQueries, m_active, workerVars, spurious, woken, issued, executed>>

SpuriousMain ==
    /\ main = "waiting" /\ spurious < MaxSpurious
    /\ main' = "notified" /\ woken' = TRUE
    /\ spurious' = spurious + 1
    /\ UNCHANGED <<pendingQueries, m_active, workerVars, issued, executed>>

\* ~DatabaseSQLite(): m_active is an atomic written without the mutex,
Destroy ==
    /\ main = "idle"
    /\ m_active' = FALSE
    /\ main' = "deactivated"
    /\ UNCHANGED <<pendingQueries, workerVars, spurious, woken, issued, executed>>

\* then the worker is notified,
NotifyDestroy ==
    /\ main = "deactivated"
    /\ worker' = WorkerNotified
    /\ main' = "joining"
    /\ UNCHANGED <<pendingQueries, m_active, command, spurious, woken, issued, executed>>

\* and joined.
Join ==
    /\ main = "joining" /\ worker = "returned"
    /\ main' = "destroyed"
    /\ UNCHANGED <<pendingQueries, m_active, workerVars, spurious, woken, issued, executed>>

-----------------------------------------------------------------------------
(* The worker thread: poll_tasks() *)

\* Mutant: the loop ends as soon as the database is to be destroyed.
WorkerTake_WhileActive ==
    /\ worker = "locking" /\ pendingQueries # <<>>
    /\ IF m_active
         THEN /\ worker' = "running"
              /\ command' = Head(pendingQueries)
              /\ pendingQueries' = [pendingQueries EXCEPT ![1] = Moved]
         ELSE worker' = "returned" /\ UNCHANGED <<command, pendingQueries>>
    /\ UNCHANGED <<m_active, main, spurious, woken, issued, executed>>

\* The front is moved out but stays in the queue while its command runs.
WorkerTake ==
    /\ worker = "locking" /\ pendingQueries # <<>>
    /\ worker' = "running"
    /\ command' = Head(pendingQueries)
    /\ pendingQueries' = [pendingQueries EXCEPT ![1] = Moved]
    /\ UNCHANGED <<m_active, main, spurious, woken, issued, executed>>

\* runCommandQuery(), with the mutex released.
WorkerRun ==
    /\ worker = "running"
    /\ executed' = Append(executed, command)
    /\ worker' = "popping"
    /\ UNCHANGED <<pendingQueries, m_active, command, main, spurious, woken, issued>>

\* Mutant: pop_back() for pop_front().
WorkerPop_Back ==
    /\ worker = "popping"
    /\ pendingQueries' = SubSeq(pendingQueries, 1, Len(pendingQueries) - 1)
    /\ worker' = "locking" /\ command' = Moved
    /\ UNCHANGED <<m_active, main, spurious, woken, issued, executed>>

\* lock.lock(), pop_front() and the end of the loop's body.
WorkerPop ==
    /\ worker = "popping"
    /\ pendingQueries' = Tail(pendingQueries)
    /\ worker' = "locking" /\ command' = Moved
    /\ UNCHANGED <<m_active, main, spurious, woken, issued, executed>>

\* Mutant: the main thread is not told.
MainNotified_Never == main

\* m_queueEmptyCondition.notify_all()
MainNotified == IF main = "waiting" THEN "notified" ELSE main

\* Mutant: the worker does not look at m_active before it waits.
WorkerIdle_Unchecked ==
    /\ worker = "locking" /\ pendingQueries = <<>>
    /\ main' = MainNotified
    /\ worker' = "sleeping"
    /\ UNCHANGED <<pendingQueries, m_active, command, spurious, woken, issued, executed>>

\* Nothing to do: the worker tells a waiting main thread and, still holding
\* the mutex, turns to its condition variable.
WorkerIdle ==
    /\ worker = "locking" /\ pendingQueries = <<>> /\ m_active
    /\ main' = MainNotified
    /\ worker' = "sleeping"
    /\ UNCHANGED <<pendingQueries, m_active, command, spurious, woken, issued, executed>>

\* m_workerCondition.wait() releases the mutex and waits, in one step.
WorkerSleep ==
    /\ worker = "sleeping"
    /\ worker' = "waiting"
    /\ UNCHANGED <<pendingQueries, m_active, command, main, spurious, woken, issued, executed>>

\* The woken worker gets the mutex back and starts the loop again.
WorkerWakes ==
    /\ worker = "notified"
    /\ worker' = "locking"
    /\ UNCHANGED <<pendingQueries, m_active, command, main, spurious, woken, issued, executed>>

SpuriousWorker ==
    /\ worker = "waiting" /\ spurious < MaxSpurious
    /\ worker' = "notified"
    /\ spurious' = spurious + 1
    /\ UNCHANGED <<pendingQueries, m_active, command, main, woken, issued, executed>>

WorkerReturn ==
    /\ worker = "locking" /\ pendingQueries = <<>> /\ ~m_active
    /\ worker' = "returned"
    /\ UNCHANGED <<pendingQueries, m_active, command, main, spurious, woken, issued, executed>>

-----------------------------------------------------------------------------

Main ==
    \/ \E c \in Commands : ScheduleCommand(c)
    \/ NotifyScheduled
    \/ BlockUntilAllQueriesComplete \/ BlockWakes \/ BlockReturns
    \/ Destroy \/ NotifyDestroy \/ Join

Worker ==
    \/ WorkerTake \/ WorkerRun \/ WorkerPop
    \/ WorkerIdle \/ WorkerSleep \/ WorkerWakes \/ WorkerReturn

Next == Main \/ Worker \/ SpuriousMain \/ SpuriousWorker

Spec == Init /\ [][Next]_vars

\* The operating system runs both threads.  The main thread finishes the calls
\* it has made, and need not make another.
FairSpec ==
    /\ Spec
    /\ WF_vars(Worker)
    /\ WF_vars(NotifyScheduled \/ NotifyDestroy \/ Join \/ BlockWakes \/ BlockReturns)

-----------------------------------------------------------------------------
(* Properties *)

InHand == worker \in {"running", "popping"}

\* The queue holds commands, and what is left of the one the worker runs only
\* at its front and only while it runs (pendingQueries.front() is moved from
\* before and popped after runCommandQuery()).
FrontMoved ==
    /\ \A i \in 1 .. Len(pendingQueries) :
          (pendingQueries[i] = Moved) <=> (i = 1 /\ InHand)
    /\ InHand => Len(pendingQueries) > 0 /\ command \in Commands

\* The types of the variables, with the queue's front as FrontMoved says.
TypeOK ==
    /\ pendingQueries \in Seq(Commands \cup {Moved})
    /\ Len(pendingQueries) <= MaxCommands
    /\ FrontMoved
    /\ m_active \in BOOLEAN
    /\ worker \in WorkerStates
    /\ main \in MainStates
    /\ spurious \in 0 .. MaxSpurious
    /\ woken \in BOOLEAN
    /\ issued \in Seq(Commands)
    /\ executed \in Seq(Commands)

\* The commands that have run and left the queue.
Popped == IF worker = "popping" THEN Len(executed) - 1 ELSE Len(executed)

\* What has run is the beginning of what was scheduled, and the queue holds
\* the rest of it in order, the command in hand included: only then does an
\* empty queue mean that everything has run.
LogInv ==
    /\ Len(issued) <= MaxCommands
    /\ Popped >= 0
    /\ Len(issued) = Popped + Len(pendingQueries)
    /\ \A i \in 1 .. Len(executed) : executed[i] = issued[i]
    /\ \A i \in 1 .. Len(pendingQueries) :
          pendingQueries[i] # Moved => pendingQueries[i] = issued[Popped + i]
    /\ worker = "running" => command = issued[Len(executed) + 1]

\* A worker returns only from an empty queue that nothing can be added to any
\* more, and a main thread is notified only of an empty queue.
EndInv ==
    /\ m_active = (main \notin {"deactivated", "joining", "destroyed"})
    /\ worker = "returned" => Len(pendingQueries) = 0 /\ ~m_active
    /\ main = "destroyed" => worker = "returned"
    /\ main \in {"notified", "completed"} /\ ~woken => Len(pendingQueries) = 0

\* What ties queue, threads and log together: with a moved-from front only while
\* the worker runs it, the queue is the rest of what was scheduled, and a thread
\* ends or is let go only with nothing left.
Inv == TypeOK /\ LogInv /\ EndInv

\* The commands run in the order of the scheduleCommand() calls, each once,
\* whatever the two threads' steps and the wake-ups.
Log == INSTANCE CommandLog
ImplementsLog == Log!Spec

\* "Blocks the current thread until all queries have completed": when
\* blockUntilAllQueriesComplete() returns, nothing scheduled is still to run,
\* not even the command the worker has in hand, unless its single wait ended
\* by a spurious wake-up.
BlockedUntilComplete ==
    main = "completed" /\ ~woken => executed = issued

\* The destructor's "Database delete with %1 queries pending" is never
\* logged: a worker that is told to stop works its queue off first.
DestructorDrains ==
    main = "destroyed" => pendingQueries = <<>> /\ executed = issued

\* Every command that is scheduled runs in the end: no notification is lost
\* while there is something to do.
EveryCommandRuns ==
    \A n \in 1 .. MaxCommands : Len(issued) >= n ~> Len(executed) >= n

\* blockUntilAllQueriesComplete() returns.
BlockEnds == main = "waiting" ~> main = "completed"

\* The destructor returns if the worker has not looked at m_active for the
\* last time when it is set.  The premise is needed: m_active is written and
\* the worker notified without the mutex, so a worker between its test of
\* m_active and its wait misses both, and join() does not return.
DestructorEnds ==
    main = "joining" /\ worker \notin {"sleeping", "waiting"} ~> main = "destroyed"
=============================================================================
