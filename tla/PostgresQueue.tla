--------------------------- MODULE PostgresQueue ---------------------------
(***************************************************************************)
(* The other back end behind common/Database.h: DatabasePostgres.cpp with  *)
(* its queue of commands, one of which is under way at a time, and         *)
(* CommPSQLSocket.cpp, which waits for the results and connects again.     *)
(*                                                                         *)
(* Everything on this side happens in the main thread.  The PostgreSQL     *)
(* server and libpq are external: a command that was sent runs at some     *)
(* time, its result and the end of its answer may arrive separately, and a *)
(* connection may break at any time.  A server that has lost its client    *)
(* still runs what it was sent, or does not.                               *)
(*                                                                         *)
(* The main thread starts with the connection that the constructor of      *)
(* Storage has opened.  The CommPSQLSocket was made before that, in a      *)
(* build without assertions, and has no socket to wait on yet: its first   *)
(* read fails and it replaces that connection by one of its own.           *)
(***************************************************************************)
EXTENDS Naturals, Sequences, FiniteSets, Functions

CONSTANTS
    MaxScheduled,  \* bound: how many commands are scheduled
    MaxBreaks,     \* bound: how often the connection breaks
    Tables         \* how many tables there are to maintain

ASSUME PostgresAssumption == MaxScheduled \in Nat /\ MaxBreaks \in Nat /\ Tables \in Nat

VARIABLES
    scheduled,       \* how many commands were scheduled: they are numbered
    pendingQueries,  \* the commands not complete, with whether their result was read
    queryInProgress, \* m_queryInProgress
    connection,      \* m_connection: "ok", "broken" (nothing arrives any more), "bad" (and
                     \* libpq knows) or "null"
    session,         \* the command under way on the connection: "idle", "sent",
                     \* "ran" or "half" (its result was read, the end of the answer not)
    socket,          \* of CommPSQLSocket: "unopened", "reading" or "reset" (the timer is set)
    shutdown,        \* "no", "blocked" in blockUntilAllQueriesComplete(), or "done"
    breaks,          \* how often the connection broke
    orphans,         \* commands that a server may still run for a connection that is gone
    ran,             \* the commands that were run, in order
    stranded         \* the commands that were under way on a connection that was lost

postgresVars == <<scheduled, pendingQueries, queryInProgress, connection, session, socket, shutdown,
                  breaks, orphans, ran, stranded>>

PostgresInit ==
    /\ scheduled = 0 /\ pendingQueries = <<>> /\ queryInProgress = FALSE
    /\ connection = "ok" /\ session = "idle" /\ socket = "unopened"
    /\ shutdown = "no" /\ breaks = 0
    /\ orphans = {} /\ ran = <<>> /\ stranded = {}

FrontQuery == Head(pendingQueries)

\* launchNewQuery() on the given queue, when no query is in progress.  PQsendQuery() may
\* accept a command for a connection whose loss libpq has not noticed.
LaunchNewQuery(queue) ==
    \/ /\ queue = <<>> \/ connection \in {"bad", "null"}
       /\ queryInProgress' = FALSE /\ session' = "idle"
       /\ UNCHANGED <<connection, stranded>>
    \/ /\ queue # <<>> /\ connection = "ok"
       /\ queryInProgress' = TRUE /\ session' = "sent"
       /\ UNCHANGED <<connection, stranded>>
    \/ /\ queue # <<>> /\ connection = "broken"
       /\ session' = "idle"
       /\ \/ /\ queryInProgress' = TRUE /\ stranded' = stranded \cup {Head(queue).command}
             /\ UNCHANGED connection
          \/ /\ queryInProgress' = FALSE /\ connection' = "bad"
             /\ UNCHANGED stranded

\* scheduleCommand(), called n times in a row.
Push(n) ==
    LET queue == pendingQueries \o [i \in 1 .. n |-> [command |-> scheduled + i, done |-> FALSE]]
    IN  /\ shutdown = "no" /\ scheduled + n <= MaxScheduled
        /\ scheduled' = scheduled + n
        /\ pendingQueries' = queue
        /\ IF queryInProgress
           THEN UNCHANGED <<queryInProgress, connection, session, stranded>>
           ELSE LaunchNewQuery(queue)
        /\ UNCHANGED <<socket, shutdown, breaks, orphans, ran>>

ScheduleCommand == Push(1)

\* vacuum() and reindex(): a command for each table, as long as there is a socket.
RunMaintenance == socket = "reading" /\ Push(Tables)

\* clearPendingQuery() with a query in progress waits for its result, unless that was
\* read already: then it gives up and leaves all as it is.
ClearPendingQuery ==
    \/ /\ FrontQuery.done
       /\ UNCHANGED <<pendingQueries, queryInProgress, session, connection, ran>>
    \/ /\ ~ FrontQuery.done
       /\ pendingQueries' = Tail(pendingQueries)
       /\ queryInProgress' = FALSE
       /\ ran' = IF session = "sent" THEN Append(ran, FrontQuery.command) ELSE ran
       /\ session' = "idle"
       /\ connection' = IF connection = "broken" THEN "bad" ELSE connection

\* newId(), runSimpleSelectQuery() and the others that wait for the result of a query of
\* their own.  With an answer half read that query is refused.
SynchronousQuery ==
    /\ shutdown = "no"
    /\ IF queryInProgress
       THEN ClearPendingQuery
       ELSE /\ connection' = IF connection = "broken" THEN "bad" ELSE connection
            /\ UNCHANGED <<pendingQueries, queryInProgress, session, ran>>
    /\ UNCHANGED <<scheduled, socket, shutdown, breaks, orphans, stranded>>

\* The handler of do_read() with read() and dispatch(): queryResult() marks the front as
\* done, queryComplete() removes it, and the next one is launched.  The socket can be
\* readable without a result, for a notice or because someone else has read it.
ReadResult ==
    /\ shutdown = "no" /\ socket = "reading" /\ connection = "ok" /\ session = "ran"
    /\ pendingQueries' = [pendingQueries EXCEPT ![1].done = TRUE]
    /\ session' = "half"
    /\ UNCHANGED <<scheduled, queryInProgress, connection, socket, shutdown, breaks, orphans, ran, stranded>>

ReadComplete ==
    /\ shutdown = "no" /\ socket = "reading" /\ connection = "ok"
    /\ \/ session \in {"ran", "half"}
       \/ session = "idle" /\ queryInProgress /\ FrontQuery.done
    /\ pendingQueries' = Tail(pendingQueries)
    /\ LaunchNewQuery(Tail(pendingQueries))
    /\ UNCHANGED <<scheduled, socket, shutdown, breaks, orphans, ran>>

ReadNothing ==
    /\ shutdown = "no" /\ socket = "reading" /\ connection = "ok" /\ ~ queryInProgress
    /\ LaunchNewQuery(pendingQueries)
    /\ UNCHANGED <<scheduled, pendingQueries, socket, shutdown, breaks, orphans, ran>>

\* The handler finds no socket to read from, or that the connection is lost.
ReadLost ==
    /\ shutdown = "no"
    /\ \/ socket = "unopened" /\ UNCHANGED connection
       \/ socket = "reading" /\ connection \in {"broken", "bad"} /\ connection' = "bad"
    /\ socket' = "reset"
    /\ UNCHANGED <<scheduled, pendingQueries, queryInProgress, session, shutdown, breaks, orphans, ran,
                   stranded>>

\* What becomes of the command under way when its connection is given up.
Strand ==
    /\ stranded' = IF session = "idle" THEN stranded ELSE stranded \cup {FrontQuery.command}
    /\ orphans' = IF session = "sent" THEN orphans \cup {FrontQuery.command} ELSE orphans
    /\ session' = "idle"

\* Mutant: a new connection starts with no query in progress.
TryReConnect_Resets ==
    /\ shutdown = "no" /\ socket = "reset"
    /\ Strand
    /\ \/ connection' = "ok" /\ socket' = "reading" /\ queryInProgress' = FALSE
       \/ connection' = "null" /\ UNCHANGED <<socket, queryInProgress>>
    /\ UNCHANGED <<scheduled, pendingQueries, shutdown, breaks, ran>>

\* The timer of tryReConnect(): initConnection() replaces the connection, also one that
\* is in use, or leaves none.  Neither the queue nor m_queryInProgress is touched.
TryReConnect ==
    /\ shutdown = "no" /\ socket = "reset"
    /\ Strand
    /\ \/ connection' = "ok" /\ socket' = "reading"
       \/ connection' = "null" /\ UNCHANGED socket
    /\ UNCHANGED <<scheduled, pendingQueries, queryInProgress, shutdown, breaks, ran>>

\* StorageManager::shutdown() calls blockUntilAllQueriesComplete(); the turns of its loop.
Block ==
    /\ shutdown = "no" /\ shutdown' = "blocked"
    /\ UNCHANGED <<scheduled, pendingQueries, queryInProgress, connection, session, socket, breaks,
                   orphans, ran, stranded>>

BlockTurn ==
    /\ shutdown = "blocked" /\ pendingQueries # <<>>
    /\ \/ ~ queryInProgress /\ LaunchNewQuery(pendingQueries) /\ UNCHANGED <<pendingQueries, ran>>
       \/ queryInProgress /\ ClearPendingQuery /\ UNCHANGED stranded
    /\ UNCHANGED <<scheduled, socket, shutdown, breaks, orphans>>

BlockEnd ==
    /\ shutdown = "blocked" /\ pendingQueries = <<>> /\ shutdown' = "done"
    /\ UNCHANGED <<scheduled, pendingQueries, queryInProgress, connection, session, socket, breaks,
                   orphans, ran, stranded>>

\* The server: it runs what it was sent, also for a connection that is gone, or does not.
ServerRuns ==
    /\ session = "sent"
    /\ session' = "ran" /\ ran' = Append(ran, FrontQuery.command)
    /\ UNCHANGED <<scheduled, pendingQueries, queryInProgress, connection, socket, shutdown, breaks,
                   orphans, stranded>>

OrphanEnds ==
    /\ \E c \in orphans :
          /\ orphans' = orphans \ {c}
          /\ ran' \in {ran, Append(ran, c)}
    /\ UNCHANGED <<scheduled, pendingQueries, queryInProgress, connection, session, socket, shutdown,
                   breaks, stranded>>

ConnectionBreaks ==
    /\ connection = "ok" /\ breaks < MaxBreaks
    /\ connection' = "broken" /\ breaks' = breaks + 1
    /\ Strand
    /\ UNCHANGED <<scheduled, pendingQueries, queryInProgress, socket, shutdown, ran>>

PostgresNext ==
    \/ ScheduleCommand \/ RunMaintenance \/ SynchronousQuery
    \/ ReadResult \/ ReadComplete \/ ReadNothing \/ ReadLost \/ TryReConnect
    \/ Block \/ BlockTurn \/ BlockEnd
    \/ ServerRuns \/ OrphanEnds \/ ConnectionBreaks

PostgresSpec == PostgresInit /\ [][PostgresNext]_postgresVars

\* Commands that were scheduled and are neither waiting nor run nor about to be run.
Dropped ==
    (1 .. scheduled) \ ({pendingQueries[i].command : i \in DOMAIN pendingQueries} \cup orphans \cup Range(ran))

\* Whatever breaks, no command runs twice, and only a command that was under way on a
\* connection that was lost is dropped or runs behind a later one: clearPendingQuery(),
\* queryComplete() and launchNewQuery() agree on what m_queryInProgress says of the front.
PostgresInOrder ==
    /\ IsInjective(ran)
    /\ Dropped \subseteq stranded
    /\ \A i, j \in DOMAIN ran : i < j /\ ran[j] < ran[i] => ran[j] \in stranded
=============================================================================
