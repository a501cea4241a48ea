# TLA+ model of the cyphesis server

Cyphesis is the server of the WorldForge virtual world project: it keeps a tree
of entities, routes Atlas operations between them, lets clients log in and
control entities through minds, and writes the world to a database behind the
simulation's back. Beside the server the repository holds an AI client, which lends
minds to entities, and tools that import and export worlds. This directory holds
TLA+ modules that model the parts with state and control of their own, TLC
configurations that check them on small instances, and TLAPS proofs.

Paths below are relative to the repository root (`src/common` is
`src/src/common` in `PROJECT.json`, where the repository is checked out under
`src/`).

## 1. Inventory

| Part | State it keeps | Operations | Talks to | What is hard |
|---|---|---|---|---|
| Operations dispatcher (`src/common/OperationsDispatcher*`) | priority queue, sequence counter, dirty flag | add, processUntil, dispatchNextOp, clear | its operation processor, re-entrantly | ties, re-entrant additions, wall clock limit |
| Main loop (`src/common/MainLoop.cpp`) | exit flags, clock, soft exit | frame = messages, operations, I/O, exit handling; signals | dispatcher, sessions, I/O context | starvation, signals at any time |
| World router (`src/rules/simulation/WorldRouter.cpp`, `BaseWorld.cpp`) | entities by id, suspended queue, aliases | message, operation, deliverTo, add/delete entity, suspend/resume | dispatcher, entities, storage (signals) | entities die while operations are queued |
| Storage manager (`src/server/StorageManager.cpp`) | unstored, dirty and destroyed queues; flags on entities and properties | insert, update, destroy, tick, restore, shutdown | world (signals), database | crash between ticks, destroyed while dirty |
| Database (`src/common/Database*.cpp`, `CommPSQLSocket.cpp`) | pending command queue; worker thread, or the query under way and a socket | scheduleCommand, poll_tasks, block, destructor; launch, read, reconnect | SQLite or PostgreSQL | two threads, condition variables; lost connections |
| Sessions (`src/server/Connection.cpp`, `Account.cpp`, `Lobby.cpp`, `ServerRouting.cpp`) | accounts, routers and operation queues of each connection, lobby | login, create, logout, disconnect, dispatch | persistence, minds, world | disconnect at any point, two logins |
| Minds and possession (`ExternalMind.cpp`, `ExternalMindsManager.cpp`, `PossessionAuthenticator.cpp`, `MindsProperty.cpp`) | minds of an entity, pending possessions, possession connections, registered relays | possess, link up, forward, relay, delete | sessions, world, clients | destroyed entity, lost connection, late answer |
| Connections (`src/common/CommAsioClient_impl.h`, `Link.cpp`) | negotiator, two write buffers, flags | negotiate, read, write, flush, disconnect | sessions, main loop, socket | completion handlers in any order |
| Teleport between servers (`Juncture.cpp`, `Peer.cpp`, `TeleportProperty.cpp`) | peers, teleport states | connect, teleport, clean | remote server | lost answers, timeouts |
| Containers and domains (`ContainerDomain.cpp`, `InventoryDomain.cpp`, `PhysicalDomain.cpp`, `StackableDomain.cpp`) | closeness observations, who observes whom, amounts | open, close, move, add, remove, split, stack | world, entities | callbacks that change what is being walked |
| Tasks (`TasksProperty.cpp`, `Task.cpp`) | running tasks, actions shown | use, start, tick, stop | world, scripts | ticks of tasks that were replaced |
| Garments and modifiers (`AttachmentsProperty.cpp`, `ModifyProperty.cpp`, `LocatedEntity.cpp`) | what is attached where, modifiers of each property | wield, move, set, destroy | entities (signals) | three records in three objects |
| Rule sets and types (`Ruleset.cpp`, `EntityRuleHandler.cpp`, `EntityFactory.cpp`, `TypeUpdateCoordinator.cpp`) | factories, types, waiting rules | install, modify, reload | files, world | rules in any order |
| Import and export (`src/tools/Entity*Base.cpp`) | entities walked, ids mapped, requests under way | walk, create, update, dump | server | refusals, a world that changes |
| AI minds (`src/rules/ai`) | remembered entities, known and pending types | perceive, forget, resolve | server | perceptions in any order |
| Navigation (`src/navigation`) | observed entities, areas, tiles aware, dirty, active | report, ask for tiles, rebuild, prune | AI minds | several minds share one mesh |
| AI client (`src/client/aiclient`, `BaseClient.cpp`) | minds, callbacks, dispatcher, timer | possess, create mind, tick | server | timer against new operations, late answers |

What makes each part correct, and so what the properties below are about:

- **Dispatcher** – operations leave in (time, arrival) order, once and never
  early, although the processor adds to the queue it is called from; a user that
  sleeps until the head's time is told when the head changes.
- **Main loop** – an overloaded server still handles every operation; a signal
  ends the server whatever the poll callback answers.
- **World router** – no heartbeat of an entity is lost or doubled by suspension;
  an entity is deleted once; operations sent for now keep their order.
- **Storage** – no change is forgotten between signals, flags and queues; what a
  clean shutdown leaves in the database is the world; ids are not reused.
- **Database thread** – commands run in order and once; a blocked caller and the
  destructor see them all done; no notification is lost.
- **Sessions and minds** – connection, account, lobby, entity and manager agree on
  who is logged in where and who possesses what; nothing deleted stays referenced;
  an entity that wants a mind can get one; a relayed question is answered once.
- **Connections** – what is written arrives in order, once and without a gap, and
  what was flushed is sent.
- **Entities** – a task goes on until it ends; nobody looks into a container he has
  lost touch with; amounts are conserved; what is put on can be taken off again;
  the two sides of an observation agree.
- **What comes from elsewhere** – a traveller that is deleted here exists there;
  types inherit whatever order their rules come in; a world that is exported and
  imported is the same world.
- **AI client** – each lent mind has its counterpart on the server and keeps
  ticking; a mind's memory hangs together; tiles of the mesh are up to date or marked.

## 2. Modules and the code they model

Definitions keep the names of the code. `PROJECT.json` has, for every definition,
the file and the lines it stands for. A definition whose name has an underscore
and a suffix (`Before_TimeOnly`) is a deliberate error used to show that a
property can fail; no specification uses it.

### The server's core

**`OperationsDispatcher`** – `OperationsDispatcher.h`, `OperationsDispatcher_impl.h`.
The `std::priority_queue` is a set of entries with `Before` for `std::greater`
and `IsTop` for `top()`. `ProcessUntil`, `DispatchDue` and `EndProcessUntil` are
the loop of `processUntil()`, split so that the clock can move between two
operations; `EndProcessUntil` is allowed after the first turn whenever the wall
clock may have run out, and before it never, which is the `do ... while` of the
code. The processor is open: a dispatched operation adds any sequence of new
ones. `dispatched` and `cleanHead` are history variables that no guard reads.

**`MainLoop`** – `MainLoop.cpp` and the end of `run()` in `server.cpp`. It
extends `OperationsDispatcher` and adds the phases of a frame: `StartFrame`,
`DispatchIncoming` for the connections' messages, the processing of operations,
the I/O phase in which messages (`Receive`), signals and the soft exit timer
arrive in any order until the frame's timer ends it, and `ExitCheck`. After the
loop come the three steps of the shutdown. The poll callback's answer is free.

**`WorldRouter`** – `WorldRouter.cpp`, `BaseWorld.cpp`, and of `World.cpp`,
`Thing.cpp` and `LocatedEntity.cpp` what creates, deletes and broadcasts. It is
the real processor behind the dispatcher's queue. `Message` resolves the time of
an operation, unless its maker has set it (`Timed`), and queues it or broadcasts it; each `Deliver...` action is the
whole of `operation()` and `deliverTo()` for one class of operation, the
handler's results included. `Ulp` is the resolution of the `float` that
`getTimeAsSeconds()` returns. `DeliverThrows` is a handler that throws: the
operation is gone and its results with it.

**`Storage`** – `StorageManager.cpp`, the flags it relies on in
`LocatedEntity.cpp`, `Entity.cpp` and `Thing.cpp`, the SQL of `Database.cpp` and
the tables and the id generator of `DatabaseSQLite.cpp`. Entities are created,
changed, moved and destroyed; the signals of those operations put them in the
manager's queues; `Tick` turns the queues into commands, `ExecuteCommand` runs
one. `Crash` keeps the tables only, at any point, also between two commands of
one tick; `Restart` restores from them.

**`CommandLog`** and **`SQLiteQueue`** – what users of `scheduleCommand()` rely
on, and the two threads that implement it. `SQLiteQueue` has the mutex, both
condition variables with their spurious wake-ups, the command that is moved out
of the queue's front and popped only after it has run, and the destructor, which
writes `m_active` without the mutex. `Storage` takes its commands in order from
such a log.

### Players and entities

These modules share no variables; `MCSimulation` puts them side by side (section 3).

**`Sessions`** – `Connection.cpp`, `Account.cpp`, `Lobby.cpp`,
`ServerRouting.cpp`, `ExternalMindsManager.cpp`, `PossessionAuthenticator.cpp`,
`MindProperty.cpp` and the list of `MindsProperty.cpp`. Every action is a whole
handler with the signals it triggers: disconnecting an account removes its minds
from their entities, which the manager hears of and answers by asking the next
client. A connection that was told to disconnect lives on until its destructor
runs, and still handles the operations it has queued.

**`Relays`** – `ExternalMind.cpp`, `AdminMind.cpp` and the relays of
`MindsProperty.cpp`. `SendRelay` is an administrator's question to the client of
another mind; `DeliverRelay` gives it to the mind it names, which registers it and
asks its client (`Ask`), passes an answer on (`Answer`) or, for the Relay it sent to
itself, ends the wait with an empty answer (`Prune`). `ClientAnswers` may come at
any time, before or after that, and `RemoveMind` takes either side away. Client
serial numbers of different minds overlap, as they do in the code.

**`SuspendedProperty`** – the property of that name on entities other than the
world, with `LocatedEntity::setAttr` (which starts from a copy of the type's
default) and `Entity::operation` (scripts first, then every delegate, whatever the
others return).

**`Tasks`** – `TasksProperty.cpp`, `Task.cpp`, `ActionsProperty.cpp`. `StartTask`
and `UseOperation` start a task under an id and replace the one that has it;
`TickOperation` and `TickStartsTask` are a tick that is taken, with what the script
may do in it, `OldTick` one that is not. Ticks of replaced tasks stay in the queue,
with serial numbers that overlap the new task's.

**`Containers`** – `ContainerDomain.cpp`, `InventoryDomain.cpp` and the closeness
observations of `PhysicalDomain.cpp`. `SetObservers`, `CloseContainer`,
`OutOfReach`, `MoveContainer` and `DestroyContainer` each include all the callbacks
they set off, up the chain of containers, in any order that the iteration over a set
of pointers allows. `freedRead` notes that an observation was read after a callback
had freed it.

**`Stacks`** – `StackableDomain.cpp`, `AmountProperty.cpp`. `MoveSome` splits a
stack: the new entity appears in the world and is moved on; what arrives next to an
equal stack is added to it, and what is moved into an unequal one is contained in that.
`created` and `removed` count what comes into the world and leaves it. Bound: a stack
that contains another is not emptied, so `Entity::destroy()` of one with contents does
not happen here (section 5 says what it does).

**`Garments`** – `AttachmentsProperty.cpp`, `ModifyProperty.cpp` and the modifiers
of `LocatedEntity.cpp`. Three records are kept by different objects: the wearer's
`attached_` properties, the garment's own data of where it is attached, and the
modifiers in the wearer's property. `Wield`, `Unwield`, `MoveGarment`,
`DestroyGarment`, `SetModify` and `SetArmor` change them in the order of the code.

**`Visibility`** – the part of `PhysicalDomain.cpp` that decides who sees whom: what
the collision library reports about spheres is recorded with the entry that moved and
applied when that entry's turn comes in a queue (`UpdateDirty`, a few entries at a time).
An entry that is removed leaves the queue, where the last one takes its place. What others
have recorded about it stays, with its address; an entry of the model is such an address,
which another entity may get later. Perception is switched on and off (`PerceptionOn`,
`PerceptionOff`) and entries change their size (`Resized`). Places are cells, of which a
sphere covers one or all.

### What comes from elsewhere

`MCExchange` puts these side by side with `OperationsDispatcher`.

**`Teleport`** – `Juncture.cpp`, `Peer.cpp`, `CommPeer.cpp`, `TeleportProperty.cpp`.
The juncture connects and logs in, entities are sent as Create operations and deleted
when the other server confirms them, minds are told where to follow. The receiving side
is that of this commit (`Account.cpp`, `Admin.cpp`: `PeerLogsIn`, `PeerCreates`,
`PeerRefuses`, `PeerIgnores`): it creates the entity without an answer that this side could
read as a confirmation, and nothing there reads the key. `PeerConfirms` is the answer that
`Peer.cpp` waits for, as a server that implements the protocol would send it, and the only
external step; the connection may be lost with requests under way.

**`Rules`** – `Ruleset.cpp`, `EntityRuleHandler.cpp`, `EntityFactory.cpp`,
`TypeNode.cpp`, `TypeUpdateCoordinator.cpp`. Rules are read in the order of their
names and wait for their parents (`WaitForRule`, `InstallRule`); files are written
while the server runs (`WriteRule`, `ModifyRule`), a batch at a time
(`ProcessChangedRules`). A type's attribute is inherited, overridden or appended to,
and worked out again for all descendants.

**`Importer`**, **`Exporter`** – `EntityImporterBase.cpp`, `EntityExporterBase.cpp`.
The walk of each with its queue of requests and every kind of answer; the exporter's
world changes meanwhile. `ExtractPrependAppend` is the pure algorithm that turns an
entity's list into what it adds in front of and behind its type's list;
`ListsRestored` checks it over all lists up to `MaxList` against the import that puts
them together again.

**`Memory`** – `MemMap.cpp`, `MemEntity.cpp`, `TypeResolver.cpp`, `BaseMind.cpp`: what
a mind of the AI client remembers, from perceptions in any order, and the types it
still has to ask for. The minds of a client share the store of types: the module follows
one mind, `OtherMindInstalls` is what the others do to the store, `Answered` the answer to
its own Get, and `Overheard` an Info for the account that all minds are given.

**`Awareness`** – `Awareness.cpp`, with the calls of `AwareMind.cpp` and
`Steering.cpp`. Minds of one kind share a mesh. `EntityAdded`, `EntityUpdated`,
`EntityLeft` and `EntityDeleted` change the areas that entities cover and mark tiles
dirty, as aware or unaware; `SetAwarenessArea` moves tiles between those lists;
`RebuildDirtyTile` and `PruneTiles` are the background work: a tile that cannot be built
loses its mark and keeps its old mesh. The terrain is shared by minds of all kinds:
`TerrainChanged` marks tiles, `TerrainChangedElsewhere`, through a mind that has no
awareness yet or that of another kind, does not. `unbuilt` and `unheeded` are history
variables for these two. What is known of an
entity is abstracted to the tiles it covers, and each report carries the time of what
it is based on, so that old reports arrive late.

**`AIClient`** – `BaseClient.cpp`, `PossessionClient.cpp`, `PossessionAccount.cpp`. The
server asks for possession, `TakePossession` answers with a callback and a timer,
`AnswerArrives` makes a mind, `CallbackTimeout` gives up. `DispatchTimer` and
`DispatchHandler` are the one timer that drives all minds: it may have expired, with
its handler queued, when it is set again. The server's side is what one client sees of
`ExternalMindsManager`, `PossessionAuthenticator` and `Account::PossessOperation()`:
`ServerAsks` may ask again for an entity, another client may use the key first
(`KeyUsedElsewhere`), and `ServerAnswers` sends nothing at all when the key is not the
present one, the entity is gone or the account has a mind on it already. Such a callback
is left to its timer.

**`Streams`** – `CommAsioClient_impl.h`, `Link.cpp` and the flush in
`Connection::dispatch()`. Everything written is a number, counted up. The negotiation
writes from the write buffer itself (`NegotiateGoesOn`, with the completion handler
`NegotiateWritten`); later writes swap two buffers (`WriteOut`, `Written`,
`WriteFails`). `Flush` comes in every frame, whatever the state.

**`PostgresQueue`** – `DatabasePostgres.cpp`, `CommPSQLSocket.cpp`. The other back end
sends one command at a time and learns from a socket's handler that it is complete
(`ReadResult` and `ReadComplete`, as the two can arrive apart), unless a synchronous query
(`SynchronousQuery`) waits for it first. `TryReConnect` replaces the connection and leaves
the queue and its flag as they are. `PostgreSQL` is external: `session` is what it does for
the connection, `orphans` what it may still do for one that is gone. The start is that of
a build without assertions: with them the constructor of `CommPSQLSocket`, which
`createDatabase()` calls before there is a connection, aborts.

The `MC...` modules give names to model values and small shapes (a tree to import, a
hierarchy of types); the `.cfg` files give the constants.

## 3. Runs

`MCSimulation` and `MCExchange` each check several parts that share no variables.
Their variable `part` says which one a behaviour is about; the others stay as they
are at the start, so the states of a run are the sum, not the product, of its parts.

| Run | What it shows |
|---|---|
| `main_loop` | `OnlyEarlierOvertake`: whatever the handlers, clients and a resumed world add, with whatever times, an operation that waits is only overtaken by those stamped strictly earlier. `EveryOpHandled` and `SignalEndsServer`, under fairness. |
| `world` | `RouterInv`: the operations of a deleted entity are handled, the branch of `operation()` that walks over all entities is dead code, nothing is left in the suspended queue of a world that runs, and the count of entities is right. `OneTickEach`: suspending and resuming, any number of times and while entities are created, keeps each entity's single tick. `ImmediateInOrder` with a clock that is only precise to two ticks. |
| `storage` | `QueuesInv` (each living entity stands in the queues as often as its flag says; a destroyed one will lose its row), `NothingForgotten` and `ShutdownStoresWorld` in a process that started with an empty database, with a limit of one pending command; the last one says which entities the limit costs at shutdown. |
| `storage_restart` | `FreshIds` after crashes and restarts, `EventuallyStored` although a limit of one pending command keeps updates back: the tables hold the changed entity as it is, not only its commands. |
| `storage_reinsert` | **violation** of `RestoredNotInserted`: entities restored from the database are inserted again. |
| `storage_new_ids` | **violation** of `NewIdsUnique`: after a restart `newId()` returns an id that still has property rows. |
| `sqlite_queue` | `Inv`, `BlockedUntilComplete`, `DestructorDrains`, the refinement `ImplementsLog`, and the liveness properties `EveryCommandRuns`, `BlockEnds`, `DestructorEnds`. |
| `simulation` | Sessions: `SessionsAgree` and `MindsAgree`. `NoTickLost`: entities go on ticking, at one tick each where ticks are numbered, whatever suspended instances store and send again. `TasksGoOn`: every task is owed the tick it waits for. `OpenOnlyInTouch`: an open container is within reach through every domain in between. `StacksConserved`. `WornOnce`: the wearer's value is changed by exactly the active modifiers of what is worn. `MutualSight`: the two sides of an observation agree, no address of a freed entry is kept but in one case that is named, and what is recorded has its turn. `RelaysAnswered`: as long as both minds are there a relayed question has exactly one fate. |
| `possession_lost` | **violation** of `SomeoneAsked`: an entity stays without a mind although a possessive client is logged in. |
| `container_freed` | **violation** of `PrecautionsSuffice`: a closeness observation is read after a callback has freed it. |
| `exchange` | Dispatcher: `DispatchInv`, `NoOversleep`. Teleport: `NoTravellerLost`, and `KeyOfThatCopy`: the key a mind is told was sent with the copy that was confirmed. `TypesInherit`. `ImportFaithful`: what is created has its place, and its references unless their Set was refused. `ExportFaithful` (with `ListsRestored`). `MemorySound`: the remembered tree hangs together, and every type that is waited for is asked for or resolved with its parent, whatever other minds install. `StreamIntact`. `MeshCurrent`: a tile that is not marked shows the present areas and terrain, except where its rebuilding yielded nothing or the terrain changed through a mind without this mesh, and the marks are on the right lists. `MindsLent` and `MindsTick` of the AI client. `PostgresInOrder`: no command runs twice, and only one that was under way on a lost connection is dropped or late. |
| `rules_applied` | **violation** of `EntitiesFollowTypes`: a property that is new in a type is not applied to the entities that exist. |

**Bounds, and why they are enough.** All bounds are constants in the guards.

- Dispatcher: times 0 to 2 and four operations give ties, operations added behind,
  between and in front of others, and a processor that adds during the call.
  Operations do not differ in content: order depends on time and arrival only.
- Main loop: four operations with times 0 to 2, also before the present, and two signals; more signals repeat the second one,
  which finds the exit already under way.
- World: two entities besides the world, one that perceives and one that does not;
  four operations are enough for suspend, create, resume, suspend again, or for two
  Deletes of one entity with an operation from it in between. At the bound of the
  sequence the model may stop, which `AtBound` marks. The run uses a `VIEW` without
  the dispatcher's history, which nothing there reads. The time a maker sets is that of the
  start (`Presets`), in front of everything due; later times come from delays.
- Storage: two entities (one can contain the other), two values, two changes; one
  entity and one restart for the two counterexamples. `DirtyLimit` is 1 in the two
  passing runs, so that it is reached, and the code's 200 in the counterexamples.
- SQLite queue: four commands of two kinds and two spurious wake-ups: the worker is
  met idle, busy and about to sleep. The theorems hold for any number.
- Sessions: two connections, an admin and a player, one entity, two minds; the
  counterexample has two admins.
- Relays: three minds, two of them of one entity, and two questions: they can have the
  same client serial number, cross, or go to the same mind.
- Suspended property: two entities share a default, one of them with a script that blocks its
  ticks, one has ticks without numbers; numbers up to three, two stored ticks.
- Tasks: two ids, two actions, three tasks and serial numbers up to three: a task is
  replaced twice while ticks of both its predecessors are queued.
- Containers: three containers and two observers (two and one for the
  counterexample): chains of two and siblings, opened by both.
- Stacks: three entities of one kind and one of another, two stores, four in all: a
  stack is split, the part is split again and stacked elsewhere.
- Garments: two wearers, two garments, two attachment points, two values of each
  "modify", of which one garment has its first from the type.
- Visibility: two entries, one of which is an administrator's and changes its size; two
  cells; one entry per tick (10 in the code), so that the queue is worked off in parts;
  two removals, resizings and changes of perception, so that the memory of an entry that
  others still know is used again.
- Teleport: two travellers and three requests, so that one is repeated.
- Rules: four rules, two of them built in, two writes while the server runs; one rule
  can change its parent. Import and export: four entities in two branches, two requests
  at a time (5 in the code), two changes of the world, lists up to four of two values.
- Memory: two entities, each in the other or outside; a type, one that comes from it, and one
  above both, so that answers resolve chains of two. The theorem holds for any tree of types.
- Awareness: two minds, one entity that is also one mind's body, two tiles, areas on
  the first or on both, of which minds ask for the second or for none, so that areas come
  and go on it and it is pruned when nobody needs it; four times of knowledge (0 for
  none), one change of the terrain, and one tile at a time that could not be built or
  whose terrain changed unheeded (`MaxLapses`). The theorem holds for any areas and
  requests.
- Streams: five things written: one greeting, two answers in the negotiation, the
  beginning of the codec's stream and one object, or fewer answers and more objects.
- PostgreSQL: four commands, two of them at once for maintenance, and two broken
  connections besides the one that is replaced at the start.
- AI client: two entities; three questions of the server, so that one entity may be asked
  for twice (`MaxAsks`); time for each mind to tick once more (`MaxClock`); any callback
  may time out.

`CHECK_DEADLOCK FALSE` is used for `sqlite_queue`, where the run ends with the
destructor or, in one window, with a `join()` that does not return, and for
`simulation`, `exchange` and the counterexamples of their parts, which end when the
bounded supply of minds, requests, files or things to write is used up.

**Fairness.** `MainLoop`: the one thread does not stop between two steps (weak
fairness of each step of a frame), the frame's timer ends the I/O phase because it
is armed before it, and the armed soft exit timer is run by some frame (strong
fairness, as it is enabled in I/O phases only; asio runs an expired timer before
later ones). Nothing is assumed of clients, signals, or of how many operations a
frame has time for. `Storage`: the idle connector's timer calls `tick()` every
second, the worker thread runs, and queued Update operations are dispatched, which
`EveryOpHandled` shows for the main loop. `SQLiteQueue`: the operating system runs
both threads; the main thread ends the calls it has begun and need not begin another.
The parts of `simulation` and `exchange` state what must come in the end as
invariants instead (a tick is owed, a timer is set, a type is asked for, a tile is
marked on the list that is worked off), and need no fairness.

## 4. Proofs

TLAPS checks about 20,900 obligations in eight modules, for every value of the constants. Each
invariant was checked by TLC on the run's instance before it was proved. Where the code
goes through a list (the commands of a tick, the entries of a queue, the requests of a
batch) the model has a function of the number of steps done, and the proofs look at the
least number for which a claim fails (`LeastNumber`, from the library's `WFMin`), because
the library's induction rules cannot be instantiated.

**`OperationsDispatcherProofs`**, assuming only that the bounds are natural numbers
(`BoundsAssumption`). `NoOvertaking` speaks of operations already dispatched and is
not inductive: it needs what is true of those that still wait. The inductive
invariant `IInv` adds `WaitingIsLater` (whatever arrived before a dispatched
operation and still waits is due strictly later) and `SequencesUnique`. The lemma
`AddedEntries` says what a batch of additions does to the queue, `AddKeepsQueue`
that it keeps the queue's part of the invariant, wherever it is called from, and
`DispatchKeepsOrder` that popping the top and letting the processor add keeps the
order. Results: `TypeCorrect`, `DispatchOrder` (`DispatchInv`) and `DirtyFlagSound`
(`NoOversleep`). `LoopDrivesDispatcher` shows that `MainLoop` implements the dispatcher's
specification, so that `IInv` holds in the server; with it the action property
`OnlyEarlierOvertake` follows from the numbers and times of what is added
(`AddedInFront`): `OvertakenOnlyByEarlier`. Nothing is assumed of those times: a resumed
world sends ticks with their old ones, and operations keep the seconds they came with.

**`SQLiteQueueProofs`**, assuming that the moved-from value is not a command
(`QueueAssumption`). The inductive invariant is `Inv`, that is `TypeOK /\ LogInv /\
EndInv`: issued is what was popped followed by the queue, where the front counts
although it is moved from while the worker runs it. `EmptyMeansDone` is the reason
for the design of `poll_tasks()`: because the entry is popped after the command has
run, an empty queue means that everything has run. From it follow
`BlockedCallerSeesAll` and `DestructorLosesNothing`; `QueueImplementsLog` shows that
every step is a step of `CommandLog` or leaves its variables alone.

**`TransferProofs`** is about entities that go from one world to another.
*Teleport*, assuming that the entities are finitely many and the bound is a
natural number (`TeleportAssumption`, of which the proofs need little: they hold for
every set of travellers). `NoTravellerLost` alone is not inductive: an entity is
deleted when a confirmation is read, so what waits to be read must be true
(`AnswersHonest`). `TravellersArrive` follows from the two with the types (`LostInv`).
`KeyOfThatCopy` compares two keys that were made in one call and take different ways,
one to the other server and back, one through `m_teleports`. `FollowInv` adds
`OneRequest` (as long as the peer is not lost and nothing was given up, a request under
way has its key recorded, and no entity has two of them on the wire, be it in one
direction or one in each) and `GivenUpLast` (`checkAuth()` gives teleports up in its
last call only). The result is `KeysBelongToCopies`.
*Import*, assuming that the dump is a tree: the entities are in one place each, and in
the world, directly or not (`ImporterAssumption`, as the exporter writes them).
`ImportInv` has `WalkInv` about the stack of the walk: each frame is that of the child its
parent's has reached, children up to there were met and later ones were not, and with an
entity that has left the stack all that is in it was met (`NextKeeps`, `WalkToIs`). When
the stack is empty everything was met, since the tree is the least set with the world and
the children of its members (`AllMet`). `PlacesInv` says where what was created was put and
by which id, `RefersInv` and `HeldBack` which references an entity has on the server and
which are held back, `PhaseInv` and `LastInv` what is so in each phase. Result:
`ImportAlwaysFaithful`.
*Export*, assuming that the entities are finitely many, each in another one or the world,
and that types derive from types (`ExporterAssumption`). `ExportInv` speaks of a world that
did not change: while entities are asked for, those requested and those queued are one
sequence without repetitions (`Pending`) whose members are in what is dumped already, and
what the dumped ones hold is dumped, pending or skipped (`PendingInv`); what is written of
them is right so far (`DumpInv`), ids below the number of those dumped included.
`PolledKeeps` shows that `pollQueue()` leaves the sequence as it is, `DumpKeeps` and
`DumpedNext` what an answer does to it. When nothing is pending, what is dumped is closed
under content and is therefore `Kept`, the least such set (`AllDumped`).
`AllListsRestored` proves `extractListPrependAppend()` for lists of any length. Result:
`ExportAlwaysFaithful`.

**`WorldRouterProofs`**, assuming that the bounds and the resolution of the clock are
positive and that those who perceive are entities (`WorldAssumption`). `RouterInv`, `OneTickEach` and `ImmediateInOrder` are proved
together, from `WorldInv`, which is `QueueInv` (every queued operation has a number that
was given out, and both its ends are known: in the world or destroyed), `AsideInv` (what
is set aside are ticks, and there is nothing aside in a world that runs), `EntitiesInv`
and `TicksInv` (the one tick of an entity is queued or set aside, never both). The lemmas
about `WithAdded` say what a batch of new operations does to the ticks of one entity and
to the order; every `Deliver...` action then says which entries leave and which batch
comes. Results: `RouterAlwaysSound`, `OneTickAlways`, `ImmediateAlwaysInOrder`.

**`StorageProofs`**, assuming that the bounds are numbers and that there is a value
(`StorageAssumption`). `PersistenceInv` has three parts. `FreshInv`: an id that is not
given out occurs in no table, command or queue, which holds across crashes and restarts
and gives `IdsAlwaysFresh`. `QueueInv`: the queues hold each entity once, as its flag
says, and no entity is inside itself, directly or not (`Contained`, stated over sets of
entities: each has a member whose parent is outside), so that a Delete finds its
children and the restored tree has an order. `StoreInv` compares an entity's flags with
what the database will hold once the pending commands have run (`FutureDatabase`):
`Stored` for entities whose flags say so, `Noted` for changes that are still to be
written, `Dropped` for destroyed ones. `AfterConcat` and `AfterTail` reduce scheduling
and running commands to single commands, and `Changed` says what one command does to one
entity. `StoreInv` is about a process that started with an empty database (`restarts =
0`): after a restart the restored entities are inserted again (section 5, no. 1), and the
rows are doubled. Results: `QueuesAlwaysSound`, `NothingEverForgotten` and
`ShutdownAlwaysStores`; the last one excepts the entities that the limit of the one
`tick()` of `shutdown()` left in `m_dirtyEntities`.

**`SessionsProofs`**, assuming that stored accounts and administrators are accounts and
that no connection is the value for none (`SessionsAssumption`). `SessionsInv` adds to
the two properties what makes each handler's assumption true: an account is logged in on
at most one connection, which is alive (`LoggedIn`, `LinksAlive`); only those may claim
an entity that were given a key (`Claimable`); the lists of minds of accounts, entities
and connections agree (`MindLists`, `MindsConnected`, `MindRouters`); the connection that
the manager may ask knows it (`RegistrationsKnown`), and the manager is connected to the
signals of every entity that wants a mind (`WantedIsWatched`). Lemmas about the parts of
the handlers (taking minds away, asking the next client) are used for logout, disconnect
and destruction alike. Results: `SessionsConsistent`, `MindsConsistent`.

**`SimulationProofs`** has one invariant for each of seven parts.
*Tasks* (`TasksInv`): a task's tick is queued with its number; numbers of replaced tasks
overlap, and nothing needs them not to. Result: `TasksAlwaysGoOn`.
*Suspension* (`SuspendedInv`): where ticks are numbered, all that is stored, in an entity's
own instance or in one that its type shares, has a number that was expected before
(`Past`), and no queued tick has one that is still to come (`NoneAhead`); so what is sent
again is never the tick that is expected. Result: `NoTickEverLost`.
*Relays* (`RelaysInv`): a question between two linked entities is in exactly one of four
states: queued, registered with its wait running, its answer queued, or answered;
numbers of operations tell questions of different minds apart where their clients'
numbers do not. Result: `RelaysAlwaysAnswered`.
*Visibility* (`VisibilityInv`): `SightSound` adds to the agreement of the two sides that
what is recorded to appear is in the domain or was freed while it was recorded, that only
entries in the domain have spheres, and that nothing is recorded with the others;
`RecalculateSound` that the queue holds each entry once, so that taking it out once is
enough; `RefreshedTo` follows one tick through its entries. `ChangesMutual` and
`UnlinkedMutual` are the two places where both sides change. Result: `SightAlwaysMutual`.
*Stacks* (`StacksInv`): the amounts of all stacks are added up over a finite set, and
each step moves, adds or takes the same amount on both sides of the balance; that a store
has one stack of a kind needs that what arrives is compared with all that is there.
Result: `StacksAlwaysConserved`.
*Containers* (`ContainersInv`): the chain of containers around one is the least set that
is closed under going outwards, so no recursion has to be followed. Besides
`OpenOnlyInTouch` there is no observation of a container that is not open, what is in the
world is in something that is (`Placed`), and no container is inside itself, directly or
not (`Contained`, stated over sets as in `StorageProofs`). `OpeningKeepsTouch`,
`ClosingKeepsTouch` and `MovingKeepsTouch` are about what the operations share, and
`BetweenIs` about what lies between an observer and a container. Result: `AlwaysInTouch`.
*Garments* (`GarmentsInv`): the value of each wearer is the plain one with the modifiers
in its property applied in order, the active modifiers in there are those of each garment
worn, each in one place, and nothing that was destroyed is attached or modifies anything;
`CheckedBy` follows one change of place through its garments. Garments whose `modify` comes
from a default of their type and that then get a value of their own are left out, as in
`WornOnce` itself. Result: `WornAlwaysOnce`.

**`ExchangeProofs`** has one for each of six parts.
*PostgreSQL* (`PostgresInv`): commands are numbered in the order of their scheduling; the
parts say what was run (`RanTo`), what was lost with a connection (`LostTo`), what is
under way on the present one, and that these and the queue account for every number
(`Accounted`). Result: `PostgresAlwaysInOrder`.
*Memory* (`MemoryInv`): `PlacesInv` about the tree and `TypesInv` about types known,
pending and asked for, with other minds adding to the types known; the two meet in the
entities whose type is not known yet. Result:
`MemoryAlwaysSound`.
*Streams* (`StreamInv`): where each number written is, in the phases of the connection
(`Negotiating`, `InTurn`), and that what was flushed is on its way (`FlushedGoes`).
Result: `StreamAlwaysIntact`.
*Navigation* (`MeshInv`): `TilesCurrent`, `MarksRight` and `AreasRest`, which are the
parts of `MeshCurrent`, are inductive together with the types; `ShowsPresent` is what an
unmarked tile shows. Result: `MeshAlwaysCurrent`.
*AI client* (`ClientInv`): the account has one mind on an entity, however often it is
asked for (`LinkedOnce`); a serial number is that of one request, of one answer or of a
request turned down (`SerialsOnce`), and every callback waits for one of the three
(`CallbacksWait`); an answer names a mind of which nothing is known here yet; the tables
of minds and entities are inverse to each other; each mind has one tick queued or under
way, and the timer is set no later than the first of them or has fired already. Results:
`MindsAlwaysLent`, `MindsAlwaysTick`.
*Rules* (`RulesInv`): `Founded` says that every set of installed types has one whose
parent is outside it, so a parent is never below its own child. The types below one are
the least set that is closed under children; `BelowIs` and `NotBelowItself` say what is in
it, and `UpdatedInherits` follows the walk through them by the least type that would be
wrong. Result: `TypesAlwaysInherit`.

Only model-checked: liveness, because the prover does not treat fairness and `ENABLED`:
`EveryOpHandled`, `SignalEndsServer`, `EventuallyStored`, `EveryCommandRuns`, `BlockEnds`,
`DestructorEnds`. Every invariant and action property that a passing run checks is stated
by a theorem.

## 5. Where the code and what it says differ

Shown by runs:

1. `restoreChildren()` marks a restored entity as clean, but entering the world
   resets the flag (`src/rules/LocatedEntity.cpp:602`) before the storage manager
   looks at it, so the first tick inserts every restored entity again and doubles
   its property rows (`storage_reinsert`).
2. The id generator starts after the highest id of the entities and accounts
   tables, while rows of the properties table can outlive their entity
   (`storage_new_ids`).
3. A request for possession is lost when the client that was asked logs out or
   disconnects before it answers (`possession_lost`).
4. `PhysicalDomain::removeEntity()` and `ContainerDomain::removeEntity()` call the
   callbacks of closeness observations that an earlier callback has freed, although
   comments ask for extra precautions (`container_freed`).
5. `TypeUpdateCoordinator` walks twice over the changed properties of a type and never
   over the new ones (`rules_applied`).

Exceptions that the properties name, because the code has them:

- `blockUntilAllQueriesComplete()` waits once and not in a loop: a spurious wake-up
  lets the caller go early (premise of `BlockedUntilComplete`).
- `~DatabaseSQLite()` sets `m_active` and notifies without the mutex: a worker
  between its test and its wait misses both and `join()` hangs (premise of
  `DestructorEnds`).
- What the limit of pending commands holds back when `shutdown()` calls `tick()` once is
  not stored (`ShutdownStoresWorld`), and neither is the move of a restored entity before
  the first tick, whose INSERT fails on the row that is there (`SpoiltByRestart` in
  `EventuallyStored`).
- The tick of an entity whose handler threw is never sent again (`failed`).
- `SuspendedProperty.h` says that a suspended entity "won't react to any Tick operations".
  `Entity::operation` calls the scripts first and then every delegate, so that what keeps
  an entity ticking sees the tick all the same, and the property stores it besides. Ticks
  kept in an instance that a type has as its default are sent by every entity of the type
  that is resumed. Numbered ticks are ignored when they come again; those of a physical
  domain are not numbered, and each goes on as a sequence of its own (`Numbered` in
  `NoTickLost`).
- A "modify" property that is a type's default keeps listening after the garment has
  an instance of its own (`Shared` in `WornOnce`).
- `negotiate_write()` does not set `mIsSending`: when a frame's flush comes between a
  negotiation write and its handler, `write()` sends the greeting a second time, against
  the header's "No other write operations to the socket is allowed" (`overlapped` in
  `StreamIntact`). The main loop does start frames between two handlers.
- A Relay between two minds of one entity looks like the Relay a mind sends to itself
  and is lost (`RelaysAnswered` is about two entities).
- An answer after the timeout of five seconds leaves an entity with a mind on the
  server and none in the client (`givenUp`), and a mind whose entity is destroyed before
  it knows its own entity lingers on, with its tick (`own`), in `MindsLent`.
- A teleport that is given up and repeated can give a mind the key of the other copy
  (`timedOut` in `KeyOfThatCopy`).
- `operationSetResult()` counts every answer, Error and Unseen included: the references of
  an entity whose Set was refused are missing from a completed import (`refused` in
  `ImportFaithful`).
- `ExportFaithful` is about a world at rest: an entity that moves is dumped twice, and
  one that is destroyed stops the export, because its error does not poll the queue.

Met while modelling and not stated as properties:

- Main loop, world, storage: a second SIGTERM during a soft exit is not turned into a
  hard one, because `MainLoop.cpp:166` clears the flag that the handler tests;
  `Entity::removeDelegate` looks at the first delegate of a class only; a cleared world
  stays suspended if it was; `shutdown()` calls `tick()` once, so what the limit of 200
  commands holds back is lost; a crash between the DELETE of a container and the UPDATE
  of its children leaves children that are not restored; `queryQueueSize()` reads the
  queue's size without the mutex.
- Sessions: `Admin::LogoutOperation` forwards the Logout of another account to its
  client and leaves it logged in; `setPossessionEnabled(false)` leaves the account in
  `m_possessionRouters`, so an old connection's destructor can remove a newer
  registration; `requestPossession` puts entities that have a mind on the list of those
  that do not, and connects its signals once more each time.
- Connections: after `disconnect()` has cancelled a write the next flush sends later
  data behind a message that was cut off; the answer to a Logout can be lost in the same
  way; a negotiation that failed keeps its socket until the ten seconds are over.
- Tasks: serial numbers of all tasks start alike, so the tick of a replaced task can be
  taken for one of the new task, which then ticks early.
- Stacks: `Entity::destroy()` moves the contents out by a Move without an amount, of which
  a stack takes one thing: the rest of a contained stack stays in the destroyed entity.
- Garments: the `attached_` property of a wearer still names a garment that was moved
  away; a Set with `!append` on a property that is modified is lost; `setAttr` frees the
  old modifiers before `apply()` removes them; `LocatedEntity.cpp:285` tests a flag of
  the entity on a property.
- Visibility: what an entry sees can differ from what is in its view until one of the
  two moves; an appearance that is recorded when the entry is freed is applied all the
  same: it writes to the freed entry and its address stays in the set (`stale` in
  `MutualSight`); when perception is switched on, `PhysicalDomain.cpp:1332` gives the
  sphere to the collision library before line 1335 makes it the view sphere, so that what
  comes into view is recorded as if it saw the entry, without marking the entry
  (`switched`), and its shape is freed at the end of the block while the sphere refers to
  it; switched off, an entry keeps what it observed;
  `PhysicalDomain.cpp:1406` inserts where it should erase.
- Teleport: `onPeerLost()` does nothing, so `m_peer` dangles; a mind that is gone when
  the answer comes leaves the entity on both servers; any Error of the other server fails
  the peer; `cleanTeleports()` is called once, directly after the login, where a comment
  says periodically; `onSocketConnected()` dereferences before it tests for null.
- Rules: a rule that is written again while it waits is installed in its first form; a
  rule installed by an administrator does not install those that wait for it; a change
  of the parent is refused.
- Import: references of updated entities to created ones keep the old ids; an import
  without any Set never completes; an update that is refused stalls it; the children of
  an entity that could not be created get an empty location. Export:
  `extractMapPrepend` is given the entity's map twice.
- Memory: `del()` erases from `m_unresolvedEntities` by entity although it is kept by
  type; `check()` does not signal `entityDeleted`; `flush()` leaves `m_checkIterator`
  dangling; operations that waited for the own entity are delivered one per tick, after
  newer ones.
- Navigation: `pruneTiles()` throws the least recently used tile away, also one that is
  in use; `removeAwarenessArea()` is given the mind's id while areas are kept by the
  entity's; observers are counted too low when an entity leaves the domain and comes
  back; a mind's body that another mind reported first stays in the mesh as an obstacle;
  an entity that becomes flat keeps its old area; a tile that is blocked as a whole keeps
  its old mesh and loses its mark, and a mind that has no awareness yet changes the shared
  terrain without marking tiles of the meshes built from it (both in the model, excepted
  by `MeshCurrent`); `unawareTilesInArea()` compares iterators of different sets.
- PostgreSQL: between the result of a command and the end of its answer
  `clearPendingQuery()` gives up: a `newId()` in that window returns -1, and
  `blockUntilAllQueriesComplete()` never returns, as it does not with a lost connection
  either; a synchronous query leaves the rest of the queue waiting until something is
  scheduled or read; `connect()` replaces a connection without closing it, and a broken
  socket is closed twice; `cancel()` cancels the read only, whose handler sets the
  reconnect timer again, so that with this back end the final `io_context->run()` has
  always something to wait for, against the comment at `src/server/server.cpp:657`.
- AI client: a request for possession that the server does not accept is never answered
  (in the model; `MindsLent` names it); a timeout while the account is created leaves `m_account` null and the next
  operation dereferences it; handlers of timers that are queued run after the client is
  destroyed.

## 6. What is not modelled

`PROJECT.json` lists every part with its reason. In short: physics, path finding,
steering and astronomy compute with real numbers; the metaserver, mDNS, HTTP,
configuration and logging are I/O; the Python bindings and the scripts appear as
nondeterminism; the mesh deserialiser, the entity filter and the vendored compression
code are pure data transformations; and the interactive tool is a user interface. Within the modelled parts,
the contents of operations are reduced to what decides control, credentials are not
modelled, and an account's rows in the database are a set of known accounts. A large
share of the repository is code of these kinds, so the mapped lines are a small share of
all lines, and the larger part of the code that keeps state across events.

## 7. Plan

Done: dispatcher, main loop, world router, storage, database thread, sessions and
possession, relays, connections, suspension, tasks, containers, stacks, garments,
visibility, teleport, rules, import and export, AI memory, navigation, AI client and the PostgreSQL queue.

Left to model, in this order:

1. `Account administration` – account rows, passwords and characters, as a composition
   of `Sessions` with the tables of `Storage`.
2. The filters that `MindsProperty` applies to what minds send, and the Sights of what a
   mind loses sight of.
3. Transforms and propelling in `PhysicalDomain.cpp`, as far as they are control.

Abstract specifications worth stating: a durable map as what `Storage` promises
between restarts, and a single-session register for `Sessions`.

Next theorems: those of the components still to be modelled; of what is modelled, the
exporter's promises about a world that changes during the export.
