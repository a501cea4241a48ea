------------------------------- MODULE Tasks -------------------------------
(***************************************************************************)
(* The tasks of an entity (src/rules/simulation/TasksProperty.cpp and      *)
(* Task.cpp) and the actions they show (ActionsProperty.cpp).              *)
(*                                                                         *)
(* A Use operation on a tool ends in a script that starts a task under an  *)
(* id, which replaces the task that has that id.  A task lives from tick   *)
(* to tick: each tick carries the task's id and a serial number and makes  *)
(* the next.  What the scripts do is external: they may start an action or *)
(* another task, go on, end the task with irrelevant(), raise an exception *)
(* or report full progress.  Ticks of tasks that are gone stay queued.     *)
(***************************************************************************)
EXTENDS Integers, FiniteSets

CONSTANTS
    TaskIds,     \* the names tasks are started under
    Actions,     \* names of actions
    NoAction,    \* the empty m_action
    MaxTasks,    \* bound on the tasks that are started
    MaxSerial    \* bound on a task's serial number

ASSUME TasksAssumption ==
    /\ NoAction \notin Actions
    /\ MaxTasks \in Nat /\ MaxSerial \in Nat

VARIABLES
    m_tasks,     \* the task of each id: its number, serial number and action
    taskTicks,   \* Tick operations for the tasks that wait in the world's queue
    m_actions,   \* m_data of the ActionsProperty: the actions shown
    started      \* how many tasks were started (tells the tasks of an id apart)

Task(n, serialno, action) == [n |-> n, serialno |-> serialno, action |-> action]
NoTask == Task(0, 0, NoAction)   \* no entry in m_tasks

tasksVars == <<m_tasks, taskTicks, m_actions, started>>

TasksInit ==
    /\ m_tasks = [id \in TaskIds |-> NoTask]
    /\ taskTicks = {}
    /\ m_actions = {}
    /\ started = 0

NewTask(a) == Task(started + 1, 1, a)

TickFor(id, task) == [id |-> id, serialno |-> task.serialno, n |-> task.n]

\* Mutant: the tick gets the number from before newTick().
NextTick_PostIncrement(id, task) == [TickFor(id, task) EXCEPT !.serialno = @ - 1]

\* nextTick(): the tick of a task whose serial number newTick() has counted up.
NextTick(id, task) == TickFor(id, task)

\* What a script may do when it is called: start an action, and then go on, end
\* the task (irrelevant() or an exception), or set the progress to 1.
ScriptCall == [action : Actions \cup {NoAction}, ends : {"goes on", "obsolete", "progress"}]

\* stopAction(): the action is removed by its name, whoever else shows it.
StopAction(shown, a) == shown \ {a}

\* startAction(): an earlier action of the task is stopped first.
StartAction(shown, task, a) ==
    IF a = NoAction THEN shown ELSE StopAction(shown, task.action) \cup {a}

\* The task's action after a script call.
ActionAfter(task, call) == IF call.action = NoAction THEN task.action ELSE call.action

\* irrelevant(), by the script, by an exception, or by the destructor of the task's entry.
Irrelevant(shown, task) == StopAction(shown, task.action)

\* startTask(): the entry of the id is erased, the new task's setup() script runs;
\* a task that is not obsolete then gets its entry and its first tick.
StartTask(id, call) ==
    LET erased == Irrelevant(m_actions, m_tasks[id])
        task   == NewTask(call.action)
        shown  == StartAction(erased, NewTask(NoAction), call.action)
    IN  /\ started < MaxTasks
        /\ started' = started + 1
        /\ IF call.ends = "obsolete"
           THEN /\ m_tasks' = [m_tasks EXCEPT ![id] = NoTask]
                /\ m_actions' = Irrelevant(shown, task)
                /\ UNCHANGED taskTicks
           ELSE /\ m_tasks' = [m_tasks EXCEPT ![id] = task]
                /\ m_actions' = shown
                /\ taskTicks' = taskTicks \cup {NextTick(id, task)}

\* A tick for an id that has no task, or with a number other than the task's.
OldTick(tick) ==
    /\ m_tasks[tick.id].serialno # tick.serialno
    /\ taskTicks' = taskTicks \ {tick}
    /\ UNCHANGED <<m_tasks, m_actions, started>>

\* TickOperation(): the tick() script runs; the task ends with full progress or if
\* it is obsolete, by clearTask(), and goes on with its next tick otherwise.
TickOperation(tick, call) ==
    LET task  == m_tasks[tick.id]
        shown == StartAction(m_actions, task, call.action)
        after == Task(task.n, task.serialno + 1, ActionAfter(task, call))
    IN  /\ task.serialno = tick.serialno
        /\ IF call.ends = "goes on"
           THEN /\ task.serialno < MaxSerial
                /\ m_tasks' = [m_tasks EXCEPT ![tick.id] = after]
                /\ m_actions' = shown
                /\ taskTicks' = (taskTicks \ {tick}) \cup {NextTick(tick.id, after)}
           ELSE /\ m_tasks' = [m_tasks EXCEPT ![tick.id] = NoTask]
                /\ m_actions' = Irrelevant(shown, after)
                /\ taskTicks' = taskTicks \ {tick}
        /\ UNCHANGED started

\* The tick() script starts a task itself.  If it has the id of the ticking task,
\* that one is obsolete by now, and clearTask() erases the new task in its place.
TickStartsTask(tick, id, a) ==
    LET task   == m_tasks[tick.id]
        new    == NewTask(a)
        after  == Task(task.n, task.serialno + 1, task.action)
        erased == Irrelevant(m_actions, m_tasks[id])
        shown  == StartAction(erased, NewTask(NoAction), a)
    IN  /\ task.serialno = tick.serialno /\ task.serialno < MaxSerial
        /\ started < MaxTasks
        /\ started' = started + 1
        /\ IF id = tick.id
           THEN /\ m_tasks' = [m_tasks EXCEPT ![id] = NoTask]
                /\ m_actions' = Irrelevant(shown, new)
                /\ taskTicks' = (taskTicks \ {tick}) \cup {NextTick(id, new)}
           ELSE /\ m_tasks' = [m_tasks EXCEPT ![id] = new, ![tick.id] = after]
                /\ m_actions' = shown
                /\ taskTicks' = (taskTicks \ {tick})
                                \cup {NextTick(id, new), NextTick(tick.id, after)}

\* UseOperation() on a task: the script of one of its usages runs ("stop", say).
\* Whether its arguments are valid is looked up and not regarded.
UseOperation(id, call) ==
    LET task  == m_tasks[id]
        shown == StartAction(m_actions, task, call.action)
        after == Task(task.n, task.serialno, ActionAfter(task, call))
    IN  /\ task # NoTask
        /\ IF call.ends = "obsolete"
           THEN /\ m_tasks' = [m_tasks EXCEPT ![id] = NoTask]
                /\ m_actions' = Irrelevant(shown, after)
           ELSE /\ m_tasks' = [m_tasks EXCEPT ![id] = after]
                /\ m_actions' = shown
        /\ UNCHANGED <<taskTicks, started>>

TasksNext ==
    \/ \E id \in TaskIds, call \in ScriptCall : StartTask(id, call) \/ UseOperation(id, call)
    \/ \E tick \in taskTicks :
          \/ OldTick(tick)
          \/ \E call \in ScriptCall : TickOperation(tick, call)
          \/ \E id \in TaskIds, a \in Actions \cup {NoAction} : TickStartsTask(tick, id, a)

TasksSpec == TasksInit /\ [][TasksNext]_tasksVars

-----------------------------------------------------------------------------
\* A task lives until it ends: every entry of m_tasks is owed a tick with the
\* serial number it waits for, although ticks of replaced tasks with the same id
\* and overlapping numbers are queued too, and no action is shown that no task of
\* the entity shows.
TasksGoOn ==
    /\ \A id \in TaskIds :
          m_tasks[id] # NoTask =>
              \E tick \in taskTicks : tick.id = id /\ tick.serialno = m_tasks[id].serialno
    /\ \A a \in m_actions : \E id \in TaskIds : m_tasks[id].action = a

=============================================================================
