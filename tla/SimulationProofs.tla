-------------------------- MODULE SimulationProofs --------------------------
(***************************************************************************)
(* Proofs about the parts that keep an entity's state: its tasks, its      *)
(* suspension, the questions from mind to mind, who sees whom in a         *)
(* physical domain, stacks, containers that are looked into, and what is   *)
(* worn.  The parts share no variables.                                    *)
(***************************************************************************)
EXTENDS Tasks, SuspendedProperty, Relays, Visibility, Stacks, Containers, Garments,
        FiniteSetTheorems, SequenceTheorems, WellFoundedInduction, NaturalsInduction, TLAPS

-----------------------------------------------------------------------------
(* Tasks *)

\* Ticks name an id under which tasks are started; serial numbers are numbers.
TasksTypes ==
    /\ m_tasks \in [TaskIds -> [n : Nat, serialno : Nat, action : Actions \cup {NoAction}]]
    /\ taskTicks \subseteq [id : TaskIds, serialno : Nat, n : Nat]
    /\ started \in Nat

\* Every task that is not over has its tick, and every action shown its task.
TicksOwed ==
    \A id \in TaskIds :
        m_tasks[id] # NoTask => \E tick \in taskTicks : tick.id = id /\ tick.serialno = m_tasks[id].serialno
ActionsShown == \A a \in m_actions : \E id \in TaskIds : m_tasks[id].action = a

TasksInv == TasksTypes /\ TicksOwed /\ ActionsShown

\* The tick of a task carries the task's id and number.
LEMMA NextTickFor ==
    ASSUME NEW id \in TaskIds, NEW task \in [n : Nat, serialno : Nat, action : Actions \cup {NoAction}]
    PROVE  /\ NextTick(id, task) \in [id : TaskIds, serialno : Nat, n : Nat]
           /\ NextTick(id, task).id = id /\ NextTick(id, task).serialno = task.serialno
  BY DEF NextTick, TickFor

\* One entry of m_tasks changes.  Its new task has a tick; no tick is lost that another
\* task waits for; and of the actions that were shown, what is left belongs to others.
LEMMA EntryKeeps ==
    ASSUME TasksInv, NEW id \in TaskIds,
           NEW task \in [n : Nat, serialno : Nat, action : Actions \cup {NoAction}],
           m_tasks' = [m_tasks EXCEPT ![id] = task],
           task # NoTask => \E tick \in taskTicks' : tick.id = id /\ tick.serialno = task.serialno,
           \A tick \in taskTicks : tick.id # id => tick \in taskTicks',
           \A a \in m_actions' : a = task.action \/ (a \in m_actions /\ a # m_tasks[id].action)
    PROVE  TicksOwed' /\ ActionsShown'
<1>1. TicksOwed'
  BY DEF TasksInv, TasksTypes, TicksOwed
<1>2. ActionsShown'
  BY DEF TasksInv, TasksTypes, ActionsShown
<1> QED
  BY <1>1, <1>2

LEMMA StartTaskKeeps ==
    ASSUME TasksInv, NEW id \in TaskIds, NEW call \in ScriptCall, StartTask(id, call)
    PROVE  TasksInv'
<1> DEFINE new == NewTask(call.action)
<1>1. /\ started' = started + 1 /\ started \in Nat
      /\ new \in [n : Nat, serialno : Nat, action : Actions \cup {NoAction}]
      /\ new.action = call.action
      /\ NoTask \in [n : Nat, serialno : Nat, action : Actions \cup {NoAction}]
  <2>1. started' = started + 1 /\ started \in Nat
    BY DEF StartTask, TasksInv, TasksTypes
  <2>2. call.action \in Actions \cup {NoAction}
    BY DEF ScriptCall
  <2> QED
    BY <2>1, <2>2 DEF NewTask, Task, NoTask
<1>2. CASE call.ends = "obsolete"
  <2>1. /\ m_tasks' = [m_tasks EXCEPT ![id] = NoTask] /\ taskTicks' = taskTicks
        /\ \A a \in m_actions' : a \in m_actions /\ a # m_tasks[id].action
    BY <1>1, <1>2 DEF StartTask, StartAction, StopAction, Irrelevant
  <2>2. TasksTypes'
    BY <1>1, <2>1 DEF TasksInv, TasksTypes
  <2> QED
    BY <1>1, <2>1, <2>2, EntryKeeps DEF TasksInv
<1>3. CASE call.ends # "obsolete"
  <2>1. /\ m_tasks' = [m_tasks EXCEPT ![id] = new] /\ taskTicks' = taskTicks \cup {NextTick(id, new)}
        /\ \A a \in m_actions' : a = new.action \/ (a \in m_actions /\ a # m_tasks[id].action)
    BY <1>1, <1>3 DEF StartTask, StartAction, StopAction, Irrelevant
  <2> HIDE DEF new
  <2>2. /\ NextTick(id, new) \in [id : TaskIds, serialno : Nat, n : Nat]
        /\ NextTick(id, new).id = id /\ NextTick(id, new).serialno = new.serialno
    BY <1>1, NextTickFor
  <2>3. TasksTypes'
    BY <1>1, <2>1, <2>2 DEF TasksInv, TasksTypes
  <2>4. /\ \E tick \in taskTicks' : tick.id = id /\ tick.serialno = new.serialno
        /\ \A tick \in taskTicks : tick \in taskTicks'
    BY <2>1, <2>2
  <2> QED
    BY <1>1, <2>1, <2>3, <2>4, EntryKeeps DEF TasksInv
<1> QED
  BY <1>2, <1>3

LEMMA UseOperationKeeps ==
    ASSUME TasksInv, NEW id \in TaskIds, NEW call \in ScriptCall, UseOperation(id, call)
    PROVE  TasksInv'
<1> DEFINE task == m_tasks[id]
           after == Task(task.n, task.serialno, ActionAfter(task, call))
<1>1. /\ task \in [n : Nat, serialno : Nat, action : Actions \cup {NoAction}] /\ task # NoTask
      /\ after \in [n : Nat, serialno : Nat, action : Actions \cup {NoAction}]
      /\ after.action = ActionAfter(task, call) /\ after.serialno = task.serialno
      /\ NoTask \in [n : Nat, serialno : Nat, action : Actions \cup {NoAction}]
      /\ UNCHANGED <<taskTicks, started>>
  BY DEF UseOperation, Task, ActionAfter, NoTask, TasksInv, TasksTypes, ScriptCall
<1>2. \E tick \in taskTicks : tick.id = id /\ tick.serialno = task.serialno
  BY <1>1 DEF TasksInv, TicksOwed
<1>3. CASE call.ends = "obsolete"
  <2>1. /\ m_tasks' = [m_tasks EXCEPT ![id] = NoTask]
        /\ \A a \in m_actions' : a \in m_actions /\ a # m_tasks[id].action
    BY <1>1, <1>3 DEF UseOperation, StartAction, StopAction, Irrelevant, ActionAfter
  <2>2. TasksTypes'
    BY <1>1, <2>1 DEF TasksInv, TasksTypes
  <2> QED
    BY <1>1, <2>1, <2>2, EntryKeeps DEF TasksInv
<1>4. CASE call.ends # "obsolete"
  <2>1. /\ m_tasks' = [m_tasks EXCEPT ![id] = after]
        /\ \A a \in m_actions' : a = after.action \/ (a \in m_actions /\ a # m_tasks[id].action)
    BY <1>1, <1>4 DEF UseOperation, StartAction, StopAction, ActionAfter
  <2>2. TasksTypes'
    BY <1>1, <2>1 DEF TasksInv, TasksTypes
  <2> HIDE DEF after
  <2> QED
    BY <1>1, <1>2, <2>1, <2>2, EntryKeeps DEF TasksInv
<1> QED
  BY <1>3, <1>4

\* An old tick is not the one its task waits for.
LEMMA OldTickKeeps ==
    ASSUME TasksInv, NEW tick \in taskTicks, OldTick(tick)
    PROVE  TasksInv'
  BY DEF TasksInv, TasksTypes, TicksOwed, ActionsShown, OldTick

LEMMA TickOperationKeeps ==
    ASSUME TasksInv, NEW tick \in taskTicks, NEW call \in ScriptCall, TickOperation(tick, call)
    PROVE  TasksInv'
<1> DEFINE id == tick.id
           task == m_tasks[id]
           after == Task(task.n, task.serialno + 1, ActionAfter(task, call))
<1>1. /\ id \in TaskIds /\ started' = started
      /\ task \in [n : Nat, serialno : Nat, action : Actions \cup {NoAction}]
      /\ after \in [n : Nat, serialno : Nat, action : Actions \cup {NoAction}]
      /\ after.action = ActionAfter(task, call)
      /\ NoTask \in [n : Nat, serialno : Nat, action : Actions \cup {NoAction}]
  <2>1. /\ id \in TaskIds /\ started' = started
        /\ task \in [n : Nat, serialno : Nat, action : Actions \cup {NoAction}]
    BY DEF TickOperation, TasksInv, TasksTypes
  <2>2. ActionAfter(task, call) \in Actions \cup {NoAction}
    BY <2>1 DEF ActionAfter, ScriptCall
  <2> HIDE DEF task
  <2> QED
    BY <2>1, <2>2 DEF Task, NoTask
<1>2. CASE call.ends = "goes on"
  <2>1. /\ m_tasks' = [m_tasks EXCEPT ![id] = after]
        /\ taskTicks' = (taskTicks \ {tick}) \cup {NextTick(id, after)}
        /\ \A a \in m_actions' : a = after.action \/ (a \in m_actions /\ a # m_tasks[id].action)
    BY <1>1, <1>2 DEF TickOperation, StartAction, StopAction, ActionAfter
  <2> HIDE DEF after
  <2>2. /\ NextTick(id, after) \in [id : TaskIds, serialno : Nat, n : Nat]
        /\ NextTick(id, after).id = id /\ NextTick(id, after).serialno = after.serialno
    BY <1>1, NextTickFor
  <2>3. TasksTypes'
    BY <1>1, <2>1, <2>2 DEF TasksInv, TasksTypes
  <2>4. /\ \E t \in taskTicks' : t.id = id /\ t.serialno = after.serialno
        /\ \A t \in taskTicks : t.id # id => t \in taskTicks'
    BY <2>1, <2>2
  <2> QED
    BY <1>1, <2>1, <2>3, <2>4, EntryKeeps DEF TasksInv
<1>3. CASE call.ends # "goes on"
  <2>1. /\ m_tasks' = [m_tasks EXCEPT ![id] = NoTask]
        /\ taskTicks' = taskTicks \ {tick}
        /\ \A a \in m_actions' : a \in m_actions /\ a # m_tasks[id].action
    BY <1>1, <1>3 DEF TickOperation, StartAction, StopAction, Irrelevant, ActionAfter
  <2>2. TasksTypes'
    BY <1>1, <2>1 DEF TasksInv, TasksTypes
  <2> QED
    BY <1>1, <2>1, <2>2, EntryKeeps DEF TasksInv
<1> QED
  BY <1>2, <1>3

\* The script of a tick starts a task, under its own id or under another.
LEMMA TickStartsTaskKeeps ==
    ASSUME TasksInv, NEW tick \in taskTicks, NEW id \in TaskIds, NEW a \in Actions \cup {NoAction},
           TickStartsTask(tick, id, a)
    PROVE  TasksInv'
<1> DEFINE task == m_tasks[tick.id]
           new == NewTask(a)
           after == Task(task.n, task.serialno + 1, task.action)
<1>1. /\ tick.id \in TaskIds /\ started' = started + 1 /\ started' \in Nat
      /\ new \in [n : Nat, serialno : Nat, action : Actions \cup {NoAction}]
      /\ after \in [n : Nat, serialno : Nat, action : Actions \cup {NoAction}]
      /\ new.action = a /\ after.action = task.action
      /\ NoTask \in [n : Nat, serialno : Nat, action : Actions \cup {NoAction}]
  BY DEF TickStartsTask, NewTask, Task, NoTask, TasksInv, TasksTypes
<1>2. \A t \in m_actions' : t = a \/ (t \in m_actions /\ t # m_tasks[id].action)
  BY DEF TickStartsTask, StartAction, StopAction, Irrelevant
<1>3. /\ NextTick(id, new) \in [id : TaskIds, serialno : Nat, n : Nat]
      /\ NextTick(id, new).id = id /\ NextTick(id, new).serialno = new.serialno
      /\ NextTick(tick.id, after) \in [id : TaskIds, serialno : Nat, n : Nat]
      /\ NextTick(tick.id, after).id = tick.id /\ NextTick(tick.id, after).serialno = after.serialno
  <2> HIDE DEF new, after
  <2> QED
    BY <1>1, NextTickFor
<1>4. CASE id = tick.id
  <2>1. /\ m_tasks' = [m_tasks EXCEPT ![id] = NoTask]
        /\ taskTicks' = (taskTicks \ {tick}) \cup {NextTick(id, new)}
        /\ \A t \in m_actions' : t \in m_actions /\ t # m_tasks[id].action
    BY <1>1, <1>4 DEF TickStartsTask, StartAction, StopAction, Irrelevant
  <2> HIDE DEF new
  <2>2. TasksTypes'
    BY <1>1, <1>3, <2>1 DEF TasksInv, TasksTypes
  <2> QED
    BY <1>1, <1>4, <2>1, <2>2, EntryKeeps DEF TasksInv
<1>5. CASE id # tick.id
  <2>1. /\ m_tasks' = [m_tasks EXCEPT ![id] = new, ![tick.id] = after]
        /\ taskTicks' = (taskTicks \ {tick}) \cup {NextTick(id, new), NextTick(tick.id, after)}
    BY <1>5 DEF TickStartsTask
  <2> HIDE DEF new, after
  <2>2. TasksTypes'
    BY <1>1, <1>3, <1>5, <2>1 DEF TasksInv, TasksTypes
  <2>3. TicksOwed'
    BY <1>1, <1>3, <1>5, <2>1 DEF TasksInv, TasksTypes, TicksOwed
  <2>4. ActionsShown'
    BY <1>1, <1>2, <1>5, <2>1 DEF TasksInv, TasksTypes, ActionsShown
  <2> QED
    BY <2>2, <2>3, <2>4 DEF TasksInv
<1> QED
  BY <1>4, <1>5

\* Whatever the scripts do, and however many ticks of replaced tasks with the same id and
\* the same numbers are still queued: every task is owed a tick with the number it waits
\* for, and no action is shown that belongs to no task.
THEOREM TasksAlwaysGoOn == TasksSpec => []TasksGoOn
<1>1. TasksInit => TasksInv
  BY DEF TasksInit, TasksInv, TasksTypes, TicksOwed, ActionsShown, NoTask, Task
<1>2. TasksInv /\ [TasksNext]_tasksVars => TasksInv'
  <2> SUFFICES ASSUME TasksInv, [TasksNext]_tasksVars PROVE TasksInv'
    OBVIOUS
  <2>1. CASE UNCHANGED tasksVars
    BY <2>1 DEF tasksVars, TasksInv, TasksTypes, TicksOwed, ActionsShown
  <2>2. CASE TasksNext
    BY <2>2, StartTaskKeeps, UseOperationKeeps, OldTickKeeps, TickOperationKeeps, TickStartsTaskKeeps DEF TasksNext
  <2> QED
    BY <2>1, <2>2
<1>3. TasksInv => TasksGoOn
  BY DEF TasksInv, TicksOwed, ActionsShown, TasksGoOn
<1> QED
  BY <1>1, <1>2, <1>3, PTL DEF TasksSpec

-----------------------------------------------------------------------------
(* Suspended entities *)

Ticks == [of : Sleepers, number : Numbers]
Instances == [on : BOOLEAN, m_suspendedOps : Seq(Ticks), present : BOOLEAN]

\* How many ticks of a number are stored.
LEMMA StoredForFacts ==
    ASSUME NEW ops \in Seq(Ticks), NEW e \in Sleepers, NEW n \in Numbers
    PROVE  /\ StoredFor(e, n, ops) \in Nat
           /\ (\A i \in DOMAIN ops : ops[i] # StoredTick(e, n)) => StoredFor(e, n, ops) = 0
<1> DEFINE at == {i \in DOMAIN ops : ops[i] = StoredTick(e, n)}
<1>1. Cardinality(at) \in Nat
  <2>1. IsFiniteSet(1 .. Len(ops)) /\ at \in SUBSET (1 .. Len(ops))
    BY FS_Interval
  <2> HIDE DEF at
  <2> QED
    BY <2>1, FS_Subset, FS_CardinalityType
<1>2. (\A i \in DOMAIN ops : ops[i] # StoredTick(e, n)) => Cardinality(at) = 0
  <2>1. (\A i \in DOMAIN ops : ops[i] # StoredTick(e, n)) => at = {}
    OBVIOUS
  <2> QED
    BY <2>1, FS_EmptySet
<1> QED
  BY <1>1, <1>2 DEF StoredFor

\* Where ticks are numbered, what is stored was expected at an earlier time.
Past(ops) ==
    \A i \in DOMAIN ops : ops[i].of \in Numbered => ops[i].number < tickRefno[ops[i].of]

\* ... and none has a number that is still to come.
NoneAhead ==
    \A e \in Numbered, n \in Numbers : n > tickRefno[e] => queued[e][n] = 0

QueuedInv ==
    /\ queued \in [Sleepers -> [Numbers -> Nat]] /\ tickRefno \in [Sleepers -> Numbers]
    /\ NoneAhead /\ NoTickLost

StoredInv ==
    /\ own \in [Sleepers -> Instances] /\ default \in Seq(Ticks)
    /\ Past(default) /\ \A e \in Sleepers : Past(own[e].m_suspendedOps)

SuspendedInv == QueuedInv /\ StoredInv

\* A tick is handled: the one that is expected is replaced by the next, others just end.
LEMMA HandledKeeps ==
    ASSUME QueuedInv, NEW e \in Sleepers, NEW n \in Numbers, Handled(e, n)
    PROVE  /\ QueuedInv' /\ \A f \in Sleepers : tickRefno'[f] >= tickRefno[f]
           /\ e \in Numbered => n < tickRefno'[e]
<1>1. /\ queued \in [Sleepers -> [Numbers -> Nat]] /\ tickRefno \in [Sleepers -> Numbers]
      /\ Numbers \subseteq Nat /\ Numbered \subseteq Sleepers /\ queued[e][n] > 0
  BY SuspendedAssumption DEF QueuedInv, Handled, Numbers
<1>2. CASE Expected(e, n)
  <2>1. PICK next \in Numbers : next = NextNumber(e)
    BY <1>2 DEF Handled
  <2>2. /\ tickRefno' = [tickRefno EXCEPT ![e] = next]
        /\ queued' = [queued EXCEPT ![e] =
              [m \in Numbers |-> queued[e][m] - (IF m = n THEN 1 ELSE 0) + (IF m = next THEN 1 ELSE 0)]]
        /\ e \in Numbered => n = tickRefno[e] /\ next = n + 1
        /\ e \notin Numbered => next = tickRefno[e]
    BY <1>2, <2>1 DEF Handled, Expected, NextNumber
  <2>3. /\ \A m \in Numbers : queued'[e][m] = queued[e][m] - (IF m = n THEN 1 ELSE 0) + (IF m = next THEN 1 ELSE 0)
        /\ \A f \in Sleepers : f # e => queued'[f] = queued[f] /\ tickRefno'[f] = tickRefno[f]
        /\ tickRefno'[e] = next
    BY <1>1, <2>2
  <2>4. queued' \in [Sleepers -> [Numbers -> Nat]] /\ tickRefno' \in [Sleepers -> Numbers]
    <3>1. [m \in Numbers |-> queued[e][m] - (IF m = n THEN 1 ELSE 0) + (IF m = next THEN 1 ELSE 0)] \in [Numbers -> Nat]
      BY <1>1
    <3> QED
      BY <1>1, <2>2, <3>1
  <2>5. NoneAhead'
    BY <1>1, <2>2, <2>3 DEF QueuedInv, NoneAhead
  <2>6. ASSUME NEW f \in Sleepers
        PROVE  queued'[f][tickRefno'[f]] >= 1 /\ (f \in Numbered => queued'[f][tickRefno'[f]] = 1)
    <3>1. CASE f # e
      BY <2>3, <3>1 DEF QueuedInv, NoTickLost
    <3>2. CASE f = e /\ e \in Numbered
      <4>1. queued[e][next] = 0 /\ next # n
        BY <1>1, <2>2, <3>2 DEF QueuedInv, NoneAhead
      <4> QED
        BY <2>3, <3>2, <4>1
    <3>3. CASE f = e /\ e \notin Numbered
      <4>1. queued[e][next] >= 1 /\ queued[e][next] \in Nat
        BY <1>1, <2>2, <3>3 DEF QueuedInv, NoTickLost
      <4> QED
        BY <2>3, <3>3, <4>1
    <3> QED
      BY <3>1, <3>2, <3>3
  <2>7. QueuedInv'
    BY <2>4, <2>5, <2>6 DEF QueuedInv, NoTickLost
  <2>8. n \in Nat /\ next \in Nat /\ \A f \in Sleepers : tickRefno[f] \in Nat
    BY <1>1
  <2>9. ASSUME NEW f \in Sleepers PROVE tickRefno'[f] >= tickRefno[f]
    BY <2>2, <2>3, <2>8
  <2>10. e \in Numbered => n < tickRefno'[e]
    BY <2>2, <2>3, <2>8
  <2> QED
    BY <2>7, <2>9, <2>10
<1>3. CASE ~Expected(e, n)
  <2>1. /\ tickRefno' = tickRefno /\ e \in Numbered /\ n # tickRefno[e]
        /\ queued' = [queued EXCEPT ![e] = [m \in Numbers |-> queued[e][m] - (IF m = n THEN 1 ELSE 0)]]
    BY <1>3 DEF Handled, Expected
  <2>2. /\ \A m \in Numbers : m # n => queued'[e][m] = queued[e][m]
        /\ \A f \in Sleepers : f # e => queued'[f] = queued[f]
    BY <1>1, <2>1
  <2>3. queued' \in [Sleepers -> [Numbers -> Nat]]
    <3>1. [m \in Numbers |-> queued[e][m] - (IF m = n THEN 1 ELSE 0)] \in [Numbers -> Nat]
      BY <1>1
    <3> QED
      BY <1>1, <2>1, <3>1
  <2>4. n < tickRefno[e]
    <3>1. n \in Nat /\ tickRefno[e] \in Nat
      BY <1>1
    <3>2. ~ (n > tickRefno[e])
      BY <1>1, <2>1 DEF QueuedInv, NoneAhead
    <3> QED
      BY <2>1, <3>1, <3>2
  <2>5. NoneAhead'
    BY <1>1, <2>1, <2>2, <2>4 DEF QueuedInv, NoneAhead
  <2>6. NoTickLost'
    BY <1>1, <2>1, <2>2 DEF QueuedInv, NoTickLost
  <2>7. \A f \in Sleepers : tickRefno[f] \in Nat
    BY <1>1
  <2>8. QueuedInv'
    BY <1>1, <2>1, <2>3, <2>5, <2>6 DEF QueuedInv
  <2> QED
    BY <2>1, <2>4, <2>7, <2>8
<1> QED
  BY <1>2, <1>3

\* What was past remains past.
LEMMA PastRemains ==
    ASSUME NEW ops \in Seq(Ticks), Past(ops), \A f \in Sleepers : tickRefno'[f] >= tickRefno[f],
           tickRefno \in [Sleepers -> Numbers], tickRefno' \in [Sleepers -> Numbers]
    PROVE  \A i \in DOMAIN ops : ops[i].of \in Numbered => ops[i].number < tickRefno'[ops[i].of]
<1> SUFFICES ASSUME NEW i \in DOMAIN ops, ops[i].of \in Numbered PROVE ops[i].number < tickRefno'[ops[i].of]
  OBVIOUS
<1>1. PICK f \in Sleepers : f = ops[i].of /\ ops[i].number \in Numbers
  <2>1. ops[i] \in Ticks
    OBVIOUS
  <2> QED
    BY <2>1 DEF Ticks
<1>2. ops[i].number < tickRefno[f] /\ tickRefno'[f] >= tickRefno[f]
  BY <1>1 DEF Past
<1>3. ops[i].number \in Nat /\ tickRefno[f] \in Nat /\ tickRefno'[f] \in Nat
  BY <1>1, SuspendedAssumption DEF Numbers
<1> QED
  BY <1>1, <1>2, <1>3

\* The tick that was handled is stored besides.
LEMMA StoringKeeps ==
    ASSUME NEW ops \in Seq(Ticks), NEW e \in Sleepers, NEW n \in Numbers,
           \A i \in DOMAIN ops : ops[i].of \in Numbered => ops[i].number < tickRefno'[ops[i].of],
           e \in Numbered => n < tickRefno'[e]
    PROVE  LET new == Append(ops, StoredTick(e, n))
           IN  /\ new \in Seq(Ticks)
               /\ \A i \in DOMAIN new : new[i].of \in Numbered => new[i].number < tickRefno'[new[i].of]
<1>1. PICK tick \in Ticks : tick = StoredTick(e, n) /\ tick.of = e /\ tick.number = n
  <2>1. StoredTick(e, n) \in Ticks /\ StoredTick(e, n).of = e /\ StoredTick(e, n).number = n
    BY DEF StoredTick, Ticks
  <2> QED
    BY <2>1
<1>2. PICK new : new = Append(ops, tick)
  OBVIOUS
<1>3. /\ new \in Seq(Ticks) /\ DOMAIN new = 1 .. (Len(ops) + 1) /\ new[Len(ops) + 1] = tick
      /\ \A i \in 1 .. Len(ops) : i \in DOMAIN ops /\ new[i] = ops[i]
      /\ Len(ops) \in Nat
  BY <1>2
<1>4. ASSUME NEW i \in DOMAIN new, new[i].of \in Numbered PROVE new[i].number < tickRefno'[new[i].of]
  <2>1. CASE i \in 1 .. Len(ops)
    BY <1>3, <1>4, <2>1
  <2>2. CASE i = Len(ops) + 1
    BY <1>1, <1>3, <1>4, <2>2
  <2> QED
    BY <1>3, <2>1, <2>2
<1> QED
  BY <1>1, <1>2, <1>3, <1>4

\* A tick is handled, and stored or not.
LEMMA TickKeeps ==
    ASSUME SuspendedInv, NEW e \in Sleepers, NEW n \in Numbers,
           TickBlocked(e, n) \/ TickHandled(e, n) \/ TickStored(e, n)
    PROVE  SuspendedInv'
<1>1. Handled(e, n)
  BY DEF TickBlocked, TickHandled, TickStored
<1>2. /\ QueuedInv' /\ \A f \in Sleepers : tickRefno'[f] >= tickRefno[f]
      /\ e \in Numbered => n < tickRefno'[e]
  BY <1>1, HandledKeeps DEF SuspendedInv
<1>3. /\ own \in [Sleepers -> Instances] /\ default \in Seq(Ticks)
      /\ tickRefno \in [Sleepers -> Numbers] /\ tickRefno' \in [Sleepers -> Numbers]
  BY <1>2 DEF SuspendedInv, StoredInv, QueuedInv
<1>4. /\ \A f \in Sleepers : own[f].m_suspendedOps \in Seq(Ticks) /\ Past(own[f].m_suspendedOps)
      /\ Past(default)
  BY <1>3 DEF SuspendedInv, StoredInv, Instances
<1>5. /\ \A f \in Sleepers : \A i \in DOMAIN own[f].m_suspendedOps :
            own[f].m_suspendedOps[i].of \in Numbered =>
                own[f].m_suspendedOps[i].number < tickRefno'[own[f].m_suspendedOps[i].of]
      /\ \A i \in DOMAIN default : default[i].of \in Numbered => default[i].number < tickRefno'[default[i].of]
  BY <1>2, <1>3, <1>4, PastRemains
<1>6. CASE UNCHANGED <<own, default>>
  BY <1>2, <1>3, <1>5, <1>6 DEF SuspendedInv, StoredInv, Past
<1>7. CASE own' = [own EXCEPT ![e].m_suspendedOps = Append(@, StoredTick(e, n))] /\ default' = default
  <2>1. PICK ops : ops = Append(own[e].m_suspendedOps, StoredTick(e, n))
    OBVIOUS
  <2>2. /\ ops \in Seq(Ticks)
        /\ \A i \in DOMAIN ops : ops[i].of \in Numbered => ops[i].number < tickRefno'[ops[i].of]
    BY <1>2, <1>4, <1>5, <2>1, StoringKeeps
  <2>3. own' = [own EXCEPT ![e] = [own[e] EXCEPT !.m_suspendedOps = ops]]
    BY <1>7, <2>1
  <2>4. [own[e] EXCEPT !.m_suspendedOps = ops] \in Instances
    BY <1>3, <2>2 DEF Instances
  <2>5. own' \in [Sleepers -> Instances]
    BY <1>3, <2>3, <2>4
  <2>6. ASSUME NEW f \in Sleepers PROVE Past(own[f].m_suspendedOps)'
    <3>1. CASE f = e
      <4>1. own'[f].m_suspendedOps = ops
        BY <1>3, <2>3, <3>1 DEF Instances
      <4> QED
        BY <2>2, <4>1 DEF Past
    <3>2. CASE f # e
      <4>1. own'[f] = own[f]
        BY <1>3, <2>3, <3>2
      <4> QED
        BY <1>5, <4>1 DEF Past
    <3> QED
      BY <3>1, <3>2
  <2>7. Past(default)'
    BY <1>5, <1>7 DEF Past
  <2> QED
    BY <1>2, <1>3, <1>7, <2>5, <2>6, <2>7 DEF SuspendedInv, StoredInv
<1>8. CASE default' = Append(default, StoredTick(e, n)) /\ own' = own
  <2>1. PICK ops : ops = default'
    OBVIOUS
  <2>2. /\ ops \in Seq(Ticks)
        /\ \A i \in DOMAIN ops : ops[i].of \in Numbered => ops[i].number < tickRefno'[ops[i].of]
    BY <1>2, <1>3, <1>5, <1>8, <2>1, StoringKeeps
  <2>3. Past(default)' /\ default' \in Seq(Ticks)
    BY <2>1, <2>2 DEF Past
  <2>4. \A f \in Sleepers : Past(own[f].m_suspendedOps)'
    BY <1>5, <1>8 DEF Past
  <2> QED
    BY <1>2, <1>3, <1>8, <2>3, <2>4 DEF SuspendedInv, StoredInv
<1> QED
  BY <1>6, <1>7, <1>8 DEF TickBlocked, TickHandled, TickStored

\* Setting the property keeps what is stored or sends it all again: none of it is expected
\* any more where ticks are numbered.
LEMMA SetSuspendedKeeps ==
    ASSUME SuspendedInv, NEW e \in Sleepers, NEW on \in BOOLEAN, SetSuspended(e, on)
    PROVE  SuspendedInv'
<1>1. PICK ops : ops = CurrentInstance(e).m_suspendedOps
  OBVIOUS
<1>2. PICK kept : kept = IF on THEN ops ELSE <<>>
  OBVIOUS
<1>3. /\ queued \in [Sleepers -> [Numbers -> Nat]] /\ tickRefno \in [Sleepers -> Numbers]
      /\ own \in [Sleepers -> Instances] /\ default \in Seq(Ticks)
      /\ Numbers \subseteq Nat /\ Numbered \subseteq Sleepers
  BY SuspendedAssumption DEF SuspendedInv, QueuedInv, StoredInv, Numbers
<1>4. /\ own' = [own EXCEPT ![e] = [on |-> on, m_suspendedOps |-> kept, present |-> TRUE]]
      /\ queued' = [f \in Sleepers |-> [n \in Numbers |->
                      queued[f][n] + (IF on THEN 0 ELSE StoredFor(f, n, ops))]]
      /\ UNCHANGED <<tickRefno, default>>
  BY <1>1, <1>2 DEF SetSuspended, Applied, PropertyInstance
<1>5. ops \in Seq(Ticks) /\ Past(ops)
  <2>1. own[e].m_suspendedOps \in Seq(Ticks) /\ Past(own[e].m_suspendedOps) /\ Past(default)
    BY <1>3 DEF SuspendedInv, StoredInv, Instances
  <2>2. ops \in {own[e].m_suspendedOps, default, <<>>}
    BY <1>1 DEF CurrentInstance, PropertyInstance
  <2>3. <<>> \in Seq(Ticks) /\ Past(<<>>)
    BY DEF Past
  <2> QED
    BY <1>3, <2>1, <2>2, <2>3
<1>6. kept \in Seq(Ticks) /\ Past(kept)
  BY <1>2, <1>5 DEF Past
<1>7. StoredInv'
  <2>1. own' \in [Sleepers -> Instances]
    BY <1>3, <1>4, <1>6 DEF Instances
  <2>2. ASSUME NEW f \in Sleepers PROVE Past(own[f].m_suspendedOps)'
    <3>1. f = e => own'[f].m_suspendedOps = kept
      BY <1>3, <1>4
    <3>2. f # e => own'[f] = own[f]
      BY <1>3, <1>4
    <3> QED
      BY <1>4, <1>6, <3>1, <3>2 DEF Past, SuspendedInv, StoredInv
  <2> QED
    BY <1>3, <1>4, <2>1, <2>2 DEF Past, SuspendedInv, StoredInv
<1>8. \A f \in Sleepers, n \in Numbers : StoredFor(f, n, ops) \in Nat
  BY <1>5, StoredForFacts
<1>9. ASSUME NEW f \in Numbered, NEW n \in Numbers, n >= tickRefno[f] PROVE StoredFor(f, n, ops) = 0
  <2>1. ASSUME NEW i \in DOMAIN ops, ops[i] = StoredTick(f, n) PROVE FALSE
    <3>1. ops[i].of = f /\ ops[i].number = n
      BY <2>1 DEF StoredTick
    <3>2. n < tickRefno[f]
      BY <1>5, <3>1 DEF Past
    <3>3. n \in Nat /\ tickRefno[f] \in Nat
      BY <1>3
    <3> QED
      BY <1>9, <3>2, <3>3
  <2>2. f \in Sleepers
    BY <1>3
  <2> QED
    BY <1>5, <2>1, <2>2, StoredForFacts
<1>10. \A f \in Sleepers, n \in Numbers :
          queued'[f][n] = queued[f][n] + (IF on THEN 0 ELSE StoredFor(f, n, ops))
  BY <1>4
<1>11. queued' \in [Sleepers -> [Numbers -> Nat]]
  <2>1. \A f \in Sleepers, n \in Numbers : queued[f][n] + (IF on THEN 0 ELSE StoredFor(f, n, ops)) \in Nat
    BY <1>3, <1>8
  <2> QED
    BY <1>4, <2>1
<1>12. NoneAhead'
  <2> SUFFICES ASSUME NEW f \in Numbered, NEW n \in Numbers, n > tickRefno[f] PROVE queued'[f][n] = 0
    BY <1>4 DEF NoneAhead
  <2>1. f \in Sleepers /\ queued[f][n] = 0
    BY <1>3 DEF SuspendedInv, QueuedInv, NoneAhead
  <2>2. n \in Nat /\ tickRefno[f] \in Nat
    BY <1>3, <2>1
  <2>3. StoredFor(f, n, ops) = 0
    BY <1>9, <2>2
  <2> QED
    BY <1>10, <2>1, <2>3
<1>13. NoTickLost'
  <2> SUFFICES ASSUME NEW f \in Sleepers
               PROVE  queued'[f][tickRefno[f]] >= 1 /\ (f \in Numbered => queued'[f][tickRefno[f]] = 1)
    BY <1>4 DEF NoTickLost
  <2>1. PICK n \in Numbers : n = tickRefno[f]
    BY <1>3
  <2>2. queued[f][n] >= 1 /\ (f \in Numbered => queued[f][n] = 1) /\ queued[f][n] \in Nat
    BY <1>3, <2>1 DEF SuspendedInv, QueuedInv, NoTickLost
  <2>3. StoredFor(f, n, ops) \in Nat /\ (f \in Numbered => StoredFor(f, n, ops) = 0)
    BY <1>3, <1>8, <1>9, <2>1
  <2> QED
    BY <1>10, <2>1, <2>2, <2>3
<1> QED
  BY <1>3, <1>4, <1>7, <1>11, <1>12, <1>13 DEF SuspendedInv, QueuedInv

\* However entities are suspended and resumed, alone or through their type, an entity goes
\* on ticking; and where ticks are numbered there is never a second one that it expects,
\* whatever was stored and is sent again.
THEOREM NoTickEverLost == SuspendedSpec => []NoTickLost
<1>1. SuspendedInit => SuspendedInv
  <2> SUFFICES ASSUME SuspendedInit PROVE SuspendedInv
    OBVIOUS
  <2>1. 0 \in Numbers /\ Numbers \subseteq Nat /\ Numbered \subseteq Sleepers
    BY SuspendedAssumption DEF Numbers
  <2>2. <<>> \in Seq(Ticks) /\ Past(<<>>)
    BY DEF Past
  <2>3. StoredInv
    BY <2>2 DEF SuspendedInit, NoInstance, StoredInv, Instances
  <2>4. QueuedInv
    BY <2>1 DEF SuspendedInit, QueuedInv, NoneAhead, NoTickLost
  <2> QED
    BY <2>3, <2>4 DEF SuspendedInv
<1>2. SuspendedInv /\ [SuspendedNext]_suspendedVars => SuspendedInv'
  <2> SUFFICES ASSUME SuspendedInv, [SuspendedNext]_suspendedVars PROVE SuspendedInv'
    OBVIOUS
  <2>1. CASE UNCHANGED suspendedVars
    BY <2>1 DEF suspendedVars, SuspendedInv, QueuedInv, StoredInv, NoneAhead, NoTickLost, Past
  <2>2. ASSUME NEW e \in Sleepers, NEW n \in Numbers, TickBlocked(e, n) \/ TickHandled(e, n) \/ TickStored(e, n)
        PROVE  SuspendedInv'
    BY <2>2, TickKeeps
  <2>3. ASSUME NEW e \in Sleepers, NEW on \in BOOLEAN, SetSuspended(e, on) PROVE SuspendedInv'
    BY <2>3, SetSuspendedKeeps
  <2> QED
    BY <2>1, <2>2, <2>3 DEF SuspendedNext
<1>3. SuspendedInv => NoTickLost
  BY DEF SuspendedInv, QueuedInv
<1> QED
  BY <1>1, <1>2, <1>3, PTL DEF SuspendedSpec

-----------------------------------------------------------------------------
(* Relays *)

\* A Relay that asks, from one mind to another.
IsRelay(op) ==
    /\ op = RelayOp(op.fromId, op.id, op.serialno)
    /\ op.fromId \in RelayMinds /\ op.id \in RelayMinds /\ op.fromId # op.id
    /\ op.serialno \in Nat \ {0}

SentBy(m) == {op \in asked : op.fromId = m}

\* Each mind's client numbers the Relays it sends.
AskedNumbered ==
    /\ IsFiniteSet(asked)
    /\ \A op \in asked : IsRelay(op) /\ op.serialno <= Cardinality(SentBy(op.fromId))
    /\ \A op, other \in asked : op.fromId = other.fromId /\ op.serialno = other.serialno => op = other

\* What is queued was asked, or answers what was asked, or ends a wait.
RelayOpsKnown ==
    \A x \in relayOps :
        \/ x \in asked
        \/ \E op \in asked : x = AnswerOp(op)
        \/ \E m \in RelayMinds, n \in 1 .. serialNext : x = PruneOp(m, n)

\* What a mind has registered it was asked.
RelaysKnown ==
    /\ serialNext \in Nat /\ linked \subseteq RelayMinds
    /\ relays = [m \in RelayMinds |-> relays[m]]
    /\ \A m \in RelayMinds : \A n \in DOMAIN relays[m] :
          n \in 1 .. serialNext /\ relays[m][n] \in asked /\ relays[m][n].id = m
    /\ \A q \in questions : q[1] \in RelayMinds

AnswersKnown ==
    \A r \in DOMAIN answered : answered[r] \in Nat /\ \E op \in asked : r = [of |-> op.fromId, n |-> op.serialno]

\* The four fates of a Relay.
Queued(op) == op \in relayOps /\ AnswerOp(op) \notin relayOps /\ Registered(op) = {} /\ AnswersTo(op) = 0
Waiting(op) ==
    /\ op \notin relayOps /\ AnswerOp(op) \notin relayOps /\ AnswersTo(op) = 0
    /\ \E n : Registered(op) = {n} /\ PruneOp(op.id, n) \in relayOps
AnswerQueued(op) == op \notin relayOps /\ AnswerOp(op) \in relayOps /\ Registered(op) = {} /\ AnswersTo(op) = 0
GotAnswer(op) == op \notin relayOps /\ AnswerOp(op) \notin relayOps /\ Registered(op) = {} /\ AnswersTo(op) = 1

BothLinked(op) == op.fromId \in linked /\ op.id \in linked /\ op.to # op.from
OneFate(op) == Queued(op) \/ Waiting(op) \/ AnswerQueued(op) \/ GotAnswer(op)

RelaysInv ==
    /\ AskedNumbered /\ RelayOpsKnown /\ RelaysKnown /\ AnswersKnown
    /\ \A op \in asked : BothLinked(op) => OneFate(op)

LEMMA RelaysInvSuffices == RelaysInv => RelaysAnswered
<1> SUFFICES ASSUME RelaysInv, NEW op \in asked, BothLinked(op)
             PROVE  /\ Cardinality({op, AnswerOp(op)} \cap relayOps) + Cardinality(Registered(op)) + AnswersTo(op) = 1
                    /\ \A n \in Registered(op) : PruneOp(op.id, n) \in relayOps
  BY DEF RelaysAnswered, BothLinked
<1>1. op # AnswerOp(op)
  BY DEF RelaysInv, AskedNumbered, IsRelay, RelayOp, AnswerOp, NoNumber
<1>2. OneFate(op)
  BY DEF RelaysInv
<1>3. CASE Queued(op)
  <2>1. {op, AnswerOp(op)} \cap relayOps = {op}
    BY <1>3 DEF Queued
  <2>2. Cardinality({op, AnswerOp(op)} \cap relayOps) = 1 /\ Cardinality(Registered(op)) = 0
    BY <1>3, <2>1, FS_EmptySet, FS_Singleton DEF Queued
  <2> QED
    BY <1>3, <2>2 DEF Queued
<1>4. CASE Waiting(op)
  <2>1. {op, AnswerOp(op)} \cap relayOps = {}
    BY <1>4 DEF Waiting
  <2>2. PICK n : Registered(op) = {n} /\ PruneOp(op.id, n) \in relayOps
    BY <1>4 DEF Waiting
  <2>3. Cardinality({op, AnswerOp(op)} \cap relayOps) = 0 /\ Cardinality(Registered(op)) = 1
    BY <2>1, <2>2, FS_EmptySet, FS_Singleton
  <2> QED
    BY <1>4, <2>2, <2>3 DEF Waiting
<1>5. CASE AnswerQueued(op)
  <2>1. {op, AnswerOp(op)} \cap relayOps = {AnswerOp(op)}
    BY <1>5 DEF AnswerQueued
  <2>2. Cardinality({op, AnswerOp(op)} \cap relayOps) = 1 /\ Cardinality(Registered(op)) = 0
    BY <1>5, <2>1, FS_EmptySet, FS_Singleton DEF AnswerQueued
  <2> QED
    BY <1>5, <2>2 DEF AnswerQueued
<1>6. CASE GotAnswer(op)
  <2>1. {op, AnswerOp(op)} \cap relayOps = {}
    BY <1>6 DEF GotAnswer
  <2> QED
    BY <1>6, <2>1, FS_EmptySet DEF GotAnswer
<1> QED
  BY <1>2, <1>3, <1>4, <1>5, <1>6 DEF OneFate

\* The three kinds of operations differ, and answers to different Relays differ.
LEMMA KindsDiffer ==
    ASSUME RelaysInv
    PROVE  /\ \A op \in asked : op.refno = NoNumber /\ op.fromId # op.id
           /\ \A op \in asked : AnswerOp(op).refno # NoNumber /\ AnswerOp(op).fromId # AnswerOp(op).id
           /\ \A m, n : PruneOp(m, n).refno = n /\ PruneOp(m, n).fromId = PruneOp(m, n).id
           /\ \A op, other \in asked : AnswerOp(op) = AnswerOp(other) => op = other
           /\ \A op \in asked : \A other \in asked : op # AnswerOp(other)
           /\ \A op \in asked : \A m, n : op # PruneOp(m, n) /\ AnswerOp(op) # PruneOp(m, n)
<1>1. \A op \in asked : op.refno = NoNumber /\ op.fromId # op.id
  BY DEF RelaysInv, AskedNumbered, IsRelay, RelayOp
<1>2. \A op \in asked : /\ AnswerOp(op).refno = op.serialno /\ op.serialno # NoNumber
                        /\ AnswerOp(op).fromId = op.id /\ AnswerOp(op).id = op.fromId
  BY DEF RelaysInv, AskedNumbered, IsRelay, AnswerOp, NoNumber
<1>3. \A m, n : PruneOp(m, n).refno = n /\ PruneOp(m, n).fromId = m /\ PruneOp(m, n).id = m
  BY DEF PruneOp
<1>4. \A op, other \in asked : AnswerOp(op) = AnswerOp(other) => op = other
  BY <1>2 DEF RelaysInv, AskedNumbered
<1> QED
  BY <1>1, <1>2, <1>3, <1>4

LEMMA WithoutFacts ==
    ASSUME NEW f, NEW k
    PROVE  /\ DOMAIN Without(f, k) = DOMAIN f \ {k}
           /\ \A x \in DOMAIN f \ {k} : Without(f, k)[x] = f[x]
  BY DEF Without, Restrict

\* A step that does not touch a Relay leaves it its fate.
LEMMA FateKept ==
    ASSUME NEW op, OneFate(op),
           op \in relayOps' <=> op \in relayOps, AnswerOp(op) \in relayOps' <=> AnswerOp(op) \in relayOps,
           Registered(op)' = Registered(op), AnswersTo(op)' = AnswersTo(op),
           \A n \in Registered(op) : PruneOp(op.id, n) \in relayOps => PruneOp(op.id, n) \in relayOps'
    PROVE  OneFate(op)'
<1>1. CASE Queued(op)
  BY <1>1 DEF OneFate, Queued
<1>2. CASE Waiting(op)
  <2>1. PICK n : Registered(op) = {n} /\ PruneOp(op.id, n) \in relayOps
    BY <1>2 DEF Waiting
  <2>2. Registered(op)' = {n} /\ PruneOp(op.id, n) \in relayOps'
    BY <2>1
  <2> QED
    BY <1>2, <2>2 DEF OneFate, Waiting
<1>3. CASE AnswerQueued(op)
  BY <1>3 DEF OneFate, AnswerQueued
<1>4. CASE GotAnswer(op)
  BY <1>4 DEF OneFate, GotAnswer
<1> QED
  BY <1>1, <1>2, <1>3, <1>4 DEF OneFate

\* A Relay that is registered with a mind is answered, by the mind's client or because
\* the wait is over.  What goes from the queue is the end of that wait or is not about
\* two entities.
LEMMA RegisteredAnswered ==
    ASSUME RelaysInv, NEW m \in RelayMinds, NEW n \in DOMAIN relays[m], NEW gone,
           \A x \in gone : x = PruneOp(m, n) \/ \E op \in asked : x = AnswerOp(op) /\ ~ BothLinked(op),
           relays' = [relays EXCEPT ![m] = Without(@, n)],
           relayOps' = (relayOps \ gone) \cup {AnswerOp(relays[m][n])},
           UNCHANGED <<linked, serialNext, questions, asked, answered>>
    PROVE  RelaysInv'
<1> DEFINE answeredOp == relays[m][n]
<1>1. answeredOp \in asked /\ answeredOp.id = m
  BY DEF RelaysInv, RelaysKnown
<1>2. /\ relays' = [k \in RelayMinds |-> relays'[k]]
      /\ \A k \in RelayMinds \ {m} : relays'[k] = relays[k]
      /\ DOMAIN relays'[m] = DOMAIN relays[m] \ {n}
      /\ \A k \in DOMAIN relays'[m] : relays'[m][k] = relays[m][k]
  <2> DEFINE rest == Without(relays[m], n)
  <2>1. /\ relays = [k \in RelayMinds |-> relays[k]] /\ relays' = [relays EXCEPT ![m] = rest]
        /\ DOMAIN rest = DOMAIN relays[m] \ {n} /\ \A k \in DOMAIN rest : rest[k] = relays[m][k]
    BY WithoutFacts DEF RelaysInv, RelaysKnown
  <2> HIDE DEF rest
  <2> QED
    BY <2>1
<1> HIDE DEF answeredOp
<1>3. relayOps' = (relayOps \ gone) \cup {AnswerOp(answeredOp)}
  BY DEF answeredOp
<1>4. AskedNumbered' /\ AnswersKnown'
  BY DEF RelaysInv, AskedNumbered, AnswersKnown, SentBy
<1>5. RelayOpsKnown' /\ RelaysKnown'
  <2>1. RelayOpsKnown'
    BY <1>1, <1>3 DEF RelaysInv, RelayOpsKnown
  <2>2. RelaysKnown'
    BY <1>2 DEF RelaysInv, RelaysKnown
  <2> QED
    BY <2>1, <2>2
<1>6. ASSUME NEW op \in asked, BothLinked(op) PROVE OneFate(op)'
  <2>1. OneFate(op) /\ AnswersTo(op)' = AnswersTo(op) /\ op.id \in RelayMinds
    BY <1>6 DEF RelaysInv, AnswersTo, AskedNumbered, IsRelay
  <2>2. op \in relayOps' <=> op \in relayOps
    BY <1>1, <1>3, KindsDiffer
  <2>3. CASE op = answeredOp
    <3>1. n \in Registered(op)
      BY <1>1, <2>3 DEF Registered, answeredOp
    <3>2. Waiting(op)
      BY <2>1, <3>1 DEF OneFate, Queued, AnswerQueued, GotAnswer
    <3>3. Registered(op) = {n}
      BY <3>1, <3>2 DEF Waiting
    <3>4. Registered(op)' = {}
      BY <1>1, <1>2, <2>3, <3>3 DEF Registered
    <3>5. AnswerOp(op) \in relayOps'
      BY <1>3, <2>3
    <3> QED
      BY <2>1, <2>2, <3>2, <3>4, <3>5 DEF OneFate, AnswerQueued, Waiting
  <2>4. CASE op # answeredOp
    <3>1. AnswerOp(op) \in relayOps' <=> AnswerOp(op) \in relayOps
      BY <1>1, <1>3, <1>6, <2>4, KindsDiffer
    <3>2. Registered(op)' = Registered(op)
      <4>1. CASE op.id = m
        <5>1. n \notin Registered(op)
          BY <2>4, <4>1 DEF Registered, answeredOp
        <5> QED
          BY <1>2, <4>1, <5>1 DEF Registered
      <4>2. CASE op.id # m
        BY <1>2, <2>1, <4>2 DEF Registered
      <4> QED
        BY <4>1, <4>2
    <3>3. \A k \in Registered(op) : PruneOp(op.id, k) \in relayOps => PruneOp(op.id, k) \in relayOps'
      <4> SUFFICES ASSUME NEW k \in Registered(op), PruneOp(op.id, k) \in relayOps PROVE PruneOp(op.id, k) \notin gone
        BY <1>3
      <4>1. PruneOp(op.id, k) # PruneOp(m, n)
        <5>1. op.id = m => k # n
          BY <2>4 DEF Registered, answeredOp
        <5> QED
          BY <5>1 DEF PruneOp
      <4> QED
        BY <4>1, KindsDiffer
    <3> QED
      BY <2>1, <2>2, <3>1, <3>2, <3>3, FateKept
  <2> QED
    BY <2>3, <2>4
<1> QED
  BY <1>4, <1>5, <1>6 DEF RelaysInv, BothLinked

\* Something is taken from the queue that no Relay between linked minds depends on.
LEMMA DroppedKeeps ==
    ASSUME RelaysInv, NEW gone \in relayOps,
           relayOps' = relayOps \ {gone},
           UNCHANGED <<linked, relays, serialNext, questions, asked, answered>>,
           \A op \in asked : BothLinked(op) =>
               /\ gone # op /\ gone # AnswerOp(op)
               /\ \A n \in Registered(op) : gone # PruneOp(op.id, n)
    PROVE  RelaysInv'
<1>1. AskedNumbered' /\ RelayOpsKnown' /\ RelaysKnown' /\ AnswersKnown'
  BY DEF RelaysInv, AskedNumbered, SentBy, RelayOpsKnown, RelaysKnown, AnswersKnown
<1>2. ASSUME NEW op \in asked, BothLinked(op) PROVE OneFate(op)'
  <2>1. OneFate(op) /\ AnswersTo(op)' = AnswersTo(op) /\ Registered(op)' = Registered(op)
    BY <1>2 DEF RelaysInv, AnswersTo, Registered
  <2> QED
    BY <1>2, <2>1, FateKept
<1> QED
  BY <1>1, <1>2 DEF RelaysInv, BothLinked

LEMMA PruneKeeps ==
    ASSUME RelaysInv, NEW op \in relayOps, NEW m \in linked, m = op.id, Prune(m, op)
    PROVE  RelaysInv'
<1>1. /\ m \in RelayMinds /\ op.to = op.from /\ op.refno # NoNumber
      /\ UNCHANGED <<linked, serialNext, questions, asked, answered>>
  BY DEF RelaysInv, RelaysKnown, Prune
<1>2. op = PruneOp(m, op.refno) \/ \E o \in asked : op = AnswerOp(o) /\ ~ BothLinked(o)
  <2>1. op \notin asked
    BY <1>1, KindsDiffer
  <2>2. ASSUME NEW o \in asked, op = AnswerOp(o) PROVE ~ BothLinked(o)
    BY <1>1, <2>2 DEF AnswerOp, BothLinked
  <2>3. ASSUME NEW k \in RelayMinds, NEW n \in 1 .. serialNext, op = PruneOp(k, n) PROVE op = PruneOp(m, op.refno)
    BY <2>3 DEF PruneOp
  <2> QED
    BY <2>1, <2>2, <2>3 DEF RelaysInv, RelayOpsKnown
<1>3. CASE op.refno \in DOMAIN relays[m]
  <2>1. /\ relayOps' = (relayOps \ {op}) \cup {AnswerOp(relays[m][op.refno])}
        /\ relays' = [relays EXCEPT ![m] = Without(@, op.refno)]
    BY <1>3 DEF Prune
  <2> DEFINE n == op.refno
             gone == {op}
  <2>2. /\ n \in DOMAIN relays[m]
        /\ \A x \in gone : x = PruneOp(m, n) \/ \E o \in asked : x = AnswerOp(o) /\ ~ BothLinked(o)
        /\ relays' = [relays EXCEPT ![m] = Without(@, n)]
        /\ relayOps' = (relayOps \ gone) \cup {AnswerOp(relays[m][n])}
    BY <1>2, <1>3, <2>1
  <2> HIDE DEF n, gone
  <2> QED
    BY <1>1, <2>2, RegisteredAnswered
<1>4. CASE op.refno \notin DOMAIN relays[m]
  <2>1. relayOps' = relayOps \ {op} /\ UNCHANGED relays
    BY <1>4 DEF Prune
  <2>2. ASSUME NEW o \in asked, BothLinked(o)
        PROVE  op # o /\ op # AnswerOp(o) /\ \A n \in Registered(o) : op # PruneOp(o.id, n)
    <3>1. op # o /\ op # AnswerOp(o)
      BY <1>2, <2>2, KindsDiffer
    <3>2. ASSUME NEW n \in Registered(o), op = PruneOp(o.id, n) PROVE FALSE
      <4>1. o.id = m /\ op.refno = n
        BY <3>2 DEF PruneOp
      <4> QED
        BY <1>4, <4>1 DEF Registered
    <3> QED
      BY <3>1, <3>2
  <2> QED
    BY <1>1, <2>1, <2>2, DroppedKeeps
<1> QED
  BY <1>3, <1>4

LEMMA AnswerKeeps ==
    ASSUME RelaysInv, NEW op \in relayOps, NEW m \in linked, m = op.id, Body[m] = op.to, Answer(m, op)
    PROVE  RelaysInv'
<1> DEFINE r == [of |-> m, n |-> op.refno]
           count == 1 + IF r \in DOMAIN answered THEN answered[r] ELSE 0
<1>1. /\ op.refno # NoNumber /\ ~ (op.to = Body[m] /\ op.from = Body[m])
      /\ relayOps' = relayOps \ {op} /\ answered' = Put(answered, r, count)
      /\ UNCHANGED <<linked, relays, serialNext, questions, asked>>
  BY DEF Answer
<1>2. PICK o \in asked : op = AnswerOp(o)
  <2>1. op \notin asked
    BY <1>1, KindsDiffer
  <2>2. \A k \in RelayMinds, n \in 1 .. serialNext : op # PruneOp(k, n)
    BY <1>1 DEF PruneOp
  <2> QED
    BY <2>1, <2>2 DEF RelaysInv, RelayOpsKnown
<1>3. m = o.fromId /\ op.refno = o.serialno
  BY <1>2 DEF AnswerOp
<1>4. r = [of |-> o.fromId, n |-> o.serialno] /\ count \in Nat
  BY <1>3 DEF RelaysInv, AnswersKnown
<1> HIDE DEF r, count
<1>5. /\ DOMAIN answered' = DOMAIN answered \cup {r} /\ answered'[r] = count
      /\ \A x \in DOMAIN answered \ {r} : answered'[x] = answered[x]
  BY <1>1 DEF Put
<1>6. AskedNumbered' /\ RelaysKnown' /\ RelayOpsKnown'
  BY <1>1 DEF RelaysInv, AskedNumbered, SentBy, RelayOpsKnown, RelaysKnown
<1>7. AnswersKnown'
  BY <1>1, <1>4, <1>5 DEF RelaysInv, AnswersKnown
<1>8. ASSUME NEW p \in asked, BothLinked(p) PROVE OneFate(p)'
  <2>1. OneFate(p) /\ Registered(p)' = Registered(p)
    BY <1>1, <1>8 DEF RelaysInv, Registered
  <2>2. p \in relayOps' <=> p \in relayOps
    BY <1>1, <1>2, KindsDiffer
  <2>3. CASE p = o
    <3>1. AnswerQueued(p)
      BY <1>2, <2>1, <2>3 DEF OneFate, Queued, Waiting, GotAnswer
    <3>2. AnswersTo(p)' = 1
      BY <1>4, <1>5, <2>3, <3>1 DEF AnswerQueued, AnswersTo, count
    <3> QED
      BY <1>1, <1>2, <2>1, <2>3, <3>1, <3>2 DEF AnswerQueued, OneFate, GotAnswer
  <2>4. CASE p # o
    <3>1. AnswerOp(p) \in relayOps' <=> AnswerOp(p) \in relayOps
      BY <1>1, <1>2, <2>4, KindsDiffer
    <3>2. [of |-> p.fromId, n |-> p.serialno] # r
      BY <1>4, <2>4 DEF RelaysInv, AskedNumbered
    <3>3. AnswersTo(p)' = AnswersTo(p)
      BY <1>5, <3>2 DEF AnswersTo
    <3>4. \A n \in Registered(p) : PruneOp(p.id, n) \in relayOps => PruneOp(p.id, n) \in relayOps'
      BY <1>1, <1>2, KindsDiffer
    <3> QED
      BY <2>1, <2>2, <3>1, <3>3, <3>4, FateKept
  <2> QED
    BY <2>3, <2>4
<1> QED
  BY <1>1, <1>6, <1>7, <1>8 DEF RelaysInv, BothLinked

LEMMA AskKeeps ==
    ASSUME RelaysInv, NEW op \in relayOps, NEW m \in linked, m = op.id, Ask(m, op)
    PROVE  RelaysInv'
<1> DEFINE s == serialNext + 1
           table == Put(relays[m], s, op)
<1>1. /\ op.refno = NoNumber /\ serialNext' = s
      /\ relays' = [relays EXCEPT ![m] = table]
      /\ questions' = questions \cup {<<m, s>>}
      /\ relayOps' = (relayOps \ {op}) \cup {PruneOp(m, s)}
      /\ UNCHANGED <<linked, asked, answered>>
  BY DEF Ask
<1>2. /\ m \in RelayMinds /\ serialNext \in Nat /\ s \in Nat /\ s \notin 1 .. serialNext /\ s # NoNumber
      /\ \A k \in RelayMinds : s \notin DOMAIN relays[k]
      /\ 1 .. serialNext \subseteq 1 .. s /\ s \in 1 .. s
  BY DEF RelaysInv, RelaysKnown, NoNumber
<1>3. op \in asked
  <2>1. \A k, n : op = PruneOp(k, n) => n = NoNumber
    BY <1>1 DEF PruneOp
  <2>2. \A n \in 1 .. serialNext : n # NoNumber
    BY <1>2 DEF NoNumber
  <2> QED
    BY <1>1, <2>1, <2>2, KindsDiffer DEF RelaysInv, RelayOpsKnown
<1> HIDE DEF s
<1>4. /\ relays' = [k \in RelayMinds |-> relays'[k]]
      /\ \A k \in RelayMinds \ {m} : relays'[k] = relays[k]
      /\ DOMAIN relays'[m] = DOMAIN relays[m] \cup {s}
      /\ relays'[m][s] = op
      /\ \A k \in DOMAIN relays[m] : relays'[m][k] = relays[m][k]
  <2>1. relays = [k \in RelayMinds |-> relays[k]]
    BY DEF RelaysInv, RelaysKnown
  <2>2. /\ DOMAIN table = DOMAIN relays[m] \cup {s} /\ table[s] = op
        /\ \A k \in DOMAIN relays[m] : table[k] = relays[m][k]
    BY <1>2 DEF Put
  <2> HIDE DEF table
  <2> QED
    BY <1>1, <1>2, <2>1, <2>2
<1>5. AskedNumbered' /\ AnswersKnown'
  BY <1>1 DEF RelaysInv, AskedNumbered, SentBy, AnswersKnown
<1>6. RelayOpsKnown'
  BY <1>1, <1>2 DEF RelaysInv, RelayOpsKnown
<1>7. RelaysKnown'
  <2>1. \A q \in questions' : q[1] \in RelayMinds
    BY <1>1, <1>2 DEF RelaysInv, RelaysKnown
  <2>2. \A k \in RelayMinds : \A n \in DOMAIN relays'[k] :
            n \in 1 .. s /\ relays'[k][n] \in asked /\ relays'[k][n].id = k
    <3>1. \A k \in RelayMinds : \A n \in DOMAIN relays[k] :
              n \in 1 .. s /\ relays[k][n] \in asked /\ relays[k][n].id = k
      BY <1>2 DEF RelaysInv, RelaysKnown
    <3> QED
      BY <1>2, <1>3, <1>4, <3>1
  <2> QED
    BY <1>1, <1>2, <1>4, <2>1, <2>2 DEF RelaysInv, RelaysKnown
<1>8. ASSUME NEW p \in asked, BothLinked(p) PROVE OneFate(p)'
  <2>1. OneFate(p) /\ AnswersTo(p)' = AnswersTo(p) /\ p.id \in RelayMinds
    BY <1>1, <1>8 DEF RelaysInv, AnswersTo, AskedNumbered, IsRelay
  <2>2. AnswerOp(p) \in relayOps' <=> AnswerOp(p) \in relayOps
    BY <1>1, <1>3, KindsDiffer
  <2>3. CASE p = op
    <3>1. Queued(p)
      BY <2>1, <2>3 DEF OneFate, Waiting, AnswerQueued, GotAnswer
    <3>2. Registered(p)' = {s}
      BY <1>4, <2>3, <3>1 DEF Queued, Registered
    <3>3. p \notin relayOps' /\ PruneOp(p.id, s) \in relayOps'
      BY <1>1, <1>3, <2>3, KindsDiffer
    <3> QED
      BY <2>1, <2>2, <3>1, <3>2, <3>3 DEF Queued, OneFate, Waiting
  <2>4. CASE p # op
    <3>1. p \in relayOps' <=> p \in relayOps
      BY <1>1, <2>4, KindsDiffer
    <3>2. Registered(p)' = Registered(p)
      <4>1. CASE p.id = m
        BY <1>2, <1>4, <2>4, <4>1 DEF Registered
      <4>2. CASE p.id # m
        BY <1>4, <2>1, <4>2 DEF Registered
      <4> QED
        BY <4>1, <4>2
    <3>3. \A n \in Registered(p) : PruneOp(p.id, n) \in relayOps => PruneOp(p.id, n) \in relayOps'
      BY <1>1, <1>3, KindsDiffer
    <3> QED
      BY <2>1, <2>2, <3>1, <3>2, <3>3, FateKept
  <2> QED
    BY <2>3, <2>4
<1> QED
  BY <1>1, <1>5, <1>6, <1>7, <1>8 DEF RelaysInv, BothLinked

\* An operation is dropped when the mind it is directed to is gone.
LEMMA UndeliverableKeeps ==
    ASSUME RelaysInv, NEW op \in relayOps, ~ \E m \in linked : m = op.id /\ Body[m] = op.to,
           relayOps' = relayOps \ {op},
           UNCHANGED <<linked, relays, serialNext, questions, asked, answered>>
    PROVE  RelaysInv'
<1>1. ASSUME NEW o \in asked, BothLinked(o)
      PROVE  op # o /\ op # AnswerOp(o) /\ \A n \in Registered(o) : op # PruneOp(o.id, n)
  <2>1. o.to = Body[o.id] /\ o.from = Body[o.fromId] /\ o.id \in linked /\ o.fromId \in linked
    BY <1>1 DEF RelaysInv, AskedNumbered, IsRelay, RelayOp, BothLinked
  <2> QED
    BY <2>1 DEF AnswerOp, PruneOp
<1> QED
  BY <1>1, DroppedKeeps

LEMMA DeliverRelayKeeps ==
    ASSUME RelaysInv, NEW op \in relayOps, DeliverRelay(op)
    PROVE  RelaysInv'
  BY PruneKeeps, AnswerKeeps, AskKeeps, UndeliverableKeeps DEF DeliverRelay

\* The client of a mind answers in time, or too late.
LEMMA ClientAnswersKeeps ==
    ASSUME RelaysInv, NEW q \in questions, ClientAnswers(q[1], q[2])
    PROVE  RelaysInv'
<1> DEFINE m == q[1]
           n == q[2]
<1>1. m \in RelayMinds
  BY DEF RelaysInv, RelaysKnown
<1>2. CASE n \in DOMAIN relays[m]
  <2>1. /\ relays' = [relays EXCEPT ![m] = Without(@, n)]
        /\ relayOps' = (relayOps \ {}) \cup {AnswerOp(relays[m][n])}
        /\ UNCHANGED <<linked, serialNext, questions, asked, answered>>
    BY <1>2 DEF ClientAnswers
  <2> DEFINE gone == {}
  <2>2. /\ relayOps' = (relayOps \ gone) \cup {AnswerOp(relays[m][n])}
        /\ \A x \in gone : x = PruneOp(m, n) \/ \E op \in asked : x = AnswerOp(op) /\ ~ BothLinked(op)
    BY <2>1
  <2> HIDE DEF m, n, gone
  <2> QED
    BY <1>1, <1>2, <2>1, <2>2, RegisteredAnswered
<1>3. CASE n \notin DOMAIN relays[m]
  <2>1. questions' \subseteq questions /\ UNCHANGED <<linked, relays, serialNext, relayOps, asked, answered>>
    BY <1>3 DEF ClientAnswers
  <2>2. AskedNumbered' /\ RelayOpsKnown' /\ RelaysKnown' /\ AnswersKnown'
    BY <2>1 DEF RelaysInv, AskedNumbered, SentBy, RelayOpsKnown, RelaysKnown, AnswersKnown
  <2>3. \A op \in asked : BothLinked(op) => OneFate(op)'
    BY <2>1, FateKept DEF RelaysInv, Registered, AnswersTo
  <2> QED
    BY <2>1, <2>2, <2>3 DEF RelaysInv, BothLinked
<1> QED
  BY <1>2, <1>3

\* A mind is destroyed: the Relays from it and to it are not owed an answer any more.
LEMMA RemoveMindKeeps ==
    ASSUME RelaysInv, NEW m \in RelayMinds, RemoveMind(m)
    PROVE  RelaysInv'
<1>1. /\ linked' = linked \ {m} /\ relays' = [relays EXCEPT ![m] = <<>>]
      /\ questions' \subseteq questions
      /\ UNCHANGED <<serialNext, relayOps, asked, answered>>
  BY DEF RemoveMind
<1>2. /\ relays' = [k \in RelayMinds |-> relays'[k]]
      /\ \A k \in RelayMinds \ {m} : relays'[k] = relays[k]
      /\ DOMAIN relays'[m] = {}
  BY <1>1 DEF RelaysInv, RelaysKnown
<1>3. AskedNumbered' /\ RelayOpsKnown' /\ AnswersKnown'
  BY <1>1 DEF RelaysInv, AskedNumbered, SentBy, RelayOpsKnown, AnswersKnown
<1>4. RelaysKnown'
  BY <1>1, <1>2 DEF RelaysInv, RelaysKnown
<1>5. ASSUME NEW op \in asked, BothLinked(op)' PROVE OneFate(op)'
  <2>1. BothLinked(op) /\ op.id # m /\ op.id \in RelayMinds
    BY <1>1, <1>5 DEF BothLinked, RelaysInv, AskedNumbered, IsRelay
  <2>2. Registered(op)' = Registered(op) /\ AnswersTo(op)' = AnswersTo(op)
    BY <1>1, <1>2, <2>1 DEF Registered, AnswersTo
  <2> QED
    BY <1>1, <2>1, <2>2, FateKept DEF RelaysInv
<1> QED
  BY <1>1, <1>3, <1>4, <1>5 DEF RelaysInv

\* A Relay is sent: its number is new among those of its sender.
LEMMA SendRelayKeeps ==
    ASSUME RelaysInv, NEW a \in RelayMinds, NEW b \in RelayMinds, SendRelay(a, b)
    PROVE  RelaysInv'
<1>0. PICK n : n = 1 + Cardinality(SentBy(a))
  OBVIOUS
<1> DEFINE new == RelayOp(a, b, n)
<1>1. /\ a # b /\ asked' = asked \cup {new} /\ relayOps' = relayOps \cup {new}
      /\ UNCHANGED <<linked, relays, serialNext, questions, answered>>
  BY <1>0 DEF SendRelay, SentBy
<1>2. \A m : IsFiniteSet(SentBy(m)) /\ Cardinality(SentBy(m)) \in Nat
  <2>1. \A m : SentBy(m) \in SUBSET asked
    BY DEF SentBy
  <2> QED
    BY <2>1, FS_Subset, FS_CardinalityType DEF RelaysInv, AskedNumbered
<1>3. n \in Nat \ {0} /\ \A op \in asked : op.fromId = a => op.serialno < n
  BY <1>0, <1>2 DEF RelaysInv, AskedNumbered, IsRelay
<1>4. /\ new.fromId = a /\ new.id = b /\ new.serialno = n /\ new.refno = NoNumber
      /\ IsRelay(new)
  BY <1>1, <1>3 DEF RelayOp, IsRelay
<1> HIDE DEF new
<1>5. new \notin asked /\ \A op \in asked : op.fromId = a => op.serialno # n
  BY <1>3, <1>4 DEF RelaysInv, AskedNumbered, IsRelay
<1>6. AskedNumbered'
  <2>1. IsFiniteSet(asked')
    BY <1>1, FS_AddElement DEF RelaysInv, AskedNumbered
  <2>2. SentBy(a)' = SentBy(a) \cup {new} /\ new \notin SentBy(a)
    BY <1>1, <1>4, <1>5 DEF SentBy
  <2>3. Cardinality(SentBy(a)') = n
    BY <1>0, <1>2, <2>2, FS_AddElement
  <2>4. \A m : m # a => SentBy(m)' = SentBy(m)
    BY <1>1, <1>4 DEF SentBy
  <2>5. \A op \in asked' : IsRelay(op) /\ op.serialno <= Cardinality(SentBy(op.fromId)')
    <3> SUFFICES ASSUME NEW op \in asked' PROVE IsRelay(op) /\ op.serialno <= Cardinality(SentBy(op.fromId)')
      OBVIOUS
    <3>1. CASE op = new
      BY <1>3, <1>4, <2>3, <3>1
    <3>2. CASE op \in asked /\ op.fromId = a
      BY <1>3, <2>3, <3>2 DEF RelaysInv, AskedNumbered, IsRelay
    <3>3. CASE op \in asked /\ op.fromId # a
      BY <2>4, <3>3 DEF RelaysInv, AskedNumbered
    <3> QED
      BY <1>1, <3>1, <3>2, <3>3
  <2>6. \A op, other \in asked' : op.fromId = other.fromId /\ op.serialno = other.serialno => op = other
    BY <1>1, <1>4, <1>5 DEF RelaysInv, AskedNumbered
  <2> QED
    BY <2>1, <2>5, <2>6 DEF AskedNumbered, SentBy
<1>7. RelayOpsKnown' /\ RelaysKnown' /\ AnswersKnown'
  BY <1>1 DEF RelaysInv, RelayOpsKnown, RelaysKnown, AnswersKnown
<1>8. \A op \in asked : AnswerOp(op) # new /\ AnswerOp(op) # AnswerOp(new) /\ op # AnswerOp(new)
  <2>1. AnswerOp(new).refno = n /\ AnswerOp(new).id = a
    BY <1>4 DEF AnswerOp
  <2>2. \A op \in asked : AnswerOp(op).refno = op.serialno /\ AnswerOp(op).id = op.fromId
    BY DEF AnswerOp
  <2> QED
    BY <1>3, <1>4, <1>5, <2>1, <2>2, KindsDiffer DEF NoNumber
<1>9. \A m, k : PruneOp(m, k) # AnswerOp(new)
  BY <1>1, <1>4 DEF AnswerOp, PruneOp
<1>10. Queued(new)'
  <2>1. new \in relayOps'
    BY <1>1
  <2>2. AnswerOp(new) \notin relayOps'
    <3>1. AnswerOp(new) # new
      BY <1>3, <1>4 DEF AnswerOp, NoNumber
    <3> QED
      BY <1>1, <1>8, <1>9, <3>1 DEF RelaysInv, RelayOpsKnown
  <2>3. Registered(new)' = {}
    BY <1>1, <1>4, <1>5 DEF Registered, RelaysInv, RelaysKnown
  <2>4. AnswersTo(new)' = 0
    BY <1>1, <1>4, <1>5 DEF AnswersTo, RelaysInv, AnswersKnown
  <2> QED
    BY <2>1, <2>2, <2>3, <2>4 DEF Queued
<1>11. ASSUME NEW op \in asked, BothLinked(op) PROVE OneFate(op)'
  <2>1. OneFate(op) /\ AnswersTo(op)' = AnswersTo(op) /\ Registered(op)' = Registered(op)
    BY <1>1, <1>11 DEF RelaysInv, AnswersTo, Registered
  <2>2. op # new /\ AnswerOp(op) # new
    BY <1>5, <1>8
  <2> QED
    BY <1>1, <2>1, <2>2, FateKept
<1> QED
  BY <1>1, <1>6, <1>7, <1>10, <1>11 DEF RelaysInv, BothLinked, OneFate

\* However Relays, answers, late answers and the ends of waits are interleaved, and
\* although clients number their Relays independently of each other and of the server:
\* a Relay between two entities whose minds are there is answered at most once, and never
\* lost.
THEOREM RelaysAlwaysAnswered == RelaysSpec => []RelaysAnswered
<1>1. RelaysInit => RelaysInv
  BY FS_EmptySet DEF RelaysInit, RelaysInv, AskedNumbered, RelayOpsKnown, RelaysKnown, AnswersKnown
<1>2. RelaysInv /\ [RelaysNext]_relaysVars => RelaysInv'
  <2> SUFFICES ASSUME RelaysInv, [RelaysNext]_relaysVars PROVE RelaysInv'
    OBVIOUS
  <2>1. CASE UNCHANGED relaysVars
    <3>1. UNCHANGED <<linked, relays, serialNext, relayOps, questions, asked, answered>>
      BY <2>1 DEF relaysVars
    <3>2. AskedNumbered' /\ RelayOpsKnown' /\ RelaysKnown' /\ AnswersKnown'
      BY <3>1 DEF RelaysInv, AskedNumbered, SentBy, RelayOpsKnown, RelaysKnown, AnswersKnown
    <3>3. \A op \in asked : BothLinked(op) => OneFate(op)'
      BY <3>1, FateKept DEF RelaysInv, Registered, AnswersTo
    <3> QED
      BY <3>1, <3>2, <3>3 DEF RelaysInv, BothLinked
  <2>2. CASE RelaysNext
    BY <2>2, SendRelayKeeps, DeliverRelayKeeps, ClientAnswersKeeps, RemoveMindKeeps DEF RelaysNext
  <2> QED
    BY <2>1, <2>2
<1> QED
  BY <1>1, <1>2, RelaysInvSuffices, PTL DEF RelaysSpec

-----------------------------------------------------------------------------
(* Visibility *)

Places == Cells \cup {NoCell}
Record == [Entries -> {"none", "Add", "Remove"}]

\* A state of the spheres and of what is recorded with them.
Sights ==
    [view : [Entries -> SUBSET Cells], visible : [Entries -> SUBSET Cells],
     observed : [Entries -> SUBSET Entries], observing : [Entries -> SUBSET Entries],
     observedChanges : [Entries -> Record], observingChanges : [Entries -> Record],
     stale : [Entries -> SUBSET Entries], switched : SUBSET Entries]

\* The two sides of what is observed, in a domain that holds the entries of the given
\* set: they agree and hold no others, but for what is stale.
Sides(mine, theirs, stale, there) ==
    /\ mine \in [Entries -> SUBSET Entries] /\ theirs \in [Entries -> SUBSET Entries]
    /\ \A a, b \in there : b \in mine[a] => b \in stale[a] \/ a \in theirs[b]
    /\ \A a, b \in there : a \in theirs[b] => a \in stale[b] \/ b \in mine[a]
    /\ \A a \in there : \A b \in Entries :
          (b \in mine[a] \/ b \in theirs[a]) => (b \in there \/ b \in stale[a])
    /\ \A a \in Entries \ there : mine[a] = {} /\ theirs[a] = {}

\* What is recorded to appear is there or stale; nothing is recorded with an entry that
\* is not there.
RecordsSound(changes, stale, there) ==
    /\ changes \in [Entries -> Record]
    /\ \A a \in there : \A b \in Entries : changes[a][b] = "Add" => (b \in there \/ b \in stale[a])
    /\ \A a \in Entries \ there : changes[a] = Quiet

\* The spheres in the domain, and no others.
SpheresSound(s, there) ==
    \A a \in Entries : /\ a \in there <=> s.visible[a] # {}
                       /\ s.view[a] # {} => a \in there

SightSound(s, there) ==
    /\ s \in Sights /\ there \subseteq Entries
    /\ Sides(s.observed, s.observing, s.stale, there)
    /\ RecordsSound(s.observedChanges, s.stale, there)
    /\ RecordsSound(s.observingChanges, s.stale, there)
    /\ SpheresSound(s, there)

\* The queue holds entries of the domain, each once.
RecalculateSound ==
    /\ recalculate \in Seq(Entries)
    /\ \A i \in 1 .. Len(recalculate) : recalculate[i] \in Present
    /\ \A i, j \in 1 .. Len(recalculate) : recalculate[i] = recalculate[j] => i = j

\* Nothing is recorded with the entry, but for what is recorded past the queue.
Settled(s, a) == /\ s.view[a] # {} => s.observedChanges[a] = Quiet
                 /\ a \notin s.switched => s.observingChanges[a] = Quiet

\* What is recorded is recorded with an entry of the queue.
RecordedQueued == \A a \in Present : a \notin Range(recalculate) => Settled(sight, a)

VisibilityInv ==
    /\ position \in [Entries -> Places]
    /\ SightSound(sight, Present)
    /\ RecalculateSound
    /\ RecordedQueued

\* Nothing else is recorded with an entry than before.
SameRecords(t, s, a) ==
    /\ t.observedChanges[a] = s.observedChanges[a] /\ t.observingChanges[a] = s.observingChanges[a]
    /\ t.view[a] = s.view[a] /\ (a \in t.switched <=> a \in s.switched)

LEMMA SettledStays ==
    ASSUME NEW s, NEW t, NEW a, SameRecords(t, s, a), Settled(s, a) PROVE Settled(t, a)
  BY DEF SameRecords, Settled

LEMMA ReportsRecorded ==
    ASSUME NEW r \in Record, NEW e \in Entries, NEW spheres, NEW from, NEW to,
           NEW r2, r2 = Reports(r, e, spheres, from, to)
    PROVE  /\ r2 \in Record
           /\ \A o \in Entries : r2[o] = "Add" => r[o] = "Add" \/ spheres[o] # {}
<1>1. \A o \in Entries : r2[o] \in {"Add", "Remove", r[o]}
  BY DEF Reports
<1>2. r2 = [o \in Entries |-> r2[o]]
  BY DEF Reports
<1>3. ASSUME NEW o \in Entries, spheres[o] = {} PROVE r2[o] = r[o]
  BY <1>3 DEF Reports
<1>4. \A o \in Entries : r[o] \in {"none", "Add", "Remove"}
  BY DEF Record
<1>5. \A o \in Entries : r2[o] \in {"none", "Add", "Remove"}
  BY <1>1, <1>4
<1>6. r2 \in Record
  BY <1>2, <1>5 DEF Record
<1> QED
  BY <1>3, <1>6

\* A function that differs from another one at most at e.
Except(g, f, e, x) == g = [a \in Entries |-> IF a = e THEN x ELSE f[a]]

\* The reports of one sphere are recorded with its entry.
LEMMA ReportsSound ==
    ASSUME NEW changes, NEW stale, NEW there \in SUBSET Entries, RecordsSound(changes, stale, there),
           NEW e \in there, NEW spheres, NEW from, NEW to,
           \A o \in Entries : spheres[o] # {} => o \in there,
           NEW c2, Except(c2, changes, e, Reports(changes[e], e, spheres, from, to))
    PROVE  RecordsSound(c2, stale, there)
<1>1. changes \in [Entries -> Record] /\ e \in Entries /\ changes[e] \in Record
  BY DEF RecordsSound
<1>2. PICK r2 : r2 = Reports(changes[e], e, spheres, from, to)
  OBVIOUS
<1>3. r2 \in Record /\ \A o \in Entries : r2[o] = "Add" => changes[e][o] = "Add" \/ spheres[o] # {}
  BY <1>1, <1>2, ReportsRecorded
<1>4. Except(c2, changes, e, r2)
  BY <1>2
<1>5. c2 \in [Entries -> Record] /\ c2[e] = r2 /\ \A a \in Entries \ {e} : c2[a] = changes[a]
  BY <1>1, <1>3, <1>4 DEF Except
<1>6. ASSUME NEW a \in there, NEW b \in Entries, c2[a][b] = "Add" PROVE b \in there \/ b \in stale[a]
  <2>1. CASE a = e
    BY <1>3, <1>5, <1>6, <2>1 DEF RecordsSound
  <2>2. CASE a # e
    BY <1>5, <1>6, <2>2 DEF RecordsSound
  <2> QED
    BY <2>1, <2>2
<1>7. \A a \in Entries \ there : c2[a] = Quiet
  BY <1>5 DEF RecordsSound
<1> QED
  BY <1>5, <1>6, <1>7 DEF RecordsSound

LEMMA PutViewSound ==
    ASSUME NEW s, NEW there, SightSound(s, there), NEW e \in there,
           NEW to \in SUBSET Cells, NEW t, t = PutView(s, e, to)
    PROVE  /\ SightSound(t, there)
           /\ t.observed = s.observed /\ t.observing = s.observing
           /\ t.observingChanges = s.observingChanges /\ t.switched = s.switched
           /\ t.stale = s.stale /\ t.view[e] = to
           /\ \A a \in Entries \ {e} : SameRecords(t, s, a)
<1>1. s \in Sights /\ e \in Entries /\ there \in SUBSET Entries
  BY DEF SightSound
<1>2. PICK c2 : c2 = [s.observedChanges EXCEPT ![e] = Reports(@, e, s.visible, s.view[e], to)]
  OBVIOUS
<1>3. t = [s EXCEPT !.view = [s.view EXCEPT ![e] = to], !.observedChanges = c2]
  BY <1>1, <1>2 DEF PutView, Sights
<1>4. /\ t.view = [s.view EXCEPT ![e] = to] /\ t.visible = s.visible
      /\ t.observed = s.observed /\ t.observing = s.observing
      /\ t.observedChanges = c2 /\ t.observingChanges = s.observingChanges
      /\ t.stale = s.stale /\ t.switched = s.switched
  BY <1>1, <1>3 DEF Sights
<1>5. \A o \in Entries : s.visible[o] # {} => o \in there
  BY DEF SightSound, SpheresSound
<1>6. RecordsSound(s.observedChanges, s.stale, there)
  BY DEF SightSound
<1>7. RecordsSound(c2, s.stale, there) /\ \A a \in Entries \ {e} : c2[a] = s.observedChanges[a]
  <2>1. PICK x : x = Reports(s.observedChanges[e], e, s.visible, s.view[e], to)
    OBVIOUS
  <2>2. Except(c2, s.observedChanges, e, x) /\ \A a \in Entries \ {e} : c2[a] = s.observedChanges[a]
    BY <1>1, <1>2, <2>1 DEF Sights, Except
  <2> QED
    BY <1>1, <1>5, <1>6, <2>1, <2>2, ReportsSound
<1>8. t.view \in [Entries -> SUBSET Cells] /\ t.view[e] = to /\ \A a \in Entries \ {e} : t.view[a] = s.view[a]
  BY <1>1, <1>4 DEF Sights
<1>9. t \in Sights
  <2>1. t = [view |-> t.view, visible |-> t.visible, observed |-> t.observed, observing |-> t.observing,
             observedChanges |-> t.observedChanges, observingChanges |-> t.observingChanges,
             stale |-> t.stale, switched |-> t.switched]
    BY <1>1, <1>3 DEF Sights
  <2>2. c2 \in [Entries -> Record]
    BY <1>7 DEF RecordsSound
  <2> QED
    BY <1>1, <1>4, <1>8, <2>1, <2>2 DEF Sights
<1>10. SpheresSound(t, there)
  BY <1>4, <1>8 DEF SightSound, SpheresSound
<1>11. SightSound(t, there)
  BY <1>1, <1>4, <1>7, <1>9, <1>10 DEF SightSound
<1> QED
  BY <1>4, <1>7, <1>8, <1>11 DEF SameRecords

LEMMA MoveViewSound ==
    ASSUME NEW s, NEW there, SightSound(s, there), NEW e \in there,
           NEW to \in SUBSET Cells, NEW t, t = MoveView(s, e, to)
    PROVE  /\ SightSound(t, there)
           /\ t.observingChanges = s.observingChanges /\ t.switched = s.switched
           /\ \A a \in Entries \ {e} : SameRecords(t, s, a)
<1>1. CASE s.view[e] = {}
  BY <1>1 DEF MoveView, SameRecords
<1>2. CASE s.view[e] # {}
  BY <1>2, PutViewSound DEF MoveView
<1> QED
  BY <1>1, <1>2

\* A sphere that is moved, or put into the domain with its entry.
LEMMA MoveVisibleSound ==
    ASSUME NEW s, NEW there, SightSound(s, there), NEW e \in Entries,
           NEW to \in SUBSET Cells, to # {}, NEW t, t = MoveVisible(s, e, to),
           NEW wider, wider = there \cup {e}
    PROVE  /\ SightSound(t, wider)
           /\ t.observedChanges = s.observedChanges /\ t.switched = s.switched /\ t.view = s.view
           /\ \A a \in Entries \ {e} : SameRecords(t, s, a)
<1>1. s \in Sights /\ wider \in SUBSET Entries /\ e \in wider
  BY DEF SightSound
<1>2. PICK c2 : c2 = [s.observingChanges EXCEPT ![e] = Reports(@, e, s.view, s.visible[e], to)]
  OBVIOUS
<1>3. t = [s EXCEPT !.visible = [s.visible EXCEPT ![e] = to], !.observingChanges = c2]
  BY <1>1, <1>2 DEF MoveVisible, Sights
<1>4. /\ t.visible = [s.visible EXCEPT ![e] = to] /\ t.view = s.view
      /\ t.observed = s.observed /\ t.observing = s.observing
      /\ t.observingChanges = c2 /\ t.observedChanges = s.observedChanges
      /\ t.stale = s.stale /\ t.switched = s.switched
  BY <1>1, <1>3 DEF Sights
<1>5. \A o \in Entries : s.view[o] # {} => o \in wider
  BY DEF SightSound, SpheresSound
<1>6. RecordsSound(s.observedChanges, s.stale, wider) /\ RecordsSound(s.observingChanges, s.stale, wider)
  <2>1. ASSUME NEW changes, RecordsSound(changes, s.stale, there) PROVE RecordsSound(changes, s.stale, wider)
    <3>1. ASSUME NEW a \in wider, NEW b \in Entries, changes[a][b] = "Add"
          PROVE  b \in wider \/ b \in s.stale[a]
      <4>1. CASE a \in there
        BY <2>1, <3>1, <4>1 DEF RecordsSound
      <4>2. CASE a \notin there
        <5>1. changes[a] = Quiet
          BY <1>1, <2>1, <4>2 DEF RecordsSound
        <5> QED
          BY <3>1, <5>1 DEF Quiet
      <4> QED
        BY <4>1, <4>2
    <3> QED
      BY <2>1, <3>1 DEF RecordsSound
  <2> QED
    BY <2>1 DEF SightSound
<1>7. RecordsSound(c2, s.stale, wider) /\ \A a \in Entries \ {e} : c2[a] = s.observingChanges[a]
  <2>1. PICK x : x = Reports(s.observingChanges[e], e, s.view, s.visible[e], to)
    OBVIOUS
  <2>2. Except(c2, s.observingChanges, e, x) /\ \A a \in Entries \ {e} : c2[a] = s.observingChanges[a]
    BY <1>1, <1>2, <2>1 DEF Sights, Except
  <2> QED
    BY <1>1, <1>5, <1>6, <2>1, <2>2, ReportsSound
<1>8. /\ t.visible \in [Entries -> SUBSET Cells] /\ t.visible[e] = to
      /\ \A a \in Entries \ {e} : t.visible[a] = s.visible[a]
  BY <1>1, <1>4 DEF Sights
<1>9. t \in Sights
  <2>1. t = [view |-> t.view, visible |-> t.visible, observed |-> t.observed, observing |-> t.observing,
             observedChanges |-> t.observedChanges, observingChanges |-> t.observingChanges,
             stale |-> t.stale, switched |-> t.switched]
    BY <1>1, <1>3 DEF Sights
  <2>2. c2 \in [Entries -> Record]
    BY <1>7 DEF RecordsSound
  <2> QED
    BY <1>1, <1>4, <1>8, <2>1, <2>2 DEF Sights
<1>10. SpheresSound(t, wider)
  BY <1>4, <1>8 DEF SightSound, SpheresSound
<1>11. Sides(s.observed, s.observing, s.stale, wider)
  <2>1. Sides(s.observed, s.observing, s.stale, there)
    BY DEF SightSound
  <2>2. ASSUME NEW mine, NEW theirs, NEW stale, Sides(mine, theirs, stale, there)
        PROVE  Sides(mine, theirs, stale, wider)
    <3> USE <2>2 DEF Sides
    <3>1. ASSUME NEW a \in wider, NEW b \in wider, b \in mine[a] PROVE b \in stale[a] \/ a \in theirs[b]
      BY <1>1, <3>1
    <3>2. ASSUME NEW a \in wider, NEW b \in wider, a \in theirs[b] PROVE a \in stale[b] \/ b \in mine[a]
      BY <1>1, <3>2
    <3>3. ASSUME NEW a \in wider, NEW b \in Entries, b \in mine[a] \/ b \in theirs[a]
          PROVE  b \in wider \/ b \in stale[a]
      BY <1>1, <3>3
    <3>4. \A a \in Entries \ wider : mine[a] = {} /\ theirs[a] = {}
      OBVIOUS
    <3> QED
      BY <3>1, <3>2, <3>3, <3>4
  <2> QED
    BY <2>1, <2>2
<1>12. SightSound(t, wider)
  BY <1>1, <1>4, <1>6, <1>7, <1>9, <1>10, <1>11 DEF SightSound
<1> QED
  BY <1>4, <1>7, <1>12 DEF SameRecords

\* The changes recorded with e, applied to both sides.
LEMMA ChangesMutual ==
    ASSUME NEW mine, NEW theirs, NEW stale, NEW there \in SUBSET Entries, Sides(mine, theirs, stale, there),
           NEW e \in there, NEW changes \in Record,
           \A b \in Entries : changes[b] = "Add" => (b \in there \/ b \in stale[e]),
           NEW mine2, mine2 = [mine EXCEPT ![e] = Changed(@, changes)],
           NEW theirs2, theirs2 = Told(theirs, e, changes, there)
    PROVE  Sides(mine2, theirs2, stale, there)
<1> USE DEF Sides
<1>1. PICK c : c = Changed(mine[e], changes)
  OBVIOUS
<1>2. \A b \in Entries : (b \in c) <=> (changes[b] = "Add" \/ (changes[b] = "none" /\ b \in mine[e]))
  BY <1>1 DEF Changed
<1>3. c \subseteq Entries /\ e \in Entries
  BY <1>1 DEF Changed
<1>4. mine2 \in [Entries -> SUBSET Entries] /\ mine2[e] = c /\ \A a \in Entries \ {e} : mine2[a] = mine[a]
  BY <1>1, <1>3
<1>5. ASSUME NEW o \in Entries
      PROVE  /\ o \in there /\ changes[o] = "Add" => theirs2[o] = theirs[o] \cup {e}
             /\ o \in there /\ changes[o] = "Remove" => theirs2[o] = theirs[o] \ {e}
             /\ o \notin there \/ changes[o] = "none" => theirs2[o] = theirs[o]
  BY DEF Told
<1>6. \A o \in Entries : changes[o] \in {"none", "Add", "Remove"}
  BY DEF Record
<1>7. \A o \in Entries, x \in Entries : x # e => (x \in theirs2[o] <=> x \in theirs[o])
  <2> TAKE o \in Entries, x \in Entries
  <2>1. CASE o \notin there \/ changes[o] = "none"
    BY <1>5, <2>1
  <2>2. CASE o \in there /\ changes[o] = "Add"
    BY <1>5, <2>2
  <2>3. CASE o \in there /\ changes[o] = "Remove"
    BY <1>5, <2>3
  <2> QED
    BY <1>6, <2>1, <2>2, <2>3
<1>8. \A o \in there : e \in theirs2[o] <=> (changes[o] = "Add" \/ (changes[o] = "none" /\ e \in theirs[o]))
  BY <1>5, <1>6
<1>9. theirs2 \in [Entries -> SUBSET Entries]
  <2>1. theirs2 = [o \in Entries |-> theirs2[o]]
    BY DEF Told
  <2>2. ASSUME NEW o \in Entries PROVE theirs2[o] \in SUBSET Entries
    <3>1. CASE o \notin there \/ changes[o] = "none"
      BY <1>5, <3>1
    <3>2. CASE o \in there /\ changes[o] = "Add"
      BY <1>3, <1>5, <3>2
    <3>3. CASE o \in there /\ changes[o] = "Remove"
      BY <1>5, <3>3
    <3> QED
      BY <1>6, <3>1, <3>2, <3>3
  <2> QED
    BY <2>1, <2>2
<1>10. ASSUME NEW a \in there, NEW b \in there, b \in mine2[a] PROVE b \in stale[a] \/ a \in theirs2[b]
  <2>1. CASE a = e
    BY <1>2, <1>4, <1>8, <1>10, <2>1
  <2>2. CASE a # e
    BY <1>4, <1>7, <1>10, <2>2
  <2> QED
    BY <2>1, <2>2
<1>11. ASSUME NEW a \in there, NEW b \in there, a \in theirs2[b] PROVE a \in stale[b] \/ b \in mine2[a]
  <2>1. CASE a = e
    BY <1>2, <1>4, <1>8, <1>11, <2>1
  <2>2. CASE a # e
    BY <1>4, <1>7, <1>11, <2>2
  <2> QED
    BY <2>1, <2>2
<1>12. ASSUME NEW a \in there, NEW b \in Entries, b \in mine2[a] PROVE b \in there \/ b \in stale[a]
  BY <1>2, <1>4, <1>12
<1>13. ASSUME NEW a \in there, NEW b \in Entries, b \in theirs2[a] PROVE b \in there \/ b \in stale[a]
  BY <1>7, <1>13
<1>14. \A a \in Entries \ there : mine2[a] = {} /\ theirs2[a] = {}
  BY <1>4, <1>5
<1> QED
  BY <1>4, <1>9, <1>10, <1>11, <1>12, <1>13, <1>14

\* The same, seen from the other side.
LEMMA SidesSwapped ==
    ASSUME NEW mine, NEW theirs, NEW stale, NEW there, Sides(mine, theirs, stale, there)
    PROVE  Sides(theirs, mine, stale, there)
  BY DEF Sides

\* What is recorded, without what was recorded with e.
LEMMA RecordsCleared ==
    ASSUME NEW changes, NEW stale, NEW there \in SUBSET Entries, RecordsSound(changes, stale, there), NEW e \in Entries,
           NEW c2, Except(c2, changes, e, Quiet)
    PROVE  RecordsSound(c2, stale, there)
<1>1. Quiet \in Record /\ \A b \in Entries : Quiet[b] = "none"
  BY DEF Quiet, Record
<1>2. c2 \in [Entries -> Record] /\ c2[e] = Quiet /\ \A a \in Entries \ {e} : c2[a] = changes[a]
  BY <1>1 DEF RecordsSound, Except
<1>3. ASSUME NEW a \in there, NEW b \in Entries, c2[a][b] = "Add" PROVE b \in there \/ b \in stale[a]
  <2>1. CASE a = e
    BY <1>1, <1>2, <1>3, <2>1
  <2>2. CASE a \in Entries \ {e}
    BY <1>2, <1>3, <2>2 DEF RecordsSound
  <2> QED
    BY <2>1, <2>2
<1> QED
  BY <1>2, <1>3 DEF RecordsSound

LEMMA UpdateObserverSound ==
    ASSUME NEW s, NEW there, SightSound(s, there), NEW e \in there,
           NEW to \in SUBSET Cells, to # {}, NEW u, u = UpdateObserver(s, e, to)
    PROVE  /\ SightSound(u, there)
           /\ u.view[e] # {} => u.observedChanges[e] = Quiet
           /\ u.observingChanges = s.observingChanges /\ u.switched = s.switched
           /\ \A a \in Entries \ {e} : SameRecords(u, s, a)
<1>1. CASE s.view[e] = {}
  BY <1>1 DEF UpdateObserver, SameRecords
<1>2. CASE s.view[e] # {}
  <2>1. PICK t : t = PutView(s, e, to)
    OBVIOUS
  <2>2. /\ SightSound(t, there)
        /\ t.observingChanges = s.observingChanges /\ t.switched = s.switched
        /\ \A a \in Entries \ {e} : SameRecords(t, s, a)
    BY <2>1, PutViewSound
  <2>3. t \in Sights /\ e \in Entries /\ there \in SUBSET Entries /\ InDomain(t) = there
    BY <2>2 DEF SightSound, SpheresSound, InDomain
  <2>4. PICK changes : changes = t.observedChanges[e]
    OBVIOUS
  <2>5. /\ changes \in Record
        /\ \A b \in Entries : changes[b] = "Add" => (b \in there \/ b \in t.stale[e])
    BY <2>2, <2>3, <2>4 DEF SightSound, RecordsSound
  <2>6. PICK mine, theirs : /\ mine = [t.observed EXCEPT ![e] = Changed(@, changes)]
                            /\ theirs = Told(t.observing, e, changes, there)
    OBVIOUS
  <2>7. Sides(mine, theirs, t.stale, there)
    <3>1. Sides(t.observed, t.observing, t.stale, there)
      BY <2>2 DEF SightSound
    <3> QED
      BY <2>3, <2>5, <2>6, <3>1, ChangesMutual
  <2>8. PICK c2 : c2 = [t.observedChanges EXCEPT ![e] = Quiet]
    OBVIOUS
  <2>9. /\ RecordsSound(c2, t.stale, there) /\ c2[e] = Quiet
        /\ \A a \in Entries \ {e} : c2[a] = t.observedChanges[a]
    <3>1. RecordsSound(t.observedChanges, t.stale, there)
      BY <2>2 DEF SightSound
    <3>2. /\ Except(c2, t.observedChanges, e, Quiet) /\ c2[e] = Quiet
          /\ \A a \in Entries \ {e} : c2[a] = t.observedChanges[a]
      BY <2>3, <2>8 DEF Sights, Except
    <3> QED
      BY <2>3, <3>1, <3>2, RecordsCleared
  <2>10. u = [t EXCEPT !.observed = mine, !.observing = theirs, !.observedChanges = c2]
    BY <1>2, <2>1, <2>3, <2>4, <2>6, <2>8 DEF UpdateObserver, MoveView, Sights
  <2>11. /\ u.view = t.view /\ u.visible = t.visible /\ u.observed = mine /\ u.observing = theirs
         /\ u.observedChanges = c2 /\ u.observingChanges = t.observingChanges
         /\ u.stale = t.stale /\ u.switched = t.switched
    BY <2>3, <2>10 DEF Sights
  <2>12. u \in Sights
    <3>1. u = [view |-> u.view, visible |-> u.visible, observed |-> u.observed, observing |-> u.observing,
               observedChanges |-> u.observedChanges, observingChanges |-> u.observingChanges,
               stale |-> u.stale, switched |-> u.switched]
      BY <2>3, <2>10 DEF Sights
    <3>2. c2 \in [Entries -> Record] /\ mine \in [Entries -> SUBSET Entries] /\ theirs \in [Entries -> SUBSET Entries]
      BY <2>7, <2>9 DEF RecordsSound, Sides
    <3> QED
      BY <2>3, <2>11, <3>1, <3>2 DEF Sights
  <2>13. SightSound(u, there)
    BY <2>2, <2>7, <2>9, <2>11, <2>12 DEF SightSound, SpheresSound
  <2> QED
    BY <2>2, <2>9, <2>11, <2>13 DEF SameRecords
<1> QED
  BY <1>1, <1>2

LEMMA UpdateObservedSound ==
    ASSUME NEW s, NEW there, SightSound(s, there), NEW e \in there,
           NEW to \in SUBSET Cells, to # {}, NEW u, u = UpdateObserved(s, e, to)
    PROVE  /\ SightSound(u, there)
           /\ u.observingChanges[e] = Quiet /\ u.observedChanges = s.observedChanges /\ u.view = s.view
           /\ \A a \in Entries \ {e} : SameRecords(u, s, a)
<1>1. PICK t : t = MoveVisible(s, e, to)
  OBVIOUS
<1>2. /\ SightSound(t, there)
      /\ t.observedChanges = s.observedChanges /\ t.switched = s.switched /\ t.view = s.view
      /\ \A a \in Entries \ {e} : SameRecords(t, s, a)
  <2>1. e \in Entries /\ there = there \cup {e}
    BY DEF SightSound
  <2> QED
    BY <1>1, <2>1, MoveVisibleSound
<1>3. t \in Sights /\ e \in Entries /\ there \in SUBSET Entries /\ InDomain(t) = there
  BY <1>2 DEF SightSound, SpheresSound, InDomain
<1>4. PICK changes : changes = t.observingChanges[e]
  OBVIOUS
<1>5. /\ changes \in Record
      /\ \A b \in Entries : changes[b] = "Add" => (b \in there \/ b \in t.stale[e])
  BY <1>2, <1>3, <1>4 DEF SightSound, RecordsSound
<1>6. PICK mine, theirs : /\ mine = [t.observing EXCEPT ![e] = Changed(@, changes)]
                          /\ theirs = Told(t.observed, e, changes, there)
  OBVIOUS
<1>7. Sides(theirs, mine, t.stale, there)
  <2>1. Sides(t.observing, t.observed, t.stale, there)
    BY <1>2, SidesSwapped DEF SightSound
  <2>2. Sides(mine, theirs, t.stale, there)
    BY <1>3, <1>5, <1>6, <2>1, ChangesMutual
  <2> QED
    BY <2>2, SidesSwapped
<1>8. PICK c2 : c2 = [t.observingChanges EXCEPT ![e] = Quiet]
  OBVIOUS
<1>9. /\ RecordsSound(c2, t.stale, there) /\ c2[e] = Quiet
      /\ \A a \in Entries \ {e} : c2[a] = t.observingChanges[a]
  <2>1. RecordsSound(t.observingChanges, t.stale, there)
    BY <1>2 DEF SightSound
  <2>2. /\ Except(c2, t.observingChanges, e, Quiet) /\ c2[e] = Quiet
        /\ \A a \in Entries \ {e} : c2[a] = t.observingChanges[a]
    BY <1>3, <1>8 DEF Sights, Except
  <2> QED
    BY <1>3, <2>1, <2>2, RecordsCleared
<1>10. u = [t EXCEPT !.observing = mine, !.observed = theirs, !.observingChanges = c2,
                     !.switched = t.switched \ {e}]
  BY <1>1, <1>3, <1>4, <1>6, <1>8 DEF UpdateObserved, Sights
<1>11. /\ u.view = t.view /\ u.visible = t.visible /\ u.observing = mine /\ u.observed = theirs
       /\ u.observingChanges = c2 /\ u.observedChanges = t.observedChanges
       /\ u.stale = t.stale /\ u.switched = t.switched \ {e}
  BY <1>3, <1>10 DEF Sights
<1>12. u \in Sights
  <2>1. u = [view |-> u.view, visible |-> u.visible, observed |-> u.observed, observing |-> u.observing,
             observedChanges |-> u.observedChanges, observingChanges |-> u.observingChanges,
             stale |-> u.stale, switched |-> u.switched]
    BY <1>3, <1>10 DEF Sights
  <2>2. c2 \in [Entries -> Record] /\ mine \in [Entries -> SUBSET Entries] /\ theirs \in [Entries -> SUBSET Entries]
    BY <1>7, <1>9 DEF RecordsSound, Sides
  <2> QED
    BY <1>3, <1>11, <2>1, <2>2 DEF Sights
<1>13. SightSound(u, there)
  BY <1>2, <1>7, <1>9, <1>11, <1>12 DEF SightSound, SpheresSound
<1> QED
  BY <1>2, <1>9, <1>11, <1>13 DEF SameRecords

LEMMA CoverIs ==
    ASSUME NEW large, NEW e, NEW spot \in Cells
    PROVE  Cover(large, e, spot) \in SUBSET Cells /\ Cover(large, e, spot) # {}
  BY DEF Cover

LEMMA RefreshedSound ==
    ASSUME position \in [Entries -> Places], NEW s, SightSound(s, Present), NEW e \in Present,
           NEW u, u = Refreshed(s, e)
    PROVE  /\ SightSound(u, Present) /\ Settled(u, e)
           /\ \A a \in Entries \ {e} : SameRecords(u, s, a)
<1>1. position[e] \in Cells
  BY DEF Present, Places
<1>2. PICK to1, to2 : /\ to1 = Cover(shapes.visible, e, position[e])
                      /\ to2 = Cover(shapes.view, e, position[e])
  OBVIOUS
<1>3. to1 \in SUBSET Cells /\ to1 # {} /\ to2 \in SUBSET Cells /\ to2 # {}
  BY <1>1, <1>2, CoverIs
<1>4. PICK t : t = UpdateObserved(s, e, to1)
  OBVIOUS
<1>5. /\ SightSound(t, Present) /\ t.observingChanges[e] = Quiet
      /\ \A a \in Entries \ {e} : SameRecords(t, s, a)
  BY <1>3, <1>4, UpdateObservedSound
<1>6. u = UpdateObserver(t, e, to2)
  BY <1>2, <1>4 DEF Refreshed
<1>7. /\ SightSound(u, Present)
      /\ u.view[e] # {} => u.observedChanges[e] = Quiet
      /\ u.observingChanges = t.observingChanges
      /\ \A a \in Entries \ {e} : SameRecords(u, t, a)
  BY <1>3, <1>5, <1>6, UpdateObserverSound
<1> QED
  BY <1>5, <1>7 DEF Settled, SameRecords

-----------------------------------------------------------------------------
\* Every set of numbers has a least one.
LEMMA LeastNumber ==
    ASSUME NEW T, T \subseteq Nat, T # {}
    PROVE  \E x \in T : \A y \in T : x <= y
<1>1. IsWellFoundedOn(OpToRel(<, Nat), Nat)
  BY NatLessThanWellFounded
<1>2. PICK x \in T : \A y \in T : ~ (<<y, x>> \in OpToRel(<, Nat))
  BY <1>1, WFMin, Zenon
<1>3. \A y \in T : ~ (y < x)
  BY <1>2 DEF OpToRel
<1>4. x \in Nat /\ \A y \in T : y \in Nat
  BY <1>2
<1>5. \A y \in T : x <= y
  BY <1>3, <1>4
<1> QED
  BY <1>2, <1>5

\* SetToSeqs() names every member of a finite set, each once.
LEMMA SetToSeqsAre ==
    ASSUME NEW S, IsFiniteSet(S), NEW s \in SetToSeqs(S)
    PROVE  /\ Len(s) \in Nat /\ \A i, j \in 1 .. Len(s) : i # j => s[i] # s[j]
           /\ S = {s[i] : i \in 1 .. Len(s)}
<1>1. PICK n \in Nat : n = Cardinality(S)
  BY FS_CardinalityType
<1>2. s \in [1 .. n -> S] /\ \A i, j \in 1 .. n : i # j => s[i] # s[j]
  BY <1>1 DEF SetToSeqs
<1>3. s \in Injection(1 .. n, S)
  BY <1>2 DEF Injection, IsInjective
<1>4. IsFiniteSet(1 .. n) /\ Cardinality(1 .. n) = n
  BY <1>1, FS_Interval
<1>5. s \in Surjection(1 .. n, S)
  BY <1>1, <1>3, <1>4, FS_Injection
<1>6. S = {s[i] : i \in 1 .. n}
  BY <1>2, <1>5 DEF Surjection
<1>7. Len(s) = n
  BY <1>2
<1> QED
  BY <1>1, <1>2, <1>6, <1>7

\* f[i] are the spheres after the updates of the first i entries of the queue.
Refreshes(f, n) ==
    f = [i \in 0 .. n |-> IF i = 0 THEN sight ELSE Refreshed(f[i - 1], recalculate[i])]

LEMMA RefreshesExists ==
    ASSUME NEW n \in Nat PROVE \E f : Refreshes(f, n)
<1> DEFINE Bad == {k \in Nat : ~ \E f : Refreshes(f, k)}
<1> SUFFICES ASSUME Bad # {} PROVE FALSE
  OBVIOUS
<1>1. PICK k \in Bad : \A j \in Bad : k <= j
  <2>1. Bad \subseteq Nat
    OBVIOUS
  <2> HIDE DEF Bad
  <2> QED
    BY <2>1, LeastNumber
<1>2. k \in Nat /\ ~ \E f : Refreshes(f, k)
  BY <1>1
<1>3. k # 0
  <2>1. PICK g : g = [i \in 0 .. 0 |-> sight]
    OBVIOUS
  <2>2. g = [i \in 0 .. 0 |-> IF i = 0 THEN sight ELSE Refreshed(g[i - 1], recalculate[i])]
    BY <2>1
  <2>3. Refreshes(g, 0)
    BY <2>2 DEF Refreshes
  <2> QED
    BY <1>2, <2>3
<1>4. PICK j \in Nat : k = j + 1
  BY <1>2, <1>3
<1>5. PICK f : Refreshes(f, j)
  BY <1>1, <1>2, <1>4
<1>6. PICK g : g = [i \in 0 .. (j + 1) |-> IF i = 0 THEN sight ELSE Refreshed(f[i - 1], recalculate[i])]
  OBVIOUS
<1>7. ASSUME NEW i \in 0 .. j PROVE g[i] = f[i]
  <2>1. f[i] = IF i = 0 THEN sight ELSE Refreshed(f[i - 1], recalculate[i])
    BY <1>5 DEF Refreshes
  <2>2. i \in 0 .. (j + 1)
    BY <1>4
  <2> QED
    BY <1>6, <2>1, <2>2
<1>8. g = [i \in 0 .. (j + 1) |-> IF i = 0 THEN sight ELSE Refreshed(g[i - 1], recalculate[i])]
  <2>1. ASSUME NEW i \in 0 .. (j + 1), i # 0 PROVE g[i - 1] = f[i - 1]
    <3>1. i - 1 \in 0 .. j
      BY <1>4, <2>1
    <3> QED
      BY <1>7, <3>1
  <2> QED
    BY <1>6, <2>1
<1> QED
  BY <1>2, <1>4, <1>8 DEF Refreshes

LEMMA AfterFirstRefreshes ==
    ASSUME NEW n \in Nat PROVE \E f : Refreshes(f, n) /\ AfterFirst(n) = f[n]
<1>1. PICK g : g = CHOOSE f : f = [i \in 0 .. n |-> IF i = 0 THEN sight ELSE Refreshed(f[i - 1], recalculate[i])]
  OBVIOUS
<1>2. Refreshes(g, n)
  BY <1>1, RefreshesExists DEF Refreshes
<1>3. AfterFirst(n) = g[n]
  BY <1>1 DEF AfterFirst
<1> QED
  BY <1>2, <1>3

\* The first i entries of the queue are settled, and the records of the others are
\* what they were.
RefreshedTo(f, i) ==
    /\ SightSound(f[i], Present)
    /\ \A j \in 1 .. i : Settled(f[i], recalculate[j])
    /\ \A a \in Entries : SameRecords(f[i], sight, a) \/ \E j \in 1 .. i : a = recalculate[j]

LEMMA AllRefreshed ==
    ASSUME VisibilityInv, NEW n \in 0 .. Len(recalculate), NEW f, Refreshes(f, n)
    PROVE  RefreshedTo(f, n)
<1> DEFINE Bad == {k \in Nat : k \in 0 .. n /\ ~ RefreshedTo(f, k)}
<1> SUFFICES ASSUME Bad # {} PROVE FALSE
  <2>1. n \in Nat /\ n \in 0 .. n
    BY DEF VisibilityInv, RecalculateSound
  <2> QED
    BY <2>1
<1>1. PICK k \in Bad : \A j \in Bad : k <= j
  <2>1. Bad \subseteq Nat
    OBVIOUS
  <2> HIDE DEF Bad
  <2> QED
    BY <2>1, LeastNumber
<1>2. k \in Nat /\ k \in 0 .. n /\ ~ RefreshedTo(f, k)
  BY <1>1
<1>3. f[0] = sight
  BY <1>2 DEF Refreshes
<1>4. k # 0
  <2>1. RefreshedTo(f, 0)
    BY <1>3 DEF RefreshedTo, SameRecords, VisibilityInv
  <2> QED
    BY <1>2, <2>1
<1>5. PICK j \in Nat : k = j + 1 /\ j \in 0 .. n
  BY <1>2, <1>4
<1>6. RefreshedTo(f, j)
  BY <1>1, <1>5
<1>7. PICK e : e = recalculate[k]
  OBVIOUS
<1>8. k \in 1 .. Len(recalculate) /\ e \in Present /\ e \in Entries
  BY <1>2, <1>4, <1>7 DEF VisibilityInv, RecalculateSound, Present
<1>9. f[k] = Refreshed(f[j], e)
  BY <1>2, <1>4, <1>5, <1>7 DEF Refreshes
<1>10. /\ SightSound(f[k], Present) /\ Settled(f[k], e)
       /\ \A a \in Entries \ {e} : SameRecords(f[k], f[j], a)
  BY <1>6, <1>8, <1>9, RefreshedSound DEF RefreshedTo, VisibilityInv
<1>11. ASSUME NEW i \in 1 .. k PROVE Settled(f[k], recalculate[i])
  <2>1. CASE i = k
    BY <1>7, <1>10, <2>1
  <2>2. CASE i # k
    <3>1. i \in 1 .. j /\ i \in 1 .. Len(recalculate)
      BY <1>5, <1>8, <2>2
    <3>2. recalculate[i] # e /\ recalculate[i] \in Entries
      BY <1>7, <1>8, <2>2, <3>1 DEF VisibilityInv, RecalculateSound, Present
    <3>3. Settled(f[j], recalculate[i])
      BY <1>6, <3>1 DEF RefreshedTo
    <3> QED
      BY <1>10, <3>2, <3>3, SettledStays
  <2> QED
    BY <2>1, <2>2
<1>12. ASSUME NEW a \in Entries PROVE SameRecords(f[k], sight, a) \/ \E i \in 1 .. k : a = recalculate[i]
  <2>1. CASE a = e
    BY <1>4, <1>5, <1>7, <2>1
  <2>2. CASE a # e
    <3>1. SameRecords(f[j], sight, a) \/ \E i \in 1 .. j : a = recalculate[i]
      BY <1>6 DEF RefreshedTo
    <3>2. SameRecords(f[k], f[j], a)
      BY <1>10, <2>2
    <3> QED
      BY <1>5, <3>1, <3>2 DEF SameRecords
  <2> QED
    BY <2>1, <2>2
<1> QED
  BY <1>2, <1>10, <1>11, <1>12 DEF RefreshedTo

LEMMA UpdateDirtyKeeps ==
    ASSUME VisibilityInv, UpdateDirty PROVE VisibilityInv'
<1>1. PICK n : n = IF Len(recalculate) < MaxEntries THEN Len(recalculate) ELSE MaxEntries
  OBVIOUS
<1>2. PICK q : q = recalculate
  OBVIOUS
<1>3. q \in Seq(Entries) /\ Len(q) \in Nat
  BY <1>2 DEF VisibilityInv, RecalculateSound
<1>4. n \in 0 .. Len(q) /\ n \in Nat
  BY <1>1, <1>2, <1>3, VisibilityAssumption
<1>5. sight' = AfterFirst(n) /\ recalculate' = SubSeq(q, n + 1, Len(q)) /\ position' = position
  BY <1>1, <1>2 DEF UpdateDirty
<1>6. PICK f : Refreshes(f, n) /\ AfterFirst(n) = f[n]
  BY <1>4, AfterFirstRefreshes
<1>7. RefreshedTo(f, n)
  BY <1>2, <1>4, <1>6, AllRefreshed
<1>8. sight' = f[n] /\ Present' = Present
  BY <1>5, <1>6 DEF Present
<1>9. PICK r : r = SubSeq(q, n + 1, Len(q))
  OBVIOUS
<1>10. r \in Seq(Entries) /\ Len(r) = Len(q) - n /\ \A i \in 1 .. Len(r) : r[i] = q[n + i] /\ n + i \in 1 .. Len(q)
  <2>1. \A i \in 1 .. Len(q) : q[i] \in Entries
    BY <1>3
  <2>2. r \in Seq(Entries)
    BY <1>3, <1>4, <1>9, <2>1
  <2>3. Len(r) = Len(q) - n
    BY <1>3, <1>4, <1>9
  <2>4. ASSUME NEW i \in 1 .. Len(r) PROVE r[i] = q[n + i] /\ n + i \in 1 .. Len(q)
    BY <1>3, <1>4, <1>9, <2>3
  <2> QED
    BY <2>2, <2>3, <2>4
<1>11. RecalculateSound'
  <2>1. recalculate' = r
    BY <1>5, <1>9
  <2>2. \A i \in 1 .. Len(r) : r[i] \in Present
    BY <1>2, <1>10 DEF VisibilityInv, RecalculateSound
  <2>3. ASSUME NEW i \in 1 .. Len(r), NEW j \in 1 .. Len(r), r[i] = r[j] PROVE i = j
    <3>1. n + i = n + j
      BY <1>2, <1>10, <2>3 DEF VisibilityInv, RecalculateSound
    <3> QED
      BY <1>4, <1>10, <3>1
  <2> QED
    BY <1>8, <1>10, <2>1, <2>2, <2>3 DEF RecalculateSound
<1>12. RecordedQueued'
  <2> SUFFICES ASSUME NEW a \in Present, a \notin Range(r) PROVE Settled(f[n], a)
    BY <1>5, <1>8, <1>9 DEF RecordedQueued
  <2>1. a \in Entries
    BY DEF Present
  <2>2. CASE \E j \in 1 .. n : a = q[j]
    BY <1>2, <1>7, <2>2 DEF RefreshedTo
  <2>3. CASE ~ \E j \in 1 .. n : a = q[j]
    <3>1. ASSUME NEW i \in 1 .. Len(q) PROVE q[i] # a
      <4>1. CASE i <= n
        BY <1>4, <2>3, <4>1
      <4>2. CASE i > n
        <5>1. PICK j : j = i - n
          OBVIOUS
        <5>2. j \in 1 .. Len(r) /\ q[i] = r[j]
          BY <1>3, <1>4, <1>10, <4>2, <5>1
        <5>3. DOMAIN r = 1 .. Len(r)
          BY <1>10
        <5> QED
          BY <5>2, <5>3 DEF Range
      <4> QED
        BY <1>3, <1>4, <4>1, <4>2
    <3>2. a \notin Range(recalculate)
      BY <1>2, <1>3, <3>1 DEF Range
    <3>3. Settled(sight, a)
      BY <3>2 DEF VisibilityInv, RecordedQueued
    <3>4. SameRecords(f[n], sight, a)
      BY <1>2, <1>7, <2>1, <2>3 DEF RefreshedTo
    <3> QED
      BY <3>3, <3>4, SettledStays
  <2> QED
    BY <2>2, <2>3
<1> QED
  BY <1>5, <1>7, <1>8, <1>11, <1>12 DEF VisibilityInv, RefreshedTo

LEMMA PresentAfter ==
    ASSUME position \in [Entries -> Places], NEW e \in Entries, NEW spot \in Cells,
           position' = [position EXCEPT ![e] = spot]
    PROVE  position' \in [Entries -> Places] /\ Present' = Present \cup {e}
  BY VisibilityAssumption DEF Places, Present

LEMMA AddEntryKeeps ==
    ASSUME VisibilityInv, NEW e \in Entries, NEW spot \in Cells, NEW perceives \in BOOLEAN,
           AddEntry(e, spot, perceives)
    PROVE  VisibilityInv'
<1>1. position' \in [Entries -> Places] /\ Present' = Present \cup {e}
  <2>1. position \in [Entries -> Places] /\ position' = [position EXCEPT ![e] = spot]
    BY DEF AddEntry, VisibilityInv
  <2> QED
    BY <2>1, PresentAfter
<1>2. PICK there : there = Present \cup {e}
  OBVIOUS
<1>3. PICK to : to = {spot}
  OBVIOUS
<1>4. e \in there /\ to \in SUBSET Cells /\ to # {} /\ recalculate' = recalculate
  BY <1>2, <1>3 DEF AddEntry
<1>5. PICK r : r = MoveVisible(sight, e, to)
  OBVIOUS
<1>6. SightSound(r, there) /\ \A a \in Entries \ {e} : SameRecords(r, sight, a)
  BY <1>2, <1>4, <1>5, MoveVisibleSound DEF VisibilityInv
<1>7. PICK s : s = IF perceives THEN PutView(r, e, to) ELSE r
  OBVIOUS
<1>8. SightSound(s, there) /\ \A a \in Entries \ {e} : SameRecords(s, sight, a)
  <2>1. CASE perceives
    <3>1. SightSound(s, there) /\ \A a \in Entries \ {e} : SameRecords(s, r, a)
      BY <1>4, <1>6, <1>7, <2>1, PutViewSound
    <3> QED
      BY <1>6, <3>1 DEF SameRecords
  <2>2. CASE ~ perceives
    BY <1>6, <1>7, <2>2
  <2> QED
    BY <2>1, <2>2
<1>9. PICK t : t = UpdateObserver(s, e, to)
  OBVIOUS
<1>10. /\ SightSound(t, there) /\ (t.view[e] # {} => t.observedChanges[e] = Quiet)
       /\ \A a \in Entries \ {e} : SameRecords(t, s, a)
  BY <1>4, <1>8, <1>9, UpdateObserverSound
<1>11. sight' = UpdateObserved(t, e, to)
  BY <1>3, <1>5, <1>7, <1>9 DEF AddEntry
<1>12. /\ SightSound(sight', there) /\ sight'.observingChanges[e] = Quiet
       /\ sight'.observedChanges = t.observedChanges /\ sight'.view = t.view
       /\ \A a \in Entries \ {e} : SameRecords(sight', t, a)
  BY <1>4, <1>10, <1>11, UpdateObservedSound
<1>13. RecalculateSound'
  BY <1>1, <1>4 DEF VisibilityInv, RecalculateSound
<1>14. ASSUME NEW a \in there, a \notin Range(recalculate) PROVE Settled(sight', a)
  <2>1. CASE a = e
    BY <1>10, <1>12, <2>1 DEF Settled
  <2>2. CASE a # e
    <3>1. a \in Present /\ a \in Entries
      BY <1>2, <1>14, <2>2 DEF Present
    <3>2. Settled(sight, a)
      BY <1>14, <3>1 DEF VisibilityInv, RecordedQueued
    <3>3. SameRecords(s, sight, a) /\ SameRecords(t, s, a) /\ SameRecords(sight', t, a)
      BY <1>8, <1>10, <1>12, <2>2, <3>1
    <3> QED
      BY <3>2, <3>3, SettledStays
  <2> QED
    BY <2>1, <2>2
<1>15. RecordedQueued'
  BY <1>1, <1>2, <1>4, <1>14 DEF RecordedQueued
<1> QED
  BY <1>1, <1>2, <1>12, <1>13, <1>15 DEF VisibilityInv

\* An entry that is marked is in the queue, once.
LEMMA MarkedQueued ==
    ASSUME RecalculateSound, NEW e \in Present, recalculate' = Marked(e), Present' = Present
    PROVE  RecalculateSound' /\ Range(recalculate') = Range(recalculate) \cup {e}
<1>1. PICK q : q = recalculate
  OBVIOUS
<1>2. q \in Seq(Entries) /\ e \in Entries /\ Len(q) \in Nat /\ DOMAIN q = 1 .. Len(q)
  BY <1>1 DEF RecalculateSound, Present
<1>3. CASE e \in Range(q)
  BY <1>1, <1>3 DEF Marked, RecalculateSound
<1>4. CASE e \notin Range(q)
  <2>1. recalculate' = Append(q, e)
    BY <1>1, <1>4 DEF Marked
  <2>2. PICK r : r = Append(q, e)
    OBVIOUS
  <2>3. /\ r \in Seq(Entries) /\ Len(r) = Len(q) + 1 /\ r[Len(q) + 1] = e
        /\ \A i \in 1 .. Len(q) : r[i] = q[i]
    BY <1>2, <2>2
  <2>4. \A i \in 1 .. Len(q) : q[i] # e
    BY <1>2, <1>4 DEF Range
  <2>5. \A i \in 1 .. Len(r) : i \in 1 .. Len(q) \/ i = Len(q) + 1
    BY <1>2, <2>3
  <2>6. \A i \in 1 .. Len(r) : r[i] \in Present
    BY <1>1, <2>3, <2>5 DEF RecalculateSound
  <2>7. \A i, j \in 1 .. Len(r) : r[i] = r[j] => i = j
    BY <1>1, <2>3, <2>4, <2>5 DEF RecalculateSound
  <2>8. DOMAIN r = 1 .. Len(q) + 1
    BY <1>2, <2>3
  <2>9. Range(r) = Range(q) \cup {e}
    BY <1>2, <2>3, <2>5, <2>8 DEF Range
  <2> QED
    BY <1>1, <2>1, <2>2, <2>3, <2>6, <2>7, <2>9 DEF RecalculateSound
<1> QED
  BY <1>3, <1>4

LEMMA SimulatedKeeps ==
    ASSUME VisibilityInv, NEW e \in Entries, NEW spot \in Cells, Simulated(e, spot) PROVE VisibilityInv'
<1>1. e \in Present
  BY DEF Simulated, Present
<1>2. position' \in [Entries -> Places] /\ Present' = Present
  <2>1. position \in [Entries -> Places] /\ position' = [position EXCEPT ![e] = spot]
    BY DEF Simulated, VisibilityInv
  <2>2. position' \in [Entries -> Places] /\ Present' = Present \cup {e}
    BY <2>1, PresentAfter
  <2> QED
    BY <1>1, <2>2
<1>3. RecalculateSound' /\ Range(recalculate') = Range(recalculate) \cup {e}
  BY <1>1, <1>2, MarkedQueued DEF Simulated, VisibilityInv
<1>4. sight' = sight
  BY DEF Simulated
<1>5. RecordedQueued'
  BY <1>2, <1>3, <1>4 DEF VisibilityInv, RecordedQueued
<1> QED
  BY <1>2, <1>3, <1>4, <1>5 DEF VisibilityInv

LEMMA ResizedKeeps ==
    ASSUME VisibilityInv, NEW e \in Entries, Resized(e) PROVE VisibilityInv'
<1>1. e \in Present /\ position' = position /\ sight' = sight /\ Present' = Present
  BY DEF Resized, Present
<1>2. RecalculateSound' /\ Range(recalculate') = Range(recalculate) \cup {e}
  BY <1>1, MarkedQueued DEF Resized, VisibilityInv
<1>3. RecordedQueued'
  BY <1>1, <1>2 DEF VisibilityInv, RecordedQueued
<1> QED
  BY <1>1, <1>2, <1>3 DEF VisibilityInv

LEMMA ApplyNewPositionKeeps ==
    ASSUME VisibilityInv, NEW e \in Entries, NEW spot \in Cells, ApplyNewPosition(e, spot)
    PROVE  VisibilityInv'
<1>1. e \in Present /\ Present = Present \cup {e}
  BY DEF ApplyNewPosition, Present
<1>2. position' \in [Entries -> Places] /\ Present' = Present
  <2>1. position \in [Entries -> Places] /\ position' = [position EXCEPT ![e] = spot]
    BY DEF ApplyNewPosition, VisibilityInv
  <2>2. position' \in [Entries -> Places] /\ Present' = Present \cup {e}
    BY <2>1, PresentAfter
  <2> QED
    BY <1>1, <2>2
<1>3. RecalculateSound' /\ Range(recalculate') = Range(recalculate) \cup {e}
  BY <1>1, <1>2, MarkedQueued DEF ApplyNewPosition, VisibilityInv
<1>4. PICK to1, to2 : to1 = Cover(shapes.view, e, spot) /\ to2 = Cover(shapes.visible, e, spot)
  OBVIOUS
<1>5. to1 \in SUBSET Cells /\ to1 # {} /\ to2 \in SUBSET Cells /\ to2 # {}
  BY <1>4, CoverIs
<1>6. PICK s : s = MoveView(sight, e, to1)
  OBVIOUS
<1>7. SightSound(s, Present) /\ \A a \in Entries \ {e} : SameRecords(s, sight, a)
  BY <1>1, <1>5, <1>6, MoveViewSound DEF VisibilityInv
<1>8. PICK t : t = MoveVisible(s, e, to2)
  OBVIOUS
<1>9. SightSound(t, Present) /\ \A a \in Entries \ {e} : SameRecords(t, s, a)
  BY <1>1, <1>5, <1>7, <1>8, MoveVisibleSound
<1>10. SightSound(sight', Present) /\ \A a \in Entries \ {e} : SameRecords(sight', t, a)
  <2>1. CASE e \in AdminEntries
    <3>1. sight' = UpdateObserver(t, e, to1)
      BY <1>4, <1>6, <1>8, <2>1 DEF ApplyNewPosition
    <3> QED
      BY <1>1, <1>5, <1>9, <3>1, UpdateObserverSound
  <2>2. CASE e \notin AdminEntries
    <3>1. sight' = t
      BY <1>4, <1>6, <1>8, <2>2 DEF ApplyNewPosition
    <3> QED
      BY <1>9, <3>1 DEF SameRecords
  <2> QED
    BY <2>1, <2>2
<1>11. ASSUME NEW a \in Present, a \notin Range(recalculate') PROVE Settled(sight', a)
  <2>1. a # e /\ a \in Entries /\ Settled(sight, a)
    BY <1>3, <1>11 DEF VisibilityInv, RecordedQueued, Present
  <2>2. SameRecords(s, sight, a) /\ SameRecords(t, s, a) /\ SameRecords(sight', t, a)
    BY <1>7, <1>9, <1>10, <2>1
  <2> QED
    BY <2>1, <2>2, SettledStays
<1>12. RecordedQueued'
  BY <1>2, <1>11 DEF RecordedQueued
<1> QED
  BY <1>2, <1>3, <1>10, <1>12 DEF VisibilityInv

LEMMA PerceptionOnKeeps ==
    ASSUME VisibilityInv, NEW e \in Entries, NEW large \in BOOLEAN, PerceptionOn(e, large)
    PROVE  VisibilityInv'
<1>1. PICK s, to : s = sight /\ to = {position[e]}
  OBVIOUS
<1>2. /\ e \in Present /\ to \in SUBSET Cells /\ to # {}
      /\ position' = position /\ recalculate' = recalculate /\ Present' = Present
  BY <1>1 DEF PerceptionOn, VisibilityInv, Present, Places
<1>3. SightSound(s, Present) /\ s \in Sights /\ Present \in SUBSET Entries
  BY <1>1 DEF VisibilityInv, SightSound
<1>4. PICK c2 : c2 = [s.observingChanges EXCEPT ![e] = Reports(@, e, s.visible, {}, to)]
  OBVIOUS
<1>5. RecordsSound(c2, s.stale, Present) /\ \A a \in Entries \ {e} : c2[a] = s.observingChanges[a]
  <2>1. RecordsSound(s.observingChanges, s.stale, Present) /\ \A o \in Entries : s.visible[o] # {} => o \in Present
    BY <1>3 DEF SightSound, SpheresSound
  <2>2. PICK x : x = Reports(s.observingChanges[e], e, s.visible, {}, to)
    OBVIOUS
  <2>3. Except(c2, s.observingChanges, e, x) /\ \A a \in Entries \ {e} : c2[a] = s.observingChanges[a]
    BY <1>2, <1>3, <1>4, <2>2 DEF Sights, Except
  <2> QED
    BY <1>2, <1>3, <2>1, <2>2, <2>3, ReportsSound
<1>6. PICK t : t = [s EXCEPT !.view = [s.view EXCEPT ![e] = to], !.observingChanges = c2,
                             !.switched = s.switched \cup {e}]
  OBVIOUS
<1>7. /\ t.view = [s.view EXCEPT ![e] = to] /\ t.visible = s.visible
      /\ t.observed = s.observed /\ t.observing = s.observing
      /\ t.observedChanges = s.observedChanges /\ t.observingChanges = c2
      /\ t.stale = s.stale /\ t.switched = s.switched \cup {e}
  BY <1>3, <1>6 DEF Sights
<1>8. t.view \in [Entries -> SUBSET Cells] /\ t.view[e] = to /\ \A a \in Entries \ {e} : t.view[a] = s.view[a]
  BY <1>2, <1>3, <1>7 DEF Sights
<1>9. t \in Sights
  <2>1. t = [view |-> t.view, visible |-> t.visible, observed |-> t.observed, observing |-> t.observing,
             observedChanges |-> t.observedChanges, observingChanges |-> t.observingChanges,
             stale |-> t.stale, switched |-> t.switched]
    BY <1>3, <1>6 DEF Sights
  <2>2. c2 \in [Entries -> Record] /\ s.switched \cup {e} \in SUBSET Entries
    BY <1>3, <1>5 DEF RecordsSound, Sights
  <2> QED
    BY <1>3, <1>7, <1>8, <2>1, <2>2 DEF Sights
<1>10. SightSound(t, Present)
  <2>1. SpheresSound(t, Present)
    BY <1>2, <1>3, <1>7, <1>8 DEF SightSound, SpheresSound
  <2> QED
    BY <1>3, <1>5, <1>7, <1>9, <2>1 DEF SightSound
<1>11. sight' = UpdateObserver(t, e, to)
  BY <1>1, <1>3, <1>4, <1>6 DEF PerceptionOn, Sights
<1>12. /\ SightSound(sight', Present)
       /\ sight'.view[e] # {} => sight'.observedChanges[e] = Quiet
       /\ sight'.switched = t.switched
       /\ \A a \in Entries \ {e} : SameRecords(sight', t, a)
  BY <1>2, <1>10, <1>11, UpdateObserverSound
<1>13. ASSUME NEW a \in Present, a \notin Range(recalculate) PROVE Settled(sight', a)
  <2>1. CASE a = e
    BY <1>7, <1>12, <2>1 DEF Settled
  <2>2. CASE a # e
    <3>1. a \in Entries /\ Settled(s, a)
      BY <1>1, <1>13 DEF VisibilityInv, RecordedQueued, Present
    <3>2. SameRecords(t, s, a)
      BY <1>5, <1>7, <1>8, <2>2, <3>1 DEF SameRecords
    <3>3. SameRecords(sight', t, a)
      BY <1>12, <2>2, <3>1
    <3> QED
      BY <3>1, <3>2, <3>3, SettledStays
  <2> QED
    BY <2>1, <2>2
<1>14. RecordedQueued'
  BY <1>2, <1>13 DEF RecordedQueued
<1> QED
  BY <1>2, <1>12, <1>14 DEF VisibilityInv, RecalculateSound

LEMMA PerceptionOffKeeps ==
    ASSUME VisibilityInv, NEW e \in Entries, PerceptionOff(e) PROVE VisibilityInv'
<1>1. PICK s, t : s = sight /\ t = sight'
  OBVIOUS
<1>2. /\ SightSound(s, Present) /\ s \in Sights
      /\ position' = position /\ recalculate' = recalculate /\ Present' = Present
  BY <1>1 DEF PerceptionOff, VisibilityInv, Present, SightSound
<1>3. t = [s EXCEPT !.view = [s.view EXCEPT ![e] = {}]]
  BY <1>1, <1>2 DEF PerceptionOff, Sights
<1>4. /\ t.view = [s.view EXCEPT ![e] = {}] /\ t.visible = s.visible
      /\ t.observed = s.observed /\ t.observing = s.observing
      /\ t.observedChanges = s.observedChanges /\ t.observingChanges = s.observingChanges
      /\ t.stale = s.stale /\ t.switched = s.switched
  BY <1>2, <1>3 DEF Sights
<1>5. t.view \in [Entries -> SUBSET Cells] /\ t.view[e] = {} /\ \A a \in Entries \ {e} : t.view[a] = s.view[a]
  BY <1>2, <1>4 DEF Sights
<1>6. t \in Sights
  <2>1. t = [view |-> t.view, visible |-> t.visible, observed |-> t.observed, observing |-> t.observing,
             observedChanges |-> t.observedChanges, observingChanges |-> t.observingChanges,
             stale |-> t.stale, switched |-> t.switched]
    BY <1>2, <1>3 DEF Sights
  <2> QED
    BY <1>2, <1>4, <1>5, <2>1 DEF Sights
<1>7. SightSound(t, Present)
  <2>1. SpheresSound(t, Present)
    BY <1>2, <1>4, <1>5 DEF SightSound, SpheresSound
  <2> QED
    BY <1>2, <1>4, <1>6, <2>1 DEF SightSound
<1>8. ASSUME NEW a \in Present, a \notin Range(recalculate) PROVE Settled(t, a)
  <2>1. a \in Entries /\ Settled(s, a)
    BY <1>1, <1>8 DEF VisibilityInv, RecordedQueued, Present
  <2> QED
    BY <1>4, <1>5, <2>1 DEF Settled
<1>9. RecordedQueued'
  BY <1>1, <1>2, <1>8 DEF RecordedQueued
<1> QED
  BY <1>1, <1>2, <1>7, <1>9 DEF VisibilityInv, RecalculateSound

\* The queue without the entry that is removed.
LEMMA ShiftedQueue ==
    ASSUME RecalculateSound, NEW e \in Entries, NEW r, r = Shifted(recalculate, e)
    PROVE  /\ r \in Seq(Entries)
           /\ \A i, j \in 1 .. Len(r) : r[i] = r[j] => i = j
           /\ Range(r) = Range(recalculate) \ {e}
<1>1. PICK q : q = recalculate
  OBVIOUS
<1>2. /\ q \in Seq(Entries) /\ Len(q) \in Nat /\ DOMAIN q = 1 .. Len(q)
      /\ \A i, j \in 1 .. Len(q) : q[i] = q[j] => i = j
  BY <1>1 DEF RecalculateSound
<1>3. CASE e \notin Range(q)
  BY <1>1, <1>2, <1>3 DEF Shifted
<1>4. CASE e \in Range(q)
  <2>1. PICK n : n = Len(q)
    OBVIOUS
  <2>2. PICK at \in 1 .. n : q[at] = e
    BY <1>2, <1>4, <2>1 DEF Range
  <2>3. r = [i \in 1 .. n - 1 |-> IF q[i] = e THEN q[n] ELSE q[i]]
    BY <1>1, <1>4, <2>1 DEF Shifted
  <2>4. n \in Nat /\ n - 1 \in Nat /\ n \in 1 .. n
    BY <1>2, <2>1, <2>2
  <2>5. \A i \in 1 .. n - 1 : i \in 1 .. n /\ r[i] = IF i = at THEN q[n] ELSE q[i]
    BY <1>2, <2>1, <2>2, <2>3, <2>4
  <2>6. r \in Seq(Entries) /\ Len(r) = n - 1 /\ DOMAIN r = 1 .. n - 1
    <3>1. \A i \in 1 .. n - 1 : r[i] \in Entries
      BY <1>2, <2>1, <2>4, <2>5
    <3>2. r = [i \in 1 .. n - 1 |-> r[i]]
      BY <2>3
    <3> QED
      BY <2>4, <3>1, <3>2
  <2>7. ASSUME NEW i \in 1 .. n - 1, NEW j \in 1 .. n - 1, r[i] = r[j] PROVE i = j
    <3>1. i # n /\ j # n
      BY <2>4
    <3>2. CASE i = at /\ j # at
      <4>1. q[n] = q[j]
        BY <2>5, <2>7, <3>2
      <4> QED
        BY <1>2, <2>1, <2>4, <2>5, <3>1, <4>1
    <3>3. CASE i # at /\ j = at
      <4>1. q[n] = q[i]
        BY <2>5, <2>7, <3>3
      <4> QED
        BY <1>2, <2>1, <2>4, <2>5, <3>1, <4>1
    <3>4. CASE i # at /\ j # at
      BY <1>2, <2>1, <2>5, <2>7, <3>4
    <3> QED
      BY <3>2, <3>3, <3>4
  <2>8. ASSUME NEW i \in 1 .. n - 1 PROVE r[i] \in Range(q) /\ r[i] # e
    <3>1. CASE i = at
      <4>1. r[i] = q[n] /\ n # at
        BY <2>4, <2>5, <3>1
      <4> QED
        BY <1>2, <2>1, <2>2, <2>4, <4>1 DEF Range
    <3>2. CASE i # at
      <4>1. r[i] = q[i] /\ i \in 1 .. n
        BY <2>5, <3>2
      <4> QED
        BY <1>2, <2>1, <2>2, <3>2, <4>1 DEF Range
    <3> QED
      BY <3>1, <3>2
  <2>9. ASSUME NEW i \in 1 .. n, q[i] # e PROVE \E j \in 1 .. n - 1 : r[j] = q[i]
    <3>1. CASE i = n
      <4>1. at \in 1 .. n - 1 /\ r[at] = q[n]
        BY <2>2, <2>4, <2>5, <2>9, <3>1
      <4> QED
        BY <3>1, <4>1
    <3>2. CASE i # n
      <4>1. i \in 1 .. n - 1 /\ i # at
        BY <2>2, <2>4, <2>9, <3>2
      <4> QED
        BY <2>5, <4>1
    <3> QED
      BY <3>1, <3>2
  <2>10. Range(r) = Range(q) \ {e}
    <3>1. \A x \in Range(r) : x \in Range(q) /\ x # e
      BY <2>6, <2>8 DEF Range
    <3>2. \A x \in Range(q) : x # e => x \in Range(r)
      BY <1>2, <2>1, <2>6, <2>9 DEF Range
    <3> QED
      BY <3>1, <3>2
  <2> QED
    BY <1>1, <2>6, <2>7, <2>10
<1> QED
  BY <1>3, <1>4

\* Both sides without the entry that is removed.
LEMMA UnlinkedMutual ==
    ASSUME NEW mine, NEW theirs, NEW stale, NEW there \in SUBSET Entries,
           Sides(mine, theirs, stale, there), NEW e \in there,
           NEW stale2, \A a \in Entries \ {e} : stale[a] \subseteq stale2[a],
           NEW mine2, mine2 = Unlinked(mine, e, theirs[e]),
           NEW theirs2, theirs2 = Unlinked(theirs, e, mine[e])
    PROVE  Sides(mine2, theirs2, stale2, there \ {e})
<1> USE DEF Sides
<1>1. /\ mine2 = [o \in Entries |-> mine2[o]] /\ theirs2 = [o \in Entries |-> theirs2[o]]
      /\ mine2[e] = {} /\ theirs2[e] = {}
  BY DEF Unlinked
<1>2. ASSUME NEW a \in Entries \ {e}, NEW b \in Entries
      PROVE  /\ b \in mine2[a] <=> b \in mine[a] /\ (b # e \/ a \notin theirs[e])
             /\ b \in theirs2[a] <=> b \in theirs[a] /\ (b # e \/ a \notin mine[e])
  <2>1. /\ mine2[a] = IF a \in theirs[e] THEN mine[a] \ {e} ELSE mine[a]
        /\ theirs2[a] = IF a \in mine[e] THEN theirs[a] \ {e} ELSE theirs[a]
    BY <1>2 DEF Unlinked
  <2>2. b \in mine2[a] <=> b \in mine[a] /\ (b # e \/ a \notin theirs[e])
    <3>1. CASE a \in theirs[e]
      BY <2>1, <3>1
    <3>2. CASE a \notin theirs[e]
      BY <2>1, <3>2
    <3> QED
      BY <3>1, <3>2
  <2>3. b \in theirs2[a] <=> b \in theirs[a] /\ (b # e \/ a \notin mine[e])
    <3>1. CASE a \in mine[e]
      BY <2>1, <3>1
    <3>2. CASE a \notin mine[e]
      BY <2>1, <3>2
    <3> QED
      BY <3>1, <3>2
  <2> QED
    BY <2>2, <2>3
<1>3. ASSUME NEW a \in Entries \ {e}, NEW b \in Entries \ {e}
      PROVE  (b \in mine2[a] <=> b \in mine[a]) /\ (b \in theirs2[a] <=> b \in theirs[a])
  BY <1>2
<1>4. mine2 \in [Entries -> SUBSET Entries] /\ theirs2 \in [Entries -> SUBSET Entries]
  <2>1. ASSUME NEW a \in Entries PROVE mine2[a] \in SUBSET Entries /\ theirs2[a] \in SUBSET Entries
    <3>1. mine2[a] \in {{}, mine[a], mine[a] \ {e}} /\ theirs2[a] \in {{}, theirs[a], theirs[a] \ {e}}
      BY DEF Unlinked
    <3>2. mine[a] \in SUBSET Entries /\ theirs[a] \in SUBSET Entries
      OBVIOUS
    <3> QED
      BY <3>1, <3>2
  <2> QED
    BY <1>1, <2>1
<1>5. ASSUME NEW a \in there \ {e}, NEW b \in there \ {e}, b \in mine2[a]
      PROVE  b \in stale2[a] \/ a \in theirs2[b]
  BY <1>3, <1>5
<1>6. ASSUME NEW a \in there \ {e}, NEW b \in there \ {e}, a \in theirs2[b]
      PROVE  a \in stale2[b] \/ b \in mine2[a]
  BY <1>3, <1>6
<1>7. ASSUME NEW a \in there \ {e}, NEW b \in Entries, b \in mine2[a] \/ b \in theirs2[a]
      PROVE  b \in there \ {e} \/ b \in stale2[a]
  <2>1. a \in Entries \ {e}
    OBVIOUS
  <2>2. CASE b # e
    BY <1>3, <1>7, <2>1, <2>2
  <2>3. CASE b = e /\ b \in mine2[a]
    <3>1. e \in mine[a] /\ a \notin theirs[e]
      BY <1>2, <2>1, <2>3
    <3> QED
      BY <2>1, <2>3, <3>1
  <2>4. CASE b = e /\ b \in theirs2[a]
    <3>1. e \in theirs[a] /\ a \notin mine[e]
      BY <1>2, <2>1, <2>4
    <3> QED
      BY <2>1, <2>4, <3>1
  <2> QED
    BY <1>7, <2>2, <2>3, <2>4
<1>8. ASSUME NEW a \in Entries \ (there \ {e}) PROVE mine2[a] = {} /\ theirs2[a] = {}
  <2>1. CASE a = e
    BY <1>1, <2>1
  <2>2. CASE a # e
    <3>1. mine[a] = {} /\ theirs[a] = {} /\ a \in Entries \ {e}
      BY <2>2
    <3>2. mine2[a] \subseteq Entries /\ theirs2[a] \subseteq Entries
      BY <1>4
    <3> QED
      BY <1>2, <3>1, <3>2
  <2> QED
    BY <2>1, <2>2
<1> QED
  BY <1>4, <1>5, <1>6, <1>7, <1>8

\* Whoever has the appearance of e recorded has it among what is stale.
Outdated(changes, e, stale, stale2) ==
    \A a \in Entries \ {e} : /\ stale[a] \subseteq stale2[a]
                             /\ changes[a][e] = "Add" => e \in stale2[a]

\* What is recorded when an entry is removed.
LEMMA RecordsOfRemoved ==
    ASSUME NEW changes, NEW stale, NEW there \in SUBSET Entries, RecordsSound(changes, stale, there),
           NEW e \in there, NEW stale2, Outdated(changes, e, stale, stale2),
           NEW c2, Except(c2, changes, e, Quiet)
    PROVE  RecordsSound(c2, stale2, there \ {e})
<1>1. /\ RecordsSound(c2, stale, there) /\ c2[e] = Quiet
      /\ \A a \in Entries \ {e} : c2[a] = changes[a]
  <2>1. RecordsSound(c2, stale, there)
    BY RecordsCleared
  <2> QED
    BY <2>1 DEF Except
<1>2. ASSUME NEW a \in there \ {e}, NEW b \in Entries, c2[a][b] = "Add"
      PROVE  b \in there \ {e} \/ b \in stale2[a]
  <2>1. a \in Entries \ {e} /\ changes[a][b] = "Add" /\ (b \in there \/ b \in stale[a])
    BY <1>1, <1>2 DEF RecordsSound
  <2>2. CASE b = e
    BY <2>1, <2>2 DEF Outdated
  <2>3. CASE b # e
    BY <2>1, <2>3 DEF Outdated
  <2> QED
    BY <2>2, <2>3
<1>3. \A a \in Entries \ (there \ {e}) : c2[a] = Quiet
  BY <1>1 DEF RecordsSound
<1> QED
  BY <1>1, <1>2, <1>3 DEF RecordsSound

LEMMA RemoveEntryKeeps ==
    ASSUME VisibilityInv, NEW e \in Entries, RemoveEntry(e) PROVE VisibilityInv'
<1>1. e \in Present /\ position' \in [Entries -> Places] /\ Present' = Present \ {e}
  BY DEF RemoveEntry, VisibilityInv, Places, Present
<1>2. recalculate' = Shifted(recalculate, e) /\ RecalculateSound
  BY DEF RemoveEntry, VisibilityInv
<1>3. /\ recalculate' \in Seq(Entries)
      /\ \A i, j \in 1 .. Len(recalculate') : recalculate'[i] = recalculate'[j] => i = j
      /\ Range(recalculate') = Range(recalculate) \ {e}
  BY <1>2, ShiftedQueue
<1>4. RecalculateSound'
  <2>1. ASSUME NEW i \in 1 .. Len(recalculate') PROVE recalculate'[i] \in Present \ {e}
    <3>1. recalculate'[i] \in Range(recalculate')
      BY <1>3 DEF Range
    <3>2. Range(recalculate) \subseteq Present
      BY <1>2 DEF RecalculateSound, Range
    <3> QED
      BY <1>3, <3>1, <3>2
  <2> QED
    BY <1>1, <1>3, <2>1 DEF RecalculateSound
<1>5. PICK s, t : s = sight /\ t = sight'
  OBVIOUS
<1>6. SightSound(s, Present) /\ s \in Sights /\ Present \in SUBSET Entries
  BY <1>5 DEF VisibilityInv, SightSound
<1>7. PICK mine, theirs : /\ mine = Unlinked(s.observed, e, s.observing[e])
                          /\ theirs = Unlinked(s.observing, e, s.observed[e])
  OBVIOUS
<1>8. PICK c1, c2 : /\ c1 = [s.observedChanges EXCEPT ![e] = Quiet]
                    /\ c2 = [s.observingChanges EXCEPT ![e] = Quiet]
  OBVIOUS
<1>9. PICK stale2 : stale2 = [o \in Entries |->
                                CASE o = e -> {}
                                  [] o # e /\ o \in Expecting(s, e) -> s.stale[o] \cup {e}
                                  [] OTHER -> s.stale[o]]
  OBVIOUS
<1>10. t = [s EXCEPT !.view = [s.view EXCEPT ![e] = {}], !.visible = [s.visible EXCEPT ![e] = {}],
                     !.observed = mine, !.observing = theirs,
                     !.observedChanges = c1, !.observingChanges = c2,
                     !.stale = stale2, !.switched = s.switched \ {e}]
  BY <1>5, <1>6, <1>7, <1>8, <1>9 DEF RemoveEntry, Sights
<1>11. /\ t.view = [s.view EXCEPT ![e] = {}] /\ t.visible = [s.visible EXCEPT ![e] = {}]
       /\ t.observed = mine /\ t.observing = theirs
       /\ t.observedChanges = c1 /\ t.observingChanges = c2
       /\ t.stale = stale2 /\ t.switched = s.switched \ {e}
  BY <1>6, <1>10 DEF Sights
<1>12. stale2 \in [Entries -> SUBSET Entries] /\ \A a \in Entries \ {e} : s.stale[a] \subseteq stale2[a]
  <2>1. ASSUME NEW a \in Entries \ {e} PROVE stale2[a] = s.stale[a] \/ stale2[a] = s.stale[a] \cup {e}
    BY <1>9, <2>1
  <2>2. stale2[e] = {}
    BY <1>9
  <2>3. \A a \in Entries : s.stale[a] \in SUBSET Entries
    BY <1>6 DEF Sights
  <2>4. \A a \in Entries : stale2[a] \in SUBSET Entries
    BY <2>1, <2>2, <2>3
  <2>5. stale2 = [a \in Entries |-> stale2[a]]
    BY <1>9
  <2> QED
    BY <2>1, <2>4, <2>5
<1>13. \A a \in Entries \ {e} :
         /\ s.observedChanges[a][e] = "Add" => e \in stale2[a]
         /\ s.observingChanges[a][e] = "Add" => e \in stale2[a]
  BY <1>9 DEF Expecting
<1>14. Sides(mine, theirs, stale2, Present \ {e})
  <2>1. Sides(s.observed, s.observing, s.stale, Present)
    BY <1>6 DEF SightSound
  <2> QED
    BY <1>1, <1>6, <1>7, <1>12, <2>1, UnlinkedMutual
<1>15. RecordsSound(c1, stale2, Present \ {e}) /\ \A a \in Entries \ {e} : c1[a] = s.observedChanges[a]
  <2>1. RecordsSound(s.observedChanges, s.stale, Present)
    BY <1>6 DEF SightSound
  <2>2. Except(c1, s.observedChanges, e, Quiet) /\ \A a \in Entries \ {e} : c1[a] = s.observedChanges[a]
    BY <1>6, <1>8 DEF Sights, Except
  <2>3. Outdated(s.observedChanges, e, s.stale, stale2)
    <3>1. ASSUME NEW a \in Entries \ {e} PROVE s.stale[a] \subseteq stale2[a]
      BY <1>12
    <3>2. ASSUME NEW a \in Entries \ {e}, s.observedChanges[a][e] = "Add" PROVE e \in stale2[a]
      BY <1>13, <3>2
    <3> QED
      BY <3>1, <3>2 DEF Outdated
  <2>4. RecordsSound(c1, stale2, Present \ {e})
    BY <1>1, <1>6, <2>1, <2>2, <2>3, RecordsOfRemoved
  <2> QED
    BY <2>2, <2>4
<1>16. RecordsSound(c2, stale2, Present \ {e}) /\ \A a \in Entries \ {e} : c2[a] = s.observingChanges[a]
  <2>1. RecordsSound(s.observingChanges, s.stale, Present)
    BY <1>6 DEF SightSound
  <2>2. Except(c2, s.observingChanges, e, Quiet) /\ \A a \in Entries \ {e} : c2[a] = s.observingChanges[a]
    BY <1>6, <1>8 DEF Sights, Except
  <2>3. Outdated(s.observingChanges, e, s.stale, stale2)
    <3>1. ASSUME NEW a \in Entries \ {e} PROVE s.stale[a] \subseteq stale2[a]
      BY <1>12
    <3>2. ASSUME NEW a \in Entries \ {e}, s.observingChanges[a][e] = "Add" PROVE e \in stale2[a]
      BY <1>13, <3>2
    <3> QED
      BY <3>1, <3>2 DEF Outdated
  <2>4. RecordsSound(c2, stale2, Present \ {e})
    BY <1>1, <1>6, <2>1, <2>2, <2>3, RecordsOfRemoved
  <2> QED
    BY <2>2, <2>4
<1>17. /\ t.view \in [Entries -> SUBSET Cells] /\ t.visible \in [Entries -> SUBSET Cells]
       /\ t.view[e] = {} /\ t.visible[e] = {}
       /\ \A a \in Entries \ {e} : t.view[a] = s.view[a] /\ t.visible[a] = s.visible[a]
  BY <1>6, <1>11 DEF Sights
<1>18. t \in Sights
  <2>1. t = [view |-> t.view, visible |-> t.visible, observed |-> t.observed, observing |-> t.observing,
             observedChanges |-> t.observedChanges, observingChanges |-> t.observingChanges,
             stale |-> t.stale, switched |-> t.switched]
    BY <1>6, <1>10 DEF Sights
  <2>2. c1 \in [Entries -> Record] /\ c2 \in [Entries -> Record] /\ s.switched \ {e} \in SUBSET Entries
    BY <1>6, <1>15, <1>16 DEF RecordsSound, Sights
  <2>3. mine \in [Entries -> SUBSET Entries] /\ theirs \in [Entries -> SUBSET Entries]
    BY <1>14 DEF Sides
  <2> QED
    BY <1>11, <1>12, <1>17, <2>1, <2>2, <2>3 DEF Sights
<1>19. SpheresSound(t, Present \ {e})
  BY <1>6, <1>17 DEF SightSound, SpheresSound
<1>20. SightSound(t, Present \ {e})
  BY <1>6, <1>11, <1>14, <1>15, <1>16, <1>18, <1>19 DEF SightSound
<1>21. ASSUME NEW a \in Present \ {e}, a \notin Range(recalculate') PROVE Settled(t, a)
  <2>1. a \in Entries \ {e} /\ Settled(s, a)
    BY <1>3, <1>5, <1>21 DEF VisibilityInv, RecordedQueued, Present
  <2>2. SameRecords(t, s, a)
    BY <1>11, <1>15, <1>16, <1>17, <2>1 DEF SameRecords
  <2> QED
    BY <2>1, <2>2, SettledStays
<1>22. RecordedQueued'
  BY <1>1, <1>5, <1>21 DEF RecordedQueued
<1> QED
  BY <1>1, <1>4, <1>5, <1>20, <1>22 DEF VisibilityInv

LEMMA VisibilityInvSuffices == VisibilityInv => MutualSight
<1> SUFFICES ASSUME VisibilityInv PROVE MutualSight
  OBVIOUS
<1>1. SightSound(sight, Present) /\ RecordedQueued
  BY DEF VisibilityInv
<1>2. Sides(sight.observed, sight.observing, sight.stale, Present)
  BY <1>1 DEF SightSound
<1>3. \A a, b \in Present :
        /\ b \in sight.observed[a] \ sight.stale[a] => a \in sight.observing[b]
        /\ a \in sight.observing[b] \ sight.stale[b] => b \in sight.observed[a]
  BY <1>2 DEF Sides
<1>4. ASSUME NEW a \in Present
      PROVE  sight.observed[a] \cup sight.observing[a] \subseteq Present \cup sight.stale[a]
  <2>1. a \in Entries /\ sight.observed[a] \subseteq Entries /\ sight.observing[a] \subseteq Entries
    BY <1>2 DEF Sides, Present
  <2> QED
    BY <1>2, <2>1 DEF Sides
<1>5. \A a \in Present \ Range(recalculate) :
        /\ sight.view[a] # {} => sight.observedChanges[a] = Quiet
        /\ a \notin sight.switched => sight.observingChanges[a] = Quiet
  BY <1>1 DEF RecordedQueued, Settled
<1> QED
  BY <1>3, <1>4, <1>5 DEF MutualSight

\* However the entries of a physical domain come, move, change and go, and whenever what
\* the collision library reported about their spheres is applied: what an entry observes
\* and who observes it agree, so that removeEntity() finds everything that refers to the
\* entry it frees, except through an appearance that was recorded and not applied yet; and
\* every report that was not applied yet is with an entry of the queue, except those that
\* switching perception on records.
THEOREM SightAlwaysMutual == VisibilitySpec => []MutualSight
<1>1. VisibilityInit => VisibilityInv
  <2> SUFFICES ASSUME VisibilityInit PROVE VisibilityInv
    OBVIOUS
  <2>1. position \in [Entries -> Places] /\ Present = {}
    BY DEF VisibilityInit, Places, Present
  <2>2. RecalculateSound
    BY DEF VisibilityInit, RecalculateSound
  <2>3. Quiet \in Record
    BY DEF Quiet, Record
  <2>4. sight \in Sights
    BY <2>3 DEF VisibilityInit, Sights
  <2>5. /\ sight.view = [a \in Entries |-> {}] /\ sight.visible = [a \in Entries |-> {}]
        /\ sight.observed = [a \in Entries |-> {}] /\ sight.observing = [a \in Entries |-> {}]
        /\ sight.observedChanges = [a \in Entries |-> Quiet]
        /\ sight.observingChanges = [a \in Entries |-> Quiet]
    BY DEF VisibilityInit
  <2>6. Sides(sight.observed, sight.observing, sight.stale, Present)
    BY <2>1, <2>5 DEF Sides
  <2>7. /\ RecordsSound(sight.observedChanges, sight.stale, Present)
        /\ RecordsSound(sight.observingChanges, sight.stale, Present)
    BY <2>1, <2>3, <2>5 DEF RecordsSound
  <2>8. SpheresSound(sight, Present)
    BY <2>1, <2>5 DEF SpheresSound
  <2>9. SightSound(sight, Present)
    BY <2>1, <2>4, <2>6, <2>7, <2>8 DEF SightSound
  <2> QED
    BY <2>1, <2>2, <2>9 DEF VisibilityInv, RecordedQueued
<1>2. VisibilityInv /\ [VisibilityNext]_visibilityVars => VisibilityInv'
  <2> SUFFICES ASSUME VisibilityInv, [VisibilityNext]_visibilityVars PROVE VisibilityInv'
    OBVIOUS
  <2>1. CASE UNCHANGED visibilityVars
    <3>1. position' = position /\ sight' = sight /\ recalculate' = recalculate /\ Present' = Present
      BY <2>1 DEF visibilityVars, Present
    <3> QED
      BY <3>1 DEF VisibilityInv, RecalculateSound, RecordedQueued
  <2>2. CASE VisibilityNext
    BY <2>2, UpdateDirtyKeeps, RemoveEntryKeeps, AddEntryKeeps, SimulatedKeeps, ApplyNewPositionKeeps,
       ResizedKeeps, PerceptionOnKeeps, PerceptionOffKeeps
    DEF VisibilityNext
  <2> QED
    BY <2>1, <2>2
<1> QED
  BY <1>1, <1>2, VisibilityInvSuffices, PTL DEF VisibilitySpec


-----------------------------------------------------------------------------
(* Stacks *)

\* t[n] is the sum of f over the first n stacks.
Totals(t, f, k) == t = [n \in 0 .. k |-> IF n = 0 THEN 0 ELSE t[n - 1] + f[n]]

LEMMA TotalsExist ==
    ASSUME NEW f, NEW n \in Nat PROVE \E t : Totals(t, f, n)
<1> DEFINE Bad == {k \in Nat : ~ \E t : Totals(t, f, k)}
<1> SUFFICES ASSUME Bad # {} PROVE FALSE
  OBVIOUS
<1>1. PICK k \in Bad : \A j \in Bad : k <= j
  <2>1. Bad \subseteq Nat
    OBVIOUS
  <2> HIDE DEF Bad
  <2> QED
    BY <2>1, LeastNumber
<1>2. k \in Nat /\ ~ \E t : Totals(t, f, k)
  BY <1>1
<1>3. k # 0
  <2>1. PICK g : g = [i \in 0 .. 0 |-> 0]
    OBVIOUS
  <2>2. g = [i \in 0 .. 0 |-> IF i = 0 THEN 0 ELSE g[i - 1] + f[i]]
    BY <2>1
  <2> QED
    BY <1>2, <2>2 DEF Totals
<1>4. PICK j \in Nat : k = j + 1
  BY <1>2, <1>3
<1>5. PICK t : Totals(t, f, j)
  BY <1>1, <1>2, <1>4
<1>6. PICK g : g = [i \in 0 .. (j + 1) |-> IF i = 0 THEN 0 ELSE t[i - 1] + f[i]]
  OBVIOUS
<1>7. ASSUME NEW i \in 0 .. j PROVE g[i] = t[i]
  <2>1. t[i] = IF i = 0 THEN 0 ELSE t[i - 1] + f[i]
    BY <1>5 DEF Totals
  <2>2. i \in 0 .. (j + 1)
    BY <1>4
  <2> QED
    BY <1>6, <2>1, <2>2
<1>8. g = [i \in 0 .. (j + 1) |-> IF i = 0 THEN 0 ELSE g[i - 1] + f[i]]
  <2>1. ASSUME NEW i \in 0 .. (j + 1), i # 0 PROVE g[i - 1] = t[i - 1]
    <3>1. i - 1 \in 0 .. j
      BY <1>4, <2>1
    <3> QED
      BY <1>7, <3>1
  <2> QED
    BY <1>6, <2>1
<1> QED
  BY <1>2, <1>4, <1>8 DEF Totals

LEMMA TotalIs ==
    ASSUME NEW f PROVE \E t : Totals(t, f, NumStacks) /\ Total(f) = t[NumStacks]
<1>1. PICK g : g = CHOOSE t : t = [n \in 0 .. NumStacks |-> IF n = 0 THEN 0 ELSE t[n - 1] + f[n]]
  OBVIOUS
<1>2. Totals(g, f, NumStacks)
  BY <1>1, TotalsExist, StacksAssumption DEF Totals
<1>3. Total(f) = g[NumStacks]
  BY <1>1 DEF Total
<1> QED
  BY <1>2, <1>3

\* The steps of the sum.
LEMMA TotalSteps ==
    ASSUME NEW t, NEW f, Totals(t, f, NumStacks)
    PROVE  /\ t[0] = 0
           /\ \A n \in 0 .. NumStacks : n # 0 => t[n] = t[n - 1] + f[n]
<1>1. \A n \in 0 .. NumStacks : t[n] = IF n = 0 THEN 0 ELSE t[n - 1] + f[n]
  BY DEF Totals
<1>2. 0 \in 0 .. NumStacks
  BY StacksAssumption
<1> QED
  BY <1>1, <1>2

Amounts == [Stacks -> Nat]

\* One stack changes: the sum changes by as much.
LEMMA TotalChanges ==
    ASSUME NEW f \in Amounts, NEW g \in Amounts, NEW s \in Stacks, \A x \in Stacks \ {s} : g[x] = f[x]
    PROVE  Total(f) \in Int /\ Total(g) = Total(f) + (g[s] - f[s])
<1>1. PICK t : Totals(t, f, NumStacks) /\ Total(f) = t[NumStacks]
  BY TotalIs
<1>2. PICK u : Totals(u, g, NumStacks) /\ Total(g) = u[NumStacks]
  BY TotalIs
<1>3. NumStacks \in Nat
  BY StacksAssumption
<1> DEFINE Differ(n) == /\ t[n] \in Int
                        /\ s <= n => u[n] = t[n] + (g[s] - f[s])
                        /\ n < s => u[n] = t[n]
           Bad == {k \in Nat : k \in 0 .. NumStacks /\ ~ Differ(k)}
<1>4. Bad = {}
  <2> SUFFICES ASSUME Bad # {} PROVE FALSE
    OBVIOUS
  <2>1. PICK k \in Bad : \A j \in Bad : k <= j
    <3>1. Bad \subseteq Nat
      OBVIOUS
    <3> HIDE DEF Bad
    <3> QED
      BY <3>1, LeastNumber
  <2>2. k \in Nat /\ k \in 0 .. NumStacks /\ ~ Differ(k)
    BY <2>1
  <2>3. k # 0
    <3>1. t[0] = 0 /\ u[0] = 0
      BY <1>1, <1>2, TotalSteps
    <3> QED
      BY <2>2, <3>1 DEF Stacks
  <2>4. PICK j \in Nat : k = j + 1 /\ j \in 0 .. NumStacks
    BY <1>3, <2>2, <2>3
  <2>5. Differ(j)
    BY <2>1, <2>4
  <2>6. t[k] = t[j] + f[k] /\ u[k] = u[j] + g[k]
    <3>1. k - 1 = j
      BY <2>4
    <3>2. t[k] = t[k - 1] + f[k] /\ u[k] = u[k - 1] + g[k]
      BY <1>1, <1>2, <2>2, <2>3, TotalSteps
    <3> QED
      BY <3>1, <3>2
  <2>7. k \in Stacks /\ s \in Stacks /\ s \in Nat
    BY <1>3, <2>2, <2>3 DEF Stacks
  <2>8. f[k] \in Nat /\ g[k] \in Nat /\ f[s] \in Nat /\ g[s] \in Nat /\ (k # s => g[k] = f[k])
    BY <2>7 DEF Amounts
  <2>9. CASE k < s
    BY <2>2, <2>4, <2>5, <2>6, <2>7, <2>8, <2>9
  <2>10. CASE k = s
    BY <2>2, <2>4, <2>5, <2>6, <2>7, <2>8, <2>10
  <2>11. CASE k > s
    BY <2>2, <2>4, <2>5, <2>6, <2>7, <2>8, <2>11
  <2> QED
    BY <2>2, <2>7, <2>9, <2>10, <2>11
<1>5. Differ(NumStacks)
  BY <1>3, <1>4
<1>6. s <= NumStacks
  BY <1>3 DEF Stacks
<1> QED
  BY <1>1, <1>2, <1>5, <1>6

\* Two stacks change.
LEMMA TotalMoves ==
    ASSUME NEW f \in Amounts, NEW g \in Amounts, NEW s \in Stacks, NEW r \in Stacks, s # r,
           \A x \in Stacks \ {s, r} : g[x] = f[x]
    PROVE  Total(f) \in Int /\ Total(g) = Total(f) + (g[s] - f[s]) + (g[r] - f[r])
<1>1. PICK h : h = [x \in Stacks |-> IF x = s THEN g[x] ELSE f[x]]
  OBVIOUS
<1>2. /\ h \in Amounts /\ h[s] = g[s] /\ h[r] = f[r]
      /\ \A x \in Stacks \ {s} : h[x] = f[x]
      /\ \A x \in Stacks \ {r} : g[x] = h[x]
  BY <1>1 DEF Amounts
<1>3. Total(f) \in Int /\ Total(h) = Total(f) + (h[s] - f[s])
  BY <1>2, TotalChanges
<1>4. Total(h) \in Int /\ Total(g) = Total(h) + (g[r] - h[r])
  BY <1>2, TotalChanges
<1>5. f[s] \in Nat /\ g[s] \in Nat /\ f[r] \in Nat /\ g[r] \in Nat
  BY DEF Amounts
<1> QED
  BY <1>2, <1>3, <1>4, <1>5

LEMMA TotalOfNone == Total([s \in Stacks |-> 0]) = 0
<1>1. PICK f : f = [s \in Stacks |-> 0]
  OBVIOUS
<1>2. PICK t : Totals(t, f, NumStacks) /\ Total(f) = t[NumStacks]
  BY TotalIs
<1>3. NumStacks \in Nat
  BY StacksAssumption
<1> DEFINE Bad == {k \in Nat : k \in 0 .. NumStacks /\ t[k] # 0}
<1>4. Bad = {}
  <2> SUFFICES ASSUME Bad # {} PROVE FALSE
    OBVIOUS
  <2>1. PICK k \in Bad : \A j \in Bad : k <= j
    <3>1. Bad \subseteq Nat
      OBVIOUS
    <3> HIDE DEF Bad
    <3> QED
      BY <3>1, LeastNumber
  <2>2. k \in Nat /\ k \in 0 .. NumStacks /\ t[k] # 0
    BY <2>1
  <2>3. k # 0
    BY <1>2, <2>2, TotalSteps
  <2>4. PICK j \in Nat : k = j + 1 /\ j \in 0 .. NumStacks
    BY <1>3, <2>2, <2>3
  <2>5. t[j] = 0
    BY <2>1, <2>4
  <2>6. t[k] = t[j] + f[k]
    <3>1. k - 1 = j
      BY <2>4
    <3>2. t[k] = t[k - 1] + f[k]
      BY <1>2, <2>2, <2>3, TotalSteps
    <3> QED
      BY <3>1, <3>2
  <2>7. f[k] = 0
    BY <1>1, <2>2, <2>3 DEF Stacks
  <2> QED
    BY <2>2, <2>5, <2>6, <2>7
<1> QED
  BY <1>1, <1>2, <1>3, <1>4

StackPlaces == [Stacks -> Stores \cup {Void} \cup Stacks]

\* What is not there is nowhere, and no store has two stacks of the same things.
Stowed(a, p) ==
    /\ a \in Amounts /\ p \in StackPlaces
    /\ \A s \in Stacks : a[s] = 0 => p[s] = Void
    /\ \A s, t \in Stacks : s # t /\ a[s] > 0 /\ a[t] > 0 /\ p[s] \in Stores /\ Kind[s] = Kind[t] => p[s] # p[t]

StacksInv ==
    /\ Stowed(amount, place)
    /\ created \in Nat /\ removed \in Int
    /\ Total(amount) = created - removed

\* One stack is added to another.
LEMMA StackedKeeps ==
    ASSUME NEW a, NEW p, Stowed(a, p), NEW s \in Stacks, NEW t \in Stacks, s # t, a[s] > 0, a[t] > 0,
           NEW st, st = Stacked([amount |-> a, place |-> p], s, t)
    PROVE  Stowed(st.amount, st.place) /\ Total(st.amount) = Total(a)
<1>1. PICK b, q : b = [a EXCEPT ![t] = a[t] + a[s], ![s] = 0] /\ q = [p EXCEPT ![s] = Void]
  OBVIOUS
<1>2. st.amount = b /\ st.place = q
  BY <1>1 DEF Stacked
<1>3. a \in Amounts /\ p \in StackPlaces
  BY DEF Stowed
<1>4. a[s] \in Nat /\ a[t] \in Nat
  BY <1>3 DEF Amounts
<1>5. /\ b \in Amounts /\ q \in StackPlaces /\ b[s] = 0 /\ b[t] = a[t] + a[s] /\ q[s] = Void
      /\ \A x \in Stacks \ {s, t} : b[x] = a[x]
      /\ \A x \in Stacks \ {s} : q[x] = p[x]
  BY <1>1, <1>3, <1>4 DEF Amounts, StackPlaces
<1>6. Total(b) = Total(a)
  <2>1. Total(a) \in Int /\ Total(b) = Total(a) + (b[s] - a[s]) + (b[t] - a[t])
    BY <1>3, <1>5, TotalMoves
  <2> QED
    BY <1>4, <1>5, <2>1
<1>7. \A x \in Stacks : (b[x] = 0 => x = s) \/ (b[x] = a[x] /\ x # s)
  BY <1>4, <1>5
<1>8. \A x \in Stacks : b[x] > 0 => x # s /\ a[x] > 0
  BY <1>4, <1>5
<1>9. Stowed(b, q)
  <2>1. \A x \in Stacks : b[x] = 0 => q[x] = Void
    BY <1>5, <1>7 DEF Stowed
  <2>2. \A x, y \in Stacks :
           x # y /\ b[x] > 0 /\ b[y] > 0 /\ q[x] \in Stores /\ Kind[x] = Kind[y] => q[x] # q[y]
    BY <1>5, <1>8 DEF Stowed
  <2> QED
    BY <1>5, <2>1, <2>2 DEF Stowed
<1> QED
  BY <1>2, <1>6, <1>9

LEMMA ArrivesKeeps ==
    ASSUME NEW a, NEW p, Stowed(a, p), NEW s \in Stacks, a[s] > 0,
           NEW at \in Stores \cup {Void} \cup Stacks, at \in Stacks => at # s /\ a[at] > 0,
           NEW st \in Arrives([amount |-> a, place |-> p], s, at)
    PROVE  Stowed(st.amount, st.place) /\ Total(st.amount) = Total(a)
<1>1. PICK now : now = [amount |-> a, place |-> p]
  OBVIOUS
<1>2. st \in Arrives(now, s, at) /\ now.amount = a /\ now.place = p
  BY <1>1
<1>4. CASE Merging(now, s, at) # {}
  <2>1. PICK t \in Merging(now, s, at) : st = Stacked(now, s, t)
    BY <1>2, <1>4 DEF Arrives
  <2>2. t \in Stacks /\ t # s /\ a[t] > 0
    BY <1>2, <2>1 DEF Merging, Equals
  <2> QED
    BY <1>1, <2>1, <2>2, StackedKeeps
<1>5. CASE Merging(now, s, at) = {}
  <2>1. st = [now EXCEPT !.place[s] = at]
    BY <1>2, <1>5 DEF Arrives
  <2>2. PICK q : q = [p EXCEPT ![s] = at]
    OBVIOUS
  <2>3. st.amount = a /\ st.place = q
    BY <1>1, <2>1, <2>2
  <2>4. a \in Amounts /\ p \in StackPlaces
    BY DEF Stowed
  <2>5. q \in StackPlaces /\ q[s] = at /\ \A x \in Stacks \ {s} : q[x] = p[x]
    BY <1>5, <2>2, <2>4 DEF StackPlaces
  <2>6. \A t \in Stacks : t # s /\ at \in Stores /\ a[t] > 0 /\ p[t] = at => Kind[t] # Kind[s]
    BY <1>2, <1>5, StacksAssumption DEF Merging, Equals
  <2>7. \A x \in Stacks : a[x] = 0 => q[x] = Void
    BY <2>5 DEF Stowed
  <2>8. ASSUME NEW x \in Stacks, NEW y \in Stacks, x # y, a[x] > 0, a[y] > 0, q[x] \in Stores, Kind[x] = Kind[y]
        PROVE  q[x] # q[y]
    <3>1. CASE x = s
      BY <2>5, <2>6, <2>8, <3>1
    <3>2. CASE y = s
      BY <2>5, <2>6, <2>8, <3>2
    <3>3. CASE x # s /\ y # s
      BY <2>5, <2>8, <3>3 DEF Stowed
    <3> QED
      BY <3>1, <3>2, <3>3
  <2> QED
    BY <2>3, <2>4, <2>5, <2>7, <2>8 DEF Stowed
<1> QED
  BY <1>4, <1>5

\* A stack that is not there gets an amount, in the void.
LEMMA NewStack ==
    ASSUME NEW a, NEW p, Stowed(a, p), NEW s \in Stacks, a[s] = 0,
           NEW b \in Amounts, b[s] > 0, \A x \in Stacks \ {s} : b[x] = a[x]
    PROVE  Stowed(b, p)
<1>1. p \in StackPlaces /\ p[s] = Void /\ Void \notin Stores
  BY StacksAssumption DEF Stowed
<1>2. \A x \in Stacks : b[x] = 0 => p[x] = Void
  BY <1>1 DEF Stowed
<1>3. ASSUME NEW x \in Stacks, NEW y \in Stacks, x # y, b[x] > 0, b[y] > 0, p[x] \in Stores, Kind[x] = Kind[y]
      PROVE  p[x] # p[y]
  <2>1. x # s
    BY <1>1, <1>3
  <2>2. CASE y = s
    BY <1>1, <1>3, <2>2
  <2>3. CASE y # s
    BY <1>3, <2>1, <2>3 DEF Stowed
  <2> QED
    BY <2>2, <2>3
<1> QED
  BY <1>1, <1>2, <1>3 DEF Stowed

\* A stack gets smaller, or goes.
LEMMA LessStack ==
    ASSUME NEW a, NEW p, Stowed(a, p), NEW s \in Stacks, a[s] > 0,
           NEW b \in Amounts, \A x \in Stacks \ {s} : b[x] = a[x],
           NEW q \in StackPlaces, \A x \in Stacks \ {s} : q[x] = p[x],
           b[s] = 0 => q[s] = Void, b[s] # 0 => q[s] = p[s]
    PROVE  Stowed(b, q)
<1>1. \A x \in Stacks : b[x] > 0 => a[x] > 0 /\ q[x] = p[x]
  BY DEF Amounts
<1>2. \A x \in Stacks : b[x] = 0 => q[x] = Void
  BY DEF Stowed
<1>3. \A x, y \in Stacks :
         x # y /\ b[x] > 0 /\ b[y] > 0 /\ q[x] \in Stores /\ Kind[x] = Kind[y] => q[x] # q[y]
  BY <1>1 DEF Stowed
<1> QED
  BY <1>2, <1>3 DEF Stowed

LEMMA CreateStackKeeps ==
    ASSUME StacksInv, NEW s \in Stacks, NEW n \in 1 .. MaxAmount, NEW at \in Stores \cup {Void}, CreateStack(s, n, at)
    PROVE  StacksInv'
<1>1. PICK b : b = [amount EXCEPT ![s] = n]
  OBVIOUS
<1>2. /\ Stowed(amount, place) /\ created \in Nat /\ removed \in Int /\ Total(amount) = created - removed
      /\ amount \in Amounts
  BY DEF StacksInv, Stowed
<1>3. /\ n \in Nat /\ n > 0 /\ amount[s] = 0
      /\ created' = created + n /\ removed' = removed
      /\ \E st \in Arrives([StacksNow EXCEPT !.amount[s] = n], s, at) : StacksBecome(st)
  BY <1>2, StacksAssumption DEF CreateStack, StackExists, Amounts
<1>4. [StacksNow EXCEPT !.amount[s] = n] = [amount |-> b, place |-> place]
  BY <1>1 DEF StacksNow
<1>5. PICK st \in Arrives([amount |-> b, place |-> place], s, at) : amount' = st.amount /\ place' = st.place
  BY <1>3, <1>4 DEF StacksBecome
<1>6. Stowed(b, place) /\ b[s] = n /\ \A x \in Stacks \ {s} : b[x] = amount[x]
  <2>1. b \in Amounts /\ b[s] = n /\ \A x \in Stacks \ {s} : b[x] = amount[x]
    BY <1>1, <1>2, <1>3 DEF Amounts
  <2> QED
    BY <1>2, <1>3, <2>1, NewStack
<1>7. at \notin Stacks
  BY StacksAssumption
<1>8. Stowed(st.amount, st.place) /\ Total(st.amount) = Total(b)
  BY <1>3, <1>5, <1>6, <1>7, ArrivesKeeps
<1>9. Total(b) = Total(amount) + (b[s] - amount[s])
  BY <1>2, <1>6, TotalChanges DEF Stowed
<1> QED
  BY <1>2, <1>3, <1>5, <1>6, <1>8, <1>9 DEF StacksInv

LEMMA MoveAllKeeps ==
    ASSUME StacksInv, NEW s \in Stacks, NEW n \in 1 .. MaxAmount, NEW at \in Stores \cup {Void} \cup Stacks,
           MoveAll(s, n, at)
    PROVE  StacksInv'
<1>1. /\ amount[s] > 0 /\ (at \in Stacks => at # s /\ amount[at] > 0)
      /\ created' = created /\ removed' = removed
      /\ \E st \in Arrives(StacksNow, s, at) : StacksBecome(st)
  BY DEF MoveAll, StackExists, Target, StacksNow
<1>2. PICK st \in Arrives([amount |-> amount, place |-> place], s, at) : amount' = st.amount /\ place' = st.place
  BY <1>1 DEF StacksBecome, StacksNow
<1>3. Stowed(st.amount, st.place) /\ Total(st.amount) = Total(amount)
  BY <1>1, <1>2, ArrivesKeeps DEF StacksInv
<1> QED
  BY <1>1, <1>2, <1>3 DEF StacksInv

LEMMA MoveSomeKeeps ==
    ASSUME StacksInv, NEW s \in Stacks, NEW t \in Stacks, NEW n \in 1 .. MaxAmount,
           NEW at \in Stores \cup {Void} \cup Stacks, MoveSome(s, t, n, at)
    PROVE  StacksInv'
<1>1. /\ Stowed(amount, place) /\ created \in Nat /\ removed \in Int /\ Total(amount) = created - removed
      /\ amount \in Amounts
  BY DEF StacksInv, Stowed
<1>2. /\ amount[s] > 0 /\ amount[t] = 0 /\ n < amount[s] /\ n \in Nat /\ n > 0 /\ s # t
      /\ amount[s] \in Nat
      /\ created' = created /\ removed' = removed
  BY <1>1, StacksAssumption DEF MoveSome, StackExists, Amounts
<1>3. PICK split : split = Split(s, t, n)
  OBVIOUS
<1>4. PICK b, c : b = [amount EXCEPT ![t] = n] /\ c = [b EXCEPT ![s] = amount[s] - n]
  OBVIOUS
<1>5. Stowed(b, place) /\ b[t] = n /\ \A x \in Stacks \ {t} : b[x] = amount[x]
  <2>1. b \in Amounts /\ b[t] = n /\ \A x \in Stacks \ {t} : b[x] = amount[x]
    BY <1>1, <1>2, <1>4 DEF Amounts
  <2> QED
    BY <1>1, <1>2, <2>1, NewStack
<1>6. PICK k \in Nat : k = amount[s] - n /\ k # 0 /\ k <= b[s] /\ b[s] > 0
  BY <1>2, <1>5
<1>7. Stowed(c, place) /\ c[s] = k /\ \A x \in Stacks \ {s} : c[x] = b[x]
  <2>1. c \in Amounts /\ c[s] = k /\ \A x \in Stacks \ {s} : c[x] = b[x]
    BY <1>4, <1>5, <1>6 DEF Amounts, Stowed
  <2> QED
    BY <1>5, <1>6, <2>1, LessStack DEF Stowed
<1>8. split = [amount |-> c, place |-> place]
  BY <1>2, <1>3, <1>4 DEF Split, StacksNow
<1>9. Total(c) = Total(amount)
  <2>1. Total(amount) \in Int /\ Total(c) = Total(amount) + (c[s] - amount[s]) + (c[t] - amount[t])
    BY <1>1, <1>2, <1>5, <1>7, TotalMoves DEF Stowed
  <2> QED
    BY <1>2, <1>5, <1>6, <1>7, <2>1
<1>10. PICK st : /\ amount' = st.amount /\ place' = st.place
                 /\ st = split \/ (st \in Arrives(split, t, at) /\ Target(split, t, at))
  BY <1>3 DEF MoveSome, StacksBecome
<1>11. Stowed(st.amount, st.place) /\ Total(st.amount) = Total(amount)
  <2>1. CASE st = split
    BY <1>7, <1>8, <1>9, <2>1
  <2>2. CASE st \in Arrives(split, t, at) /\ Target(split, t, at)
    <3>1. at \in Stacks => at # t /\ c[at] > 0
      BY <1>8, <2>2 DEF Target
    <3>2. c[t] > 0
      BY <1>2, <1>5, <1>7
    <3> QED
      BY <1>7, <1>8, <1>9, <2>2, <3>1, <3>2, ArrivesKeeps
  <2> QED
    BY <1>10, <2>1, <2>2
<1> QED
  BY <1>1, <1>2, <1>10, <1>11 DEF StacksInv

LEMMA DeleteSomeKeeps ==
    ASSUME StacksInv, NEW s \in Stacks, NEW n \in 0 .. MaxAmount, DeleteSome(s, n)
    PROVE  StacksInv'
<1>1. /\ Stowed(amount, place) /\ created \in Nat /\ removed \in Int /\ Total(amount) = created - removed
      /\ amount \in Amounts
  BY DEF StacksInv, Stowed
<1>2. amount[s] > 0 /\ amount[s] \in Nat /\ n \in Nat /\ created' = created
  BY <1>1, StacksAssumption DEF DeleteSome, StackExists, Amounts
<1>3. PICK k \in Nat : k = IF amount[s] - n > 0 THEN amount[s] - n ELSE 0
  BY <1>2
<1>4. /\ amount' = [amount EXCEPT ![s] = k] /\ removed' = removed + (amount[s] - k)
      /\ place' = IF k = 0 THEN [place EXCEPT ![s] = Void] ELSE place
      /\ k <= amount[s]
  <2>1. CASE amount[s] - n > 0
    BY <1>1, <1>2, <1>3, <2>1 DEF DeleteSome
  <2>2. CASE ~(amount[s] - n > 0)
    BY <1>1, <1>2, <1>3, <2>2 DEF DeleteSome, StacksBecome, StacksNow
  <2> QED
    BY <2>1, <2>2
<1>5. Stowed(amount', place') /\ amount'[s] = k /\ \A x \in Stacks \ {s} : amount'[x] = amount[x]
  <2>1. amount' \in Amounts /\ amount'[s] = k /\ \A x \in Stacks \ {s} : amount'[x] = amount[x]
    BY <1>1, <1>4 DEF Amounts
  <2>2. /\ place' \in StackPlaces /\ \A x \in Stacks \ {s} : place'[x] = place[x]
        /\ k = 0 => place'[s] = Void
        /\ k # 0 => place'[s] = place[s]
    BY <1>1, <1>4 DEF StackPlaces, Stowed
  <2> QED
    BY <1>1, <1>2, <2>1, <2>2, LessStack
<1>6. Total(amount') = Total(amount) + (amount'[s] - amount[s])
  BY <1>1, <1>5, TotalChanges DEF Stowed
<1> QED
  BY <1>1, <1>2, <1>4, <1>5, <1>6 DEF StacksInv

\* Nothing is made or lost by splitting, stacking and moving, and no store has two
\* stacks of the same things, for any number of stacks, kinds and stores
\* (StackableDomain.cpp; AmountProperty.cpp).
THEOREM StacksAlwaysConserved == StacksSpec => []StacksConserved
<1>1. StacksInit => StacksInv
  <2> SUFFICES ASSUME StacksInit PROVE StacksInv
    OBVIOUS
  <2>1. Stowed(amount, place)
    BY StacksAssumption DEF StacksInit, Stowed, Amounts, StackPlaces
  <2>2. Total(amount) = 0 /\ created = 0 /\ removed = 0
    BY TotalOfNone DEF StacksInit
  <2> QED
    BY <2>1, <2>2 DEF StacksInv
<1>2. StacksInv /\ [StacksNext]_stacksVars => StacksInv'
  <2> SUFFICES ASSUME StacksInv, [StacksNext]_stacksVars PROVE StacksInv'
    OBVIOUS
  <2>1. CASE UNCHANGED stacksVars
    BY <2>1 DEF stacksVars, StacksInv
  <2>2. CASE StacksNext
    BY <2>2, CreateStackKeeps, MoveAllKeeps, MoveSomeKeeps, DeleteSomeKeeps DEF StacksNext
  <2> QED
    BY <2>1, <2>2
<1>3. StacksInv => StacksConserved
  <2> SUFFICES ASSUME StacksInv PROVE StacksConserved
    OBVIOUS
  <2>1. \A s, t \in Stacks :
           (s # t /\ StackExists(s) /\ StackExists(t) /\ place[s] \in Stores /\ Kind[s] = Kind[t])
               => place[s] # place[t]
    BY DEF StacksInv, Stowed, StackExists
  <2> QED
    BY <2>1 DEF StacksInv, StacksConserved
<1> QED
  BY <1>1, <1>2, <1>3, PTL DEF StacksSpec

-----------------------------------------------------------------------------
(* Containers *)

Locations == [Containers -> Domains \cup {Nowhere}]

\* A container is in its chain, the chain goes on outwards, and it is the least such.
LEMMA ChainIs ==
    ASSUME NEW loc, NEW c \in Containers
    PROVE  /\ Chain(loc, c) \subseteq Containers /\ c \in Chain(loc, c)
           /\ \A x \in Chain(loc, c) : loc[x] \in Containers => loc[x] \in Chain(loc, c)
           /\ \A S \in SUBSET Containers :
                 (c \in S /\ \A x \in S : loc[x] \in Containers => loc[x] \in S) => Chain(loc, c) \subseteq S
<1>1. Chain(loc, c) \subseteq Containers /\ c \in Chain(loc, c)
  BY DEF Chain
<1>2. \A S \in SUBSET Containers :
         (c \in S /\ \A x \in S : loc[x] \in Containers => loc[x] \in S) => Chain(loc, c) \subseteq S
  BY DEF Chain
<1>3. ASSUME NEW x \in Chain(loc, c), loc[x] \in Containers PROVE loc[x] \in Chain(loc, c)
  <2> SUFFICES ASSUME NEW S \in SUBSET Containers, c \in S, \A z \in S : loc[z] \in Containers => loc[z] \in S
               PROVE  loc[x] \in S
    BY <1>3 DEF Chain
  <2>1. x \in S
    BY <1>2
  <2> QED
    BY <1>3, <2>1
<1> QED
  BY <1>1, <1>2, <1>3

\* What is around a container of the chain is in the chain.
LEMMA ChainWithin ==
    ASSUME NEW loc, NEW c \in Containers, NEW x \in Chain(loc, c)
    PROVE  x \in Containers /\ Chain(loc, x) \subseteq Chain(loc, c) /\ Holders(loc, x) \subseteq Holders(loc, c)
<1>1. /\ Chain(loc, c) \in SUBSET Containers
      /\ \A z \in Chain(loc, c) : loc[z] \in Containers => loc[z] \in Chain(loc, c)
  BY ChainIs
<1>2. x \in Containers
  BY <1>1
<1>3. Chain(loc, x) \subseteq Chain(loc, c)
  BY <1>1, <1>2, ChainIs
<1> QED
  BY <1>2, <1>3 DEF Holders

LEMMA HoldersAre ==
    ASSUME NEW loc \in Locations, NEW c \in Containers
    PROVE  /\ Holders(loc, c) \subseteq Domains
           /\ loc[c] # Nowhere => loc[c] \in Holders(loc, c)
           /\ \A d \in Holders(loc, c) : d \in Containers => d \in Chain(loc, c)
<1>1. /\ Chain(loc, c) \subseteq Containers /\ c \in Chain(loc, c)
      /\ \A x \in Chain(loc, c) : loc[x] \in Containers => loc[x] \in Chain(loc, c)
  BY ChainIs
<1> QED
  BY <1>1 DEF Holders, Locations

\* The chain of a container that is not inside x does not change when x is moved.
LEMMA ChainElsewhere ==
    ASSUME NEW loc, NEW new, NEW x \in Containers, NEW c \in Containers, x \notin Chain(loc, c),
           \A e \in Containers : e # x => new[e] = loc[e]
    PROVE  Chain(new, c) = Chain(loc, c) /\ Holders(new, c) = Holders(loc, c)
<1>1. Chain(new, c) \subseteq Chain(loc, c)
  <2>1. /\ Chain(loc, c) \in SUBSET Containers /\ c \in Chain(loc, c)
        /\ \A z \in Chain(loc, c) : loc[z] \in Containers => loc[z] \in Chain(loc, c)
    BY ChainIs
  <2>2. \A z \in Chain(loc, c) : new[z] \in Containers => new[z] \in Chain(loc, c)
    BY <2>1
  <2> QED
    BY <2>1, <2>2, ChainIs
<1>2. Chain(loc, c) \subseteq Chain(new, c)
  <2>1. /\ Chain(new, c) \in SUBSET Containers /\ c \in Chain(new, c)
        /\ \A z \in Chain(new, c) : new[z] \in Containers => new[z] \in Chain(new, c)
    BY ChainIs
  <2>2. \A z \in Chain(new, c) : loc[z] \in Containers => loc[z] \in Chain(new, c)
    BY <1>1, <2>1
  <2> QED
    BY <2>1, <2>2, ChainIs
<1>3. Chain(loc, c) = Chain(new, c)
  BY <1>1, <1>2
<1>4. \A e \in Chain(loc, c) : new[e] = loc[e]
  BY ChainIs
<1> QED
  BY <1>3, <1>4 DEF Holders

\* The chain of a container is the container and the chain of the one around it.
LEMMA ChainStep ==
    ASSUME NEW loc, NEW c \in Containers
    PROVE  /\ loc[c] \in Containers => Chain(loc, c) = {c} \cup Chain(loc, loc[c])
           /\ loc[c] \notin Containers => Chain(loc, c) = {c}
<1>1. ASSUME loc[c] \in Containers PROVE Chain(loc, c) = {c} \cup Chain(loc, loc[c])
  <2> DEFINE F == {c} \cup Chain(loc, loc[c])
  <2>1. /\ Chain(loc, loc[c]) \subseteq Containers /\ loc[c] \in Chain(loc, loc[c])
        /\ \A x \in Chain(loc, loc[c]) : loc[x] \in Containers => loc[x] \in Chain(loc, loc[c])
    BY <1>1, ChainIs
  <2>2. F \in SUBSET Containers /\ c \in F /\ \A x \in F : loc[x] \in Containers => loc[x] \in F
    BY <2>1
  <2>3. c \in Chain(loc, c) /\ loc[c] \in Chain(loc, c)
    BY <1>1, ChainIs
  <2>4. Chain(loc, loc[c]) \subseteq Chain(loc, c)
    BY <2>3, ChainWithin
  <2> HIDE DEF F
  <2>5. Chain(loc, c) \subseteq F
    BY <2>2, ChainIs
  <2> QED
    BY <2>3, <2>4, <2>5 DEF F
<1>2. ASSUME loc[c] \notin Containers PROVE Chain(loc, c) = {c}
  <2>1. {c} \in SUBSET Containers /\ c \in {c} /\ \A x \in {c} : loc[x] \in Containers => loc[x] \in {c}
    BY <1>2
  <2> QED
    BY <2>1, ChainIs
<1> QED
  BY <1>1, <1>2

\* The domains between a container and an observer are all that hold the container:
\* what holds it ends with him if he carries it.
LEMMA BetweenIs ==
    ASSUME NEW loc \in Locations, NEW c \in Containers, NEW o \in Observers
    PROVE  Between(loc, c, o) = Holders(loc, c)
<1>1. o \notin Containers
  BY ContainersAssumption
<1>2. ASSUME o \in Holders(loc, c), NEW d \in Holders(loc, c) PROVE d = o \/ (d \in Containers /\ o \in Holders(loc, d))
  <2> DEFINE E == {e \in Containers : o \in Holders(loc, e)}
  <2>1. ASSUME NEW e \in E, loc[e] \in Containers PROVE loc[e] \in E
    <3>1. PICK z \in Chain(loc, e) : o = loc[z]
      BY DEF Holders
    <3>2. z # e
      BY <1>1, <2>1, <3>1
    <3>3. z \in Chain(loc, loc[e])
      BY <2>1, <3>1, <3>2, ChainStep
    <3>4. o # Nowhere
      BY ContainersAssumption
    <3> QED
      BY <2>1, <3>1, <3>3, <3>4 DEF Holders
  <2>2. E \in SUBSET Containers /\ c \in E
    BY <1>2
  <2> HIDE DEF E
  <2>3. Chain(loc, c) \subseteq E
    BY <2>1, <2>2, ChainIs
  <2>4. PICK e \in Chain(loc, c) : d = loc[e] /\ d # Nowhere
    BY DEF Holders
  <2>5. e \in E /\ e \in Containers
    BY <2>2, <2>3, <2>4
  <2>6. CASE d \in Containers
    <3>1. d \in E
      BY <2>1, <2>4, <2>5, <2>6
    <3> QED
      BY <2>6, <3>1 DEF E
  <2>7. CASE d \notin Containers
    <3>1. Chain(loc, e) \subseteq {e}
      BY <2>4, <2>5, <2>7, ChainStep
    <3>2. o \in Holders(loc, e)
      BY <2>5 DEF E
    <3> QED
      BY <2>4, <3>1, <3>2 DEF Holders
  <2> QED
    BY <2>6, <2>7
<1> QED
  BY <1>2 DEF Between

-----------------------------------------------------------------------------
\* No container is in itself, directly or not.
Contained(loc) == \A S \in SUBSET Containers : S # {} => \E e \in S : loc[e] \notin S

\* A container is inside one that is in the world.
Placed(loc) == \A c \in Containers : loc[c] \in Containers => loc[loc[c]] # Nowhere

\* Who has c open has an observation in every domain around it, and has those open.
OpenThrough(loc, reaching, obs, c, o) ==
    /\ loc[c] # Nowhere
    /\ \A d \in Domains : <<d, c, o>> \in obs <=> d \in Holders(loc, c)
    /\ \A d \in Holders(loc, c) : d = Top \/ d = o \/ (d \in Containers /\ o \in reaching[d])

\* OpenOnlyInTouch of a state, and that there are no other observations.
InTouch(loc, reaching, active, obs) ==
    /\ loc \in Locations
    /\ reaching \in [Containers -> SUBSET Observers]
    /\ active \in [Observers -> SUBSET Containers]
    /\ obs \subseteq Domains \X Containers \X Observers
    /\ \A c \in Containers, o \in Observers : o \in reaching[c] <=> c \in active[o]
    /\ \A c \in Containers, o \in Observers, d \in Domains : <<d, c, o>> \in obs => o \in reaching[c]
    /\ \A c \in Containers, o \in Observers :
          o \in reaching[c] => OpenThrough(loc, reaching, obs, c, o)

\* Containers are closed for some observers, and with each everything that is in it.
ClosedFor(pairs, obs, closed) ==
    \A c \in Containers, o \in Observers :
        <<c, o>> \in closed <=> \/ <<c, o>> \in pairs
                                \/ \E d \in Domains : <<d, c, o>> \in obs /\ <<d, o>> \in pairs
AllBut(closed, reaching, active, obs, reaching2, active2, obs2) ==
    /\ reaching2 \in [Containers -> SUBSET Observers] /\ active2 \in [Observers -> SUBSET Containers]
    /\ obs2 \in SUBSET (Domains \X Containers \X Observers)
    /\ \A c \in Containers, o \in Observers : o \in reaching2[c] <=> o \in reaching[c] /\ <<c, o>> \notin closed
    /\ \A c \in Containers, o \in Observers : c \in active2[o] <=> c \in active[o] /\ <<c, o>> \notin closed
    /\ \A d \in Domains, c \in Containers, o \in Observers :
          <<d, c, o>> \in obs2 <=> <<d, c, o>> \in obs /\ <<c, o>> \notin closed

LEMMA ClosingKeepsTouch ==
    ASSUME NEW loc, NEW reaching, NEW active, NEW obs, InTouch(loc, reaching, active, obs),
           NEW pairs, NEW closed, ClosedFor(pairs, obs, closed),
           NEW reaching2, NEW active2, NEW obs2, AllBut(closed, reaching, active, obs, reaching2, active2, obs2)
    PROVE  InTouch(loc, reaching2, active2, obs2)
<1> USE DEF ClosedFor, AllBut
<1>1. loc \in Locations
  BY DEF InTouch
<1>2. \A c \in Containers, o \in Observers : o \in reaching2[c] <=> c \in active2[o]
  BY DEF InTouch
<1>3. \A c \in Containers, o \in Observers, d \in Domains : <<d, c, o>> \in obs2 => o \in reaching2[c]
  BY DEF InTouch
<1>4. ASSUME NEW c \in Containers, NEW o \in Observers, o \in reaching2[c]
      PROVE  OpenThrough(loc, reaching2, obs2, c, o)
  <2>1. o \in reaching[c] /\ <<c, o>> \notin closed
    BY <1>4
  <2>2. OpenThrough(loc, reaching, obs, c, o)
    BY <2>1 DEF InTouch
  <2>3. loc[c] # Nowhere /\ \A d \in Domains : <<d, c, o>> \in obs2 <=> d \in Holders(loc, c)
    BY <2>1, <2>2 DEF OpenThrough
  <2>4. ASSUME NEW d \in Holders(loc, c) PROVE d = Top \/ d = o \/ (d \in Containers /\ o \in reaching2[d])
    <3> SUFFICES ASSUME d # Top, d # o PROVE d \in Containers /\ o \in reaching2[d]
      OBVIOUS
    <3>1. d \in Containers /\ o \in reaching[d] /\ d \in Domains
      BY <2>2 DEF OpenThrough, Domains
    <3>2. OpenThrough(loc, reaching, obs, d, o)
      BY <3>1 DEF InTouch
    <3>3. <<d, c, o>> \in obs
      BY <2>2, <3>1 DEF OpenThrough
    <3>4. <<d, o>> \notin pairs
      BY <2>1, <3>1, <3>3
    <3>5. ASSUME NEW e \in Domains, <<e, d, o>> \in obs, <<e, o>> \in pairs PROVE FALSE
      <4>1. e \in Holders(loc, d)
        BY <3>2, <3>5 DEF OpenThrough
      <4>2. d \in Chain(loc, c)
        BY <1>1, <3>1, HoldersAre
      <4>3. e \in Holders(loc, c)
        BY <4>1, <4>2, ChainWithin
      <4>4. <<e, c, o>> \in obs
        BY <2>2, <4>3 DEF OpenThrough
      <4> QED
        BY <2>1, <3>5, <4>4
    <3>6. <<d, o>> \notin closed
      BY <3>1, <3>4, <3>5
    <3> QED
      BY <3>1, <3>6
  <2> QED
    BY <2>3, <2>4 DEF OpenThrough
<1> QED
  BY <1>1, <1>2, <1>3, <1>4 DEF InTouch

\* A container is opened for observers whom every domain around it serves.
LEMMA OpeningKeepsTouch ==
    ASSUME NEW loc, NEW reaching, NEW active, NEW obs, InTouch(loc, reaching, active, obs),
           NEW x \in Containers, NEW os \in SUBSET Observers, loc[x] # Nowhere,
           \A o \in os : o \notin reaching[x] /\ \A d \in Holders(loc, x) :
               d = Top \/ d = o \/ (d \in Containers /\ o \in reaching[d]),
           NEW reaching2 \in [Containers -> SUBSET Observers], NEW active2 \in [Observers -> SUBSET Containers],
           NEW obs2 \in SUBSET (Domains \X Containers \X Observers),
           \A c \in Containers, o \in Observers : o \in reaching2[c] <=> o \in reaching[c] \/ (c = x /\ o \in os),
           \A c \in Containers, o \in Observers : c \in active2[o] <=> c \in active[o] \/ (c = x /\ o \in os),
           \A d \in Domains, c \in Containers, o \in Observers :
               <<d, c, o>> \in obs2 <=> <<d, c, o>> \in obs \/ (c = x /\ o \in os /\ d \in Holders(loc, x))
    PROVE  InTouch(loc, reaching2, active2, obs2)
<1>1. loc \in Locations
  BY DEF InTouch
<1>2. \A c \in Containers, o \in Observers : o \in reaching2[c] <=> c \in active2[o]
  BY DEF InTouch
<1>3. \A c \in Containers, o \in Observers, d \in Domains : <<d, c, o>> \in obs2 => o \in reaching2[c]
  BY DEF InTouch
<1>4. ASSUME NEW c \in Containers, NEW o \in Observers, o \in reaching2[c]
      PROVE  OpenThrough(loc, reaching2, obs2, c, o)
  <2>1. CASE c = x /\ o \in os
    <3>1. \A d \in Domains : <<d, c, o>> \notin obs
      BY <2>1 DEF InTouch
    <3> QED
      BY <2>1, <3>1 DEF OpenThrough
  <2>2. CASE ~ (c = x /\ o \in os)
    <3>1. OpenThrough(loc, reaching, obs, c, o)
      BY <1>4, <2>2 DEF InTouch
    <3> QED
      BY <2>2, <3>1 DEF OpenThrough
  <2> QED
    BY <2>1, <2>2
<1> QED
  BY <1>1, <1>2, <1>3, <1>4 DEF InTouch

\* Something is moved that nobody has open, nor anything in it.
LEMMA MovingKeepsTouch ==
    ASSUME NEW loc, NEW reaching, NEW active, NEW obs, InTouch(loc, reaching, active, obs),
           NEW x \in Containers, NEW new \in Locations, \A e \in Containers : e # x => new[e] = loc[e],
           \A c \in Containers : x \in Chain(loc, c) => reaching[c] = {}
    PROVE  InTouch(new, reaching, active, obs)
<1>1. ASSUME NEW c \in Containers, NEW o \in Observers, o \in reaching[c]
      PROVE  OpenThrough(new, reaching, obs, c, o)
  <2>1. OpenThrough(loc, reaching, obs, c, o) /\ x \notin Chain(loc, c)
    BY <1>1 DEF InTouch
  <2>2. Holders(new, c) = Holders(loc, c)
    BY <2>1, ChainElsewhere
  <2>3. c # x
    BY <2>1, ChainIs
  <2> QED
    BY <2>1, <2>2, <2>3 DEF OpenThrough
<1> QED
  BY <1>1 DEF InTouch

-----------------------------------------------------------------------------
ContainerStates ==
    [loc : Locations, reaching : [Containers -> SUBSET Observers], active : [Observers -> SUBSET Containers],
     obs : SUBSET (Domains \X Containers \X Observers), dangling : SUBSET (Containers \X Observers), freed : BOOLEAN]

StateInTouch(st) ==
    /\ st \in ContainerStates
    /\ InTouch(st.loc, st.reaching, st.active, st.obs)
    /\ Placed(st.loc) /\ Contained(st.loc)

LEMMA RemoveObserverSound ==
    ASSUME NEW st, StateInTouch(st), NEW pairs, NEW after, after = RemoveObserver(st, pairs)
    PROVE  /\ StateInTouch(after) /\ after.loc = st.loc
           /\ \A c \in Containers, o \in Observers :
                 o \in after.reaching[c] <=> o \in st.reaching[c] /\ <<c, o>> \notin Closed(st, pairs)
           /\ \A c \in Containers, o \in Observers : <<c, o>> \in pairs => <<c, o>> \in Closed(st, pairs)
<1>1. st \in ContainerStates /\ InTouch(st.loc, st.reaching, st.active, st.obs)
  BY DEF StateInTouch
<1>2. PICK closed : closed = Closed(st, pairs)
  OBVIOUS
<1>3. PICK reaching2 : reaching2 = [c \in Containers |-> {o \in st.reaching[c] : <<c, o>> \notin closed}]
  OBVIOUS
<1>4. PICK active2 : active2 = [o \in Observers |-> {c \in st.active[o] : <<c, o>> \notin closed}]
  OBVIOUS
<1>5. PICK obs2 : obs2 = {x \in st.obs : <<x[2], x[3]>> \notin closed}
  OBVIOUS
<1>6. PICK less \in SUBSET (Containers \X Observers) :
         after = [st EXCEPT !.reaching = reaching2, !.active = active2, !.obs = obs2, !.dangling = less]
  <2>1. st.dangling \ closed \in SUBSET (Containers \X Observers)
    BY <1>1 DEF ContainerStates
  <2>2. after = [st EXCEPT !.reaching = reaching2, !.active = active2, !.obs = obs2, !.dangling = st.dangling \ closed]
    BY <1>2, <1>3, <1>4, <1>5 DEF RemoveObserver
  <2> QED
    BY <2>1, <2>2
<1>7. /\ reaching2 \in [Containers -> SUBSET Observers] /\ active2 \in [Observers -> SUBSET Containers]
      /\ \A c \in Containers, o \in Observers : o \in reaching2[c] <=> o \in st.reaching[c] /\ <<c, o>> \notin closed
      /\ \A c \in Containers, o \in Observers : c \in active2[o] <=> c \in st.active[o] /\ <<c, o>> \notin closed
  BY <1>1, <1>3, <1>4 DEF ContainerStates
<1>8. /\ obs2 \in SUBSET (Domains \X Containers \X Observers)
      /\ \A d \in Domains, c \in Containers, o \in Observers :
            <<d, c, o>> \in obs2 <=> <<d, c, o>> \in st.obs /\ <<c, o>> \notin closed
  BY <1>1, <1>5 DEF ContainerStates
<1>9. /\ after \in ContainerStates /\ after.loc = st.loc
      /\ after.reaching = reaching2 /\ after.active = active2 /\ after.obs = obs2
  <2>1. /\ reaching2 \in [Containers -> SUBSET Observers] /\ active2 \in [Observers -> SUBSET Containers]
        /\ obs2 \in SUBSET (Domains \X Containers \X Observers)
    BY <1>7, <1>8
  <2>2. st \in ContainerStates
    BY <1>1
  <2>3. after = [loc |-> st.loc, reaching |-> reaching2, active |-> active2, obs |-> obs2,
                 dangling |-> less, freed |-> st.freed]
    BY <1>6, <2>2 DEF ContainerStates
  <2>4. st.loc \in Locations /\ st.freed \in BOOLEAN
    BY <2>2 DEF ContainerStates
  <2> QED
    BY <1>6, <2>1, <2>3, <2>4 DEF ContainerStates
<1>10. ASSUME NEW c \in Containers, NEW o \in Observers
       PROVE  <<c, o>> \in closed <=> \/ <<c, o>> \in pairs
                                      \/ \E d \in Domains : <<d, c, o>> \in st.obs /\ <<d, o>> \in pairs
  <2>1. ASSUME NEW x \in st.obs PROVE \E d \in Domains, e \in Containers, p \in Observers : x = <<d, e, p>>
    BY <1>1 DEF ContainerStates
  <2>2. ASSUME NEW x \in st.obs, <<x[1], x[3]>> \in pairs, <<c, o>> = <<x[2], x[3]>>
        PROVE  \E d \in Domains : <<d, c, o>> \in st.obs /\ <<d, o>> \in pairs
    BY <2>1, <2>2
  <2>3. ASSUME NEW d \in Domains, <<d, c, o>> \in st.obs, <<d, o>> \in pairs PROVE <<c, o>> \in closed
    <3>1. PICK x : x = <<d, c, o>>
      OBVIOUS
    <3>2. x \in st.obs /\ <<x[1], x[3]>> \in pairs /\ <<c, o>> = <<x[2], x[3]>>
      BY <2>3, <3>1
    <3> QED
      BY <1>2, <3>2 DEF Closed
  <2> QED
    BY <1>2, <2>2, <2>3 DEF Closed
<1>11. InTouch(st.loc, reaching2, active2, obs2)
  <2>1. PICK loc, reaching, active, obs :
            loc = st.loc /\ reaching = st.reaching /\ active = st.active /\ obs = st.obs
    OBVIOUS
  <2>2. InTouch(loc, reaching, active, obs)
    BY <1>1, <2>1
  <2>3. ClosedFor(pairs, obs, closed)
    BY <1>10, <2>1 DEF ClosedFor
  <2>4. AllBut(closed, reaching, active, obs, reaching2, active2, obs2)
    BY <1>7, <1>8, <2>1 DEF AllBut
  <2>5. InTouch(loc, reaching2, active2, obs2)
    BY <2>2, <2>3, <2>4, ClosingKeepsTouch
  <2> QED
    BY <2>1, <2>5
<1> QED
  BY <1>2, <1>7, <1>9, <1>10, <1>11 DEF StateInTouch

LEMMA AddObserversSound ==
    ASSUME NEW st, StateInTouch(st), NEW c \in Containers, NEW os \in SUBSET Observers, st.loc[c] # Nowhere,
           os \cap st.reaching[c] = {}
    PROVE  StateInTouch(AddObservers(st, c, os))
<1>1. st \in ContainerStates /\ InTouch(st.loc, st.reaching, st.active, st.obs)
  BY DEF StateInTouch
<1>2. st.loc \in Locations
  BY <1>1 DEF ContainerStates
<1>3. \A o \in Observers : Between(st.loc, c, o) = Holders(st.loc, c)
  BY <1>2, BetweenIs
<1>4. PICK let : let = {o \in os : \A d \in Between(st.loc, c, o) : Observable(st, d, o)}
  OBVIOUS
<1>5. PICK after : after = AddObservers(st, c, os)
  OBVIOUS
<1>6. PICK reaching2 : reaching2 = [st.reaching EXCEPT ![c] = st.reaching[c] \cup let]
  OBVIOUS
<1>7. PICK active2 : active2 = [o \in Observers |-> IF o \in let THEN st.active[o] \cup {c} ELSE st.active[o]]
  OBVIOUS
<1>8. PICK obs2 : obs2 = st.obs \cup UNION {Between(st.loc, c, o) \X {c} \X {o} : o \in let}
  OBVIOUS
<1>9. after = [st EXCEPT !.reaching = reaching2, !.active = active2, !.obs = obs2]
  <2>1. after = [st EXCEPT
            !.reaching[c] = st.reaching[c] \cup let,
            !.active = [o \in Observers |-> IF o \in let THEN st.active[o] \cup {c} ELSE st.active[o]],
            !.obs = st.obs \cup UNION {Between(st.loc, c, o) \X {c} \X {o} : o \in let}]
    BY <1>4, <1>5 DEF AddObservers
  <2> QED
    BY <1>6, <1>7, <1>8, <2>1
<1>10. let \in SUBSET Observers /\ let \subseteq os
  BY <1>4
<1>11. /\ reaching2 \in [Containers -> SUBSET Observers] /\ active2 \in [Observers -> SUBSET Containers]
       /\ \A e \in Containers, o \in Observers : o \in reaching2[e] <=> o \in st.reaching[e] \/ (e = c /\ o \in let)
       /\ \A e \in Containers, o \in Observers : e \in active2[o] <=> e \in st.active[o] \/ (e = c /\ o \in let)
  BY <1>1, <1>6, <1>7, <1>10 DEF ContainerStates
<1>12. Holders(st.loc, c) \subseteq Domains
  BY <1>2, HoldersAre
<1>13. obs2 = st.obs \cup UNION {Holders(st.loc, c) \X {c} \X {o} : o \in let}
  BY <1>3, <1>8, <1>10
<1>14. /\ obs2 \in SUBSET (Domains \X Containers \X Observers)
       /\ \A d \in Domains, e \in Containers, o \in Observers :
             <<d, e, o>> \in obs2 <=> <<d, e, o>> \in st.obs \/ (e = c /\ o \in let /\ d \in Holders(st.loc, c))
  BY <1>1, <1>10, <1>12, <1>13 DEF ContainerStates
<1>15. \A o \in let : o \notin st.reaching[c] /\ \A d \in Holders(st.loc, c) :
               d = Top \/ d = o \/ (d \in Containers /\ o \in st.reaching[d])
  BY <1>3, <1>4, <1>10 DEF Observable
<1>16. InTouch(st.loc, reaching2, active2, obs2)
  BY <1>1, <1>10, <1>11, <1>14, <1>15, OpeningKeepsTouch
<1>17. /\ after \in ContainerStates /\ after.loc = st.loc
       /\ after.reaching = reaching2 /\ after.active = active2 /\ after.obs = obs2
  BY <1>1, <1>9, <1>11, <1>14 DEF ContainerStates
<1> QED
  BY <1>5, <1>16, <1>17 DEF StateInTouch

\* What leaves its place is closed for everybody, with everything in it.
LEMMA RemoveEntitySound ==
    ASSUME NEW st, StateInTouch(st), NEW x \in Containers, st.loc[x] # Nowhere, NEW after, after = RemoveEntity(st, x)
    PROVE  /\ StateInTouch(after) /\ after.loc = st.loc
           /\ \A c \in Containers : x \in Chain(st.loc, c) => after.reaching[c] = {}
<1>1. st \in ContainerStates /\ InTouch(st.loc, st.reaching, st.active, st.obs) /\ Placed(st.loc) /\ st.loc \in Locations
  BY DEF StateInTouch, ContainerStates
<1>2. PICK d : d = st.loc[x] /\ d \in Domains
  BY <1>1 DEF Locations
<1>3. PICK ys : ys = About(st, d, x)
  OBVIOUS
<1>4. PICK pairs : pairs = {<<y[2], y[3]>> : y \in ys}
  OBVIOUS
<1>5. PICK rest : rest = RemoveObserver(st, pairs)
  OBVIOUS
<1>6. /\ StateInTouch(rest) /\ rest.loc = st.loc
      /\ \A c \in Containers, o \in Observers :
            o \in rest.reaching[c] <=> o \in st.reaching[c] /\ <<c, o>> \notin Closed(st, pairs)
      /\ \A c \in Containers, o \in Observers : <<c, o>> \in pairs => <<c, o>> \in Closed(st, pairs)
  BY <1>5, RemoveObserverSound
<1>7. rest \in ContainerStates
  BY <1>6 DEF StateInTouch
<1>8. /\ after \in ContainerStates
      /\ after.loc = rest.loc /\ after.reaching = rest.reaching /\ after.active = rest.active /\ after.obs = rest.obs
  <2>1. \A y \in ys : y[3] \in Observers
    BY <1>1, <1>3 DEF About, ContainerStates
  <2>2. CASE d = Top
    <3>1. PICK f \in BOOLEAN : f = (rest.freed \/ OneFreesTheOther(st, ys))
      OBVIOUS
    <3>2. after = [rest EXCEPT !.freed = f]
      BY <1>2, <1>3, <1>4, <1>5, <2>2, <3>1 DEF RemoveEntity
    <3> QED
      BY <1>7, <3>2 DEF ContainerStates
  <2>3. CASE d # Top /\ d \in Containers
    <3>1. PICK f \in BOOLEAN : f = (rest.freed \/ \E o \in st.reaching[d] : <<d, o>> \in st.dangling)
      OBVIOUS
    <3>2. PICK g : g = rest.dangling \cup {<<d, y[3]>> : y \in ys}
      OBVIOUS
    <3>3. g \in SUBSET (Containers \X Observers)
      BY <1>7, <2>1, <2>3, <3>2 DEF ContainerStates
    <3>4. after = [rest EXCEPT !.freed = f, !.dangling = g]
      BY <1>2, <1>3, <1>4, <1>5, <2>3, <3>1, <3>2 DEF RemoveEntity
    <3> QED
      BY <1>7, <3>3, <3>4 DEF ContainerStates
  <2>4. CASE d # Top /\ d \notin Containers
    <3>1. after = rest
      BY <1>2, <1>3, <1>4, <1>5, <2>4 DEF RemoveEntity
    <3> QED
      BY <1>7, <3>1
  <2> QED
    BY <2>2, <2>3, <2>4
<1>9. ASSUME NEW c \in Containers, x \in Chain(st.loc, c), NEW o \in Observers, o \in st.reaching[c]
      PROVE  <<c, o>> \in pairs
  <2>1. d \in Holders(st.loc, x)
    BY <1>1, <1>2, HoldersAre
  <2>2. d \in Holders(st.loc, c)
    BY <1>9, <2>1, ChainWithin
  <2>3. OpenThrough(st.loc, st.reaching, st.obs, c, o)
    BY <1>1, <1>9 DEF InTouch
  <2>4. <<d, c, o>> \in st.obs
    BY <1>2, <2>2, <2>3 DEF OpenThrough
  <2>5. PICK y : y = <<d, c, o>>
    OBVIOUS
  <2>6. y \in ys /\ <<c, o>> = <<y[2], y[3]>>
    BY <1>3, <1>9, <2>4, <2>5 DEF About
  <2> QED
    BY <1>4, <2>6
<1>10. ASSUME NEW c \in Containers, x \in Chain(st.loc, c) PROVE after.reaching[c] = {}
  <2>1. \A o \in Observers : o \notin rest.reaching[c]
    BY <1>6, <1>9, <1>10
  <2> QED
    BY <1>7, <1>8, <2>1 DEF ContainerStates
<1> QED
  BY <1>6, <1>8, <1>10 DEF StateInTouch

LEMMA MovingKeepsContained ==
    ASSUME NEW loc, Contained(loc), NEW x \in Containers, NEW new, NEW to, new[x] = to,
           \A e \in Containers : e # x => new[e] = loc[e],
           to \in Containers => x \notin Chain(loc, to)
    PROVE  Contained(new)
<1> SUFFICES ASSUME NEW S \in SUBSET Containers, S # {} PROVE \E e \in S : new[e] \notin S
  BY DEF Contained
<1>1. CASE x \notin S
  BY <1>1 DEF Contained
<1>2. CASE x \in S /\ to \notin S
  BY <1>2
<1>3. CASE x \in S /\ to \in S
  <2>1. /\ Chain(loc, to) \subseteq Containers /\ to \in Chain(loc, to)
        /\ \A z \in Chain(loc, to) : loc[z] \in Containers => loc[z] \in Chain(loc, to)
    BY <1>3, ChainIs
  <2>2. PICK T : T = S \cap Chain(loc, to)
    OBVIOUS
  <2>3. PICK e \in T : loc[e] \notin T
    <3>1. T \in SUBSET Containers /\ T # {}
      BY <1>3, <2>1, <2>2
    <3> QED
      BY <3>1 DEF Contained
  <2>4. e \in S /\ e \in Chain(loc, to) /\ e # x /\ e \in Containers
    BY <1>3, <2>2, <2>3
  <2>5. loc[e] \notin S
    BY <2>1, <2>2, <2>3, <2>4
  <2> QED
    BY <2>4, <2>5
<1> QED
  BY <1>1, <1>2, <1>3

\* What is in x does not hold what x is in.
LEMMA NotAround ==
    ASSUME NEW loc, Contained(loc), NEW x \in Containers, NEW child \in Containers, loc[child] = x
    PROVE  /\ loc[x] # x
           /\ loc[x] \in Containers => child \notin Chain(loc, loc[x])
<1>1. loc[x] # x
  <2>1. {x} \in SUBSET Containers /\ {x} # {}
    OBVIOUS
  <2> QED
    BY <2>1 DEF Contained
<1>2. ASSUME loc[x] \in Containers, child \in Chain(loc, loc[x]) PROVE FALSE
  <2> DEFINE S == {e \in Containers : child \in Chain(loc, e)}
  <2>1. child \in Chain(loc, x)
    BY <1>2, ChainStep
  <2>2. ASSUME NEW e \in S PROVE loc[e] \in S
    <3>1. CASE e = child
      BY <2>1, <3>1
    <3>2. CASE e # child
      BY <3>2, ChainStep
    <3> QED
      BY <3>1, <3>2
  <2>3. S \in SUBSET Containers /\ S # {}
    BY <2>1
  <2> HIDE DEF S
  <2> QED
    BY <2>2, <2>3 DEF Contained
<1> QED
  BY <1>1, <1>2

\* x is moved to somewhere in the world, or nothing is in x any more.
LEMMA MovedSound ==
    ASSUME NEW st, StateInTouch(st), NEW x \in Containers, NEW to \in Domains \cup {Nowhere},
           to \in Containers => st.loc[to] # Nowhere /\ x \notin Chain(st.loc, to),
           to = Nowhere => \A c \in Containers : st.loc[c] # x,
           NEW after, after = Moved(st, x, to)
    PROVE  /\ StateInTouch(after) /\ after.loc = [st.loc EXCEPT ![x] = to]
<1>1. /\ st \in ContainerStates /\ InTouch(st.loc, st.reaching, st.active, st.obs)
      /\ Placed(st.loc) /\ Contained(st.loc) /\ st.loc \in Locations
  BY DEF StateInTouch, ContainerStates
<1>2. PICK rest : rest = IF st.loc[x] = Nowhere THEN st ELSE RemoveEntity(st, x)
  OBVIOUS
<1>3. /\ StateInTouch(rest) /\ rest.loc = st.loc
      /\ \A c \in Containers : x \in Chain(st.loc, c) => rest.reaching[c] = {}
  <2>1. CASE st.loc[x] # Nowhere
    BY <1>2, <2>1, RemoveEntitySound
  <2>2. CASE st.loc[x] = Nowhere
    <3>1. ASSUME NEW c \in Containers, x \in Chain(st.loc, c) PROVE c = x
      <4>1. \A e \in Containers : st.loc[e] # x
        BY <1>1, <2>2 DEF Placed
      <4> DEFINE E == Chain(st.loc, c) \ {x}
      <4>2. /\ Chain(st.loc, c) \subseteq Containers /\ c \in Chain(st.loc, c)
            /\ \A z \in Chain(st.loc, c) : st.loc[z] \in Containers => st.loc[z] \in Chain(st.loc, c)
        BY ChainIs
      <4>3. E \in SUBSET Containers /\ \A z \in E : st.loc[z] \in Containers => st.loc[z] \in E
        BY <4>1, <4>2
      <4>4. c # x => Chain(st.loc, c) \subseteq E
        <5>1. c # x => c \in E
          BY <4>2
        <5> HIDE DEF E
        <5> QED
          BY <4>3, <5>1, ChainIs
      <4> QED
        BY <3>1, <4>4
    <3>2. \A o \in Observers : o \notin st.reaching[x]
      BY <1>1, <2>2 DEF InTouch, OpenThrough
    <3>3. st.reaching[x] = {}
      BY <1>1, <3>2 DEF ContainerStates
    <3> QED
      BY <1>2, <2>2, <3>1, <3>3
  <2> QED
    BY <2>1, <2>2
<1>4. rest \in ContainerStates /\ InTouch(rest.loc, rest.reaching, rest.active, rest.obs)
  BY <1>3 DEF StateInTouch
<1>5. PICK new : new = [st.loc EXCEPT ![x] = to]
  OBVIOUS
<1>6. new \in Locations /\ new[x] = to /\ \A e \in Containers : e # x => new[e] = st.loc[e]
  BY <1>1, <1>5 DEF Locations
<1>7. after = [rest EXCEPT !.loc = new]
  BY <1>2, <1>3, <1>5 DEF Moved
<1>8. /\ after \in ContainerStates /\ after.loc = new
      /\ after.reaching = rest.reaching /\ after.active = rest.active /\ after.obs = rest.obs
  BY <1>4, <1>6, <1>7 DEF ContainerStates
<1>9. InTouch(new, rest.reaching, rest.active, rest.obs)
  <2>1. InTouch(st.loc, rest.reaching, rest.active, rest.obs)
    BY <1>3, <1>4
  <2>2. \A c \in Containers : x \in Chain(st.loc, c) => rest.reaching[c] = {}
    BY <1>3
  <2> QED
    BY <1>6, <2>1, <2>2, MovingKeepsTouch
<1>10. Placed(new)
  <2> SUFFICES ASSUME NEW c \in Containers, new[c] \in Containers PROVE new[new[c]] # Nowhere
    BY DEF Placed
  <2>1. CASE c = x
    <3>1. to \in Containers => to # x
      BY ChainIs
    <3> QED
      BY <1>6, <2>1, <3>1
  <2>2. CASE c # x
    <3>1. new[c] = st.loc[c] /\ st.loc[new[c]] # Nowhere
      BY <1>1, <1>6, <2>2 DEF Placed
    <3>2. CASE new[c] = x
      BY <1>6, <3>1, <3>2
    <3>3. CASE new[c] # x
      BY <1>6, <3>1, <3>3
    <3> QED
      BY <3>2, <3>3
  <2> QED
    BY <2>1, <2>2
<1>11. Contained(new)
  BY <1>1, <1>6, MovingKeepsContained
<1> QED
  BY <1>5, <1>8, <1>9, <1>10, <1>11 DEF StateInTouch

\* f[i] is the state after the first i children have been moved.
MovesOut(f, st, children, to, n) ==
    f = [i \in 0 .. n |-> IF i = 0 THEN st ELSE Moved(f[i - 1], children[i], to)]

LEMMA MovesOutExist ==
    ASSUME NEW st, NEW children, NEW to, NEW n \in Nat PROVE \E f : MovesOut(f, st, children, to, n)
<1> DEFINE Bad == {k \in Nat : ~ \E f : MovesOut(f, st, children, to, k)}
<1> SUFFICES ASSUME Bad # {} PROVE FALSE
  OBVIOUS
<1>1. PICK k \in Bad : \A j \in Bad : k <= j
  <2>1. Bad \subseteq Nat
    OBVIOUS
  <2> HIDE DEF Bad
  <2> QED
    BY <2>1, LeastNumber
<1>2. k \in Nat /\ ~ \E f : MovesOut(f, st, children, to, k)
  BY <1>1
<1>3. k # 0
  <2>1. PICK g : g = [i \in 0 .. 0 |-> st]
    OBVIOUS
  <2>2. g = [i \in 0 .. 0 |-> IF i = 0 THEN st ELSE Moved(g[i - 1], children[i], to)]
    BY <2>1
  <2> QED
    BY <1>2, <2>2 DEF MovesOut
<1>4. PICK j \in Nat : k = j + 1
  BY <1>2, <1>3
<1>5. PICK f : MovesOut(f, st, children, to, j)
  BY <1>1, <1>2, <1>4
<1>6. PICK g : g = [i \in 0 .. (j + 1) |-> IF i = 0 THEN st ELSE Moved(f[i - 1], children[i], to)]
  OBVIOUS
<1>7. ASSUME NEW i \in 0 .. j PROVE g[i] = f[i]
  <2>1. f[i] = IF i = 0 THEN st ELSE Moved(f[i - 1], children[i], to)
    BY <1>5 DEF MovesOut
  <2>2. i \in 0 .. (j + 1)
    BY <1>4
  <2> QED
    BY <1>6, <2>1, <2>2
<1>8. g = [i \in 0 .. (j + 1) |-> IF i = 0 THEN st ELSE Moved(g[i - 1], children[i], to)]
  <2>1. ASSUME NEW i \in 0 .. (j + 1), i # 0 PROVE g[i - 1] = f[i - 1]
    <3>1. i - 1 \in 0 .. j
      BY <1>4, <2>1
    <3> QED
      BY <1>7, <3>1
  <2> QED
    BY <1>6, <2>1
<1> QED
  BY <1>2, <1>4, <1>8 DEF MovesOut

\* All children of x are moved to where x is, each once.
LEMMA MovedOutSound ==
    ASSUME NEW st, StateInTouch(st), NEW x \in Containers, NEW to, to = st.loc[x], to # Nowhere,
           NEW children, NEW n \in Nat, n = Len(children),
           \A i \in 1 .. n : children[i] \in Containers /\ st.loc[children[i]] = x,
           \A i, j \in 1 .. n : i # j => children[i] # children[j],
           \A c \in Containers : st.loc[c] = x => c \in {children[i] : i \in 1 .. n}
    PROVE  /\ StateInTouch(MovedOut(st, children, to))
           /\ \A c \in Containers : MovedOut(st, children, to).loc[c] # x
<1>1. PICK f : f = CHOOSE h : h = [i \in 0 .. Len(children) |-> IF i = 0 THEN st ELSE Moved(h[i - 1], children[i], to)]
  OBVIOUS
<1>2. MovesOut(f, st, children, to, n)
  <2>1. \E h : MovesOut(h, st, children, to, n)
    BY MovesOutExist
  <2>2. \E h : h = [i \in 0 .. Len(children) |-> IF i = 0 THEN st ELSE Moved(h[i - 1], children[i], to)]
    BY <2>1 DEF MovesOut
  <2> QED
    BY <1>1, <2>2 DEF MovesOut
<1>3. MovedOut(st, children, to) = f[n]
  BY <1>1 DEF MovedOut
<1>4. \A i \in 0 .. n : f[i] = IF i = 0 THEN st ELSE Moved(f[i - 1], children[i], to)
  BY <1>2 DEF MovesOut
<1>5. st.loc \in Locations /\ Placed(st.loc) /\ Contained(st.loc) /\ to \in Domains
  BY DEF StateInTouch, ContainerStates, Locations
<1> DEFINE First(k) == {children[i] : i \in 1 .. k}
           Good(k) == /\ StateInTouch(f[k])
                      /\ \A c \in Containers : f[k].loc[c] = IF c \in First(k) THEN to ELSE st.loc[c]
           Bad == {k \in Nat : k \in 0 .. n /\ ~ Good(k)}
<1>6. Bad = {}
  <2> SUFFICES ASSUME Bad # {} PROVE FALSE
    OBVIOUS
  <2>1. PICK k \in Bad : \A j \in Bad : k <= j
    <3>1. Bad \subseteq Nat
      OBVIOUS
    <3> HIDE DEF Bad
    <3> QED
      BY <3>1, LeastNumber
  <2>2. k \in Nat /\ k \in 0 .. n /\ ~ Good(k)
    BY <2>1
  <2>3. k # 0
    <3>1. f[0] = st
      BY <1>4
    <3>2. First(0) = {}
      OBVIOUS
    <3> QED
      BY <2>2, <3>1, <3>2
  <2>4. PICK j \in Nat : k = j + 1 /\ j \in 0 .. n /\ j = k - 1
    BY <2>2, <2>3
  <2>5. Good(j)
    BY <2>1, <2>4
  <2>6. PICK c : c = children[k]
    OBVIOUS
  <2>7. k \in 1 .. n /\ c \in Containers /\ st.loc[c] = x
    BY <2>2, <2>3, <2>6
  <2>8. f[k] = Moved(f[j], c, to)
    BY <1>4, <2>2, <2>3, <2>4, <2>6
  <2>9. First(k) = First(j) \cup {c}
    <3>1. \A i \in 1 .. k : i \in 1 .. j \/ i = k
      BY <2>4
    <3>2. \A i \in 1 .. j : i \in 1 .. k
      BY <2>4
    <3>3. k \in 1 .. k
      BY <2>7
    <3> QED
      BY <2>6, <3>1, <3>2, <3>3
  <2>10. c \notin First(j)
    <3>1. \A i \in 1 .. j : i \in 1 .. n /\ i # k
      BY <2>4, <2>7
    <3> QED
      BY <2>6, <2>7, <3>1
  <2>11. x \notin First(j)
    <3>1. \A i \in 1 .. j : i \in 1 .. n
      BY <2>4, <2>7
    <3>2. st.loc[x] # x
      BY <1>5, <2>7, NotAround
    <3> QED
      BY <3>1, <3>2
  <2> HIDE DEF First
  <2>12. PICK loc : loc = f[j].loc
    OBVIOUS
  <2>13. /\ loc \in Locations /\ Contained(loc) /\ loc[c] = x /\ loc[x] = to
    BY <2>5, <2>7, <2>10, <2>11, <2>12 DEF StateInTouch, ContainerStates
  <2>14. to \in Containers => loc[to] # Nowhere /\ c \notin Chain(loc, to)
    <3>1. to \in Containers => loc[to] # Nowhere
      BY <1>5, <2>5, <2>12 DEF Placed
    <3>2. to \in Containers => c \notin Chain(loc, to)
      BY <2>7, <2>13, NotAround
    <3> QED
      BY <3>1, <3>2
  <2>15. StateInTouch(f[k]) /\ f[k].loc = [loc EXCEPT ![c] = to]
    <3>1. StateInTouch(f[j])
      BY <2>5
    <3> QED
      BY <1>5, <2>7, <2>8, <2>12, <2>14, <3>1, MovedSound
  <2>16. \A e \in Containers : f[k].loc[e] = IF e = c THEN to ELSE loc[e]
    BY <2>7, <2>13, <2>15 DEF Locations
  <2> QED
    BY <2>2, <2>5, <2>9, <2>12, <2>15, <2>16
<1>7. Good(n)
  BY <1>6
<1>8. ASSUME NEW c \in Containers PROVE f[n].loc[c] # x
  <2>1. CASE c \in First(n)
    <3>1. PICK i \in 1 .. n : c = children[i]
      BY <2>1
    <3>2. st.loc[x] # x
      BY <1>5, <3>1, NotAround
    <3> QED
      BY <1>7, <2>1, <3>2
  <2>2. CASE c \notin First(n)
    BY <1>7, <2>2
  <2> QED
    BY <2>1, <2>2
<1> QED
  BY <1>3, <1>7, <1>8

-----------------------------------------------------------------------------
ContainersInv == StateInTouch(ContainersNow)

\* The state after an action is the one that was worked out.
LEMMA Becoming ==
    ASSUME NEW st, StateInTouch(st), ContainersBecome(st) PROVE ContainersInv'
<1>1. st \in ContainerStates
  BY DEF StateInTouch
<1>2. ContainersNow' = st
  BY <1>1 DEF ContainersNow, ContainersBecome, ContainerStates
<1> QED
  BY <1>2 DEF ContainersInv

LEMMA NowIs ==
    /\ ContainersNow.loc = inside /\ ContainersNow.reaching = m_reachingEntities
    /\ ContainersNow.active = m_activeContainers /\ ContainersNow.obs = m_closenessObservations
BY DEF ContainersNow

LEMMA SetObserversSound ==
    ASSUME ContainersInv, NEW c \in Containers, NEW os \in SUBSET Observers, SetObservers(c, os)
    PROVE  ContainersInv'
<1>1. PICK st : st = ContainersNow
  OBVIOUS
<1>2. PICK added : added = AddObservers(st, c, os \ st.reaching[c])
  OBVIOUS
<1>3. PICK pairs : pairs = {<<c, o>> : o \in st.reaching[c] \ os}
  OBVIOUS
<1>4. st.loc[c] # Nowhere /\ ContainersBecome(RemoveObserver(added, pairs))
  BY <1>1, <1>2, <1>3 DEF SetObservers
<1>5. StateInTouch(st)
  BY <1>1 DEF ContainersInv
<1>6. PICK more : more = os \ st.reaching[c]
  OBVIOUS
<1>7. more \in SUBSET Observers /\ more \cap st.reaching[c] = {}
  BY <1>6
<1>8. StateInTouch(added)
  BY <1>2, <1>4, <1>5, <1>6, <1>7, AddObserversSound
<1>9. StateInTouch(RemoveObserver(added, pairs))
  BY <1>8, RemoveObserverSound
<1> QED
  BY <1>4, <1>9, Becoming

LEMMA MoveContainerSound ==
    ASSUME ContainersInv, NEW x \in Containers, NEW to \in Domains, MoveContainer(x, to)
    PROVE  ContainersInv'
<1>1. PICK st : st = ContainersNow
  OBVIOUS
<1>2. StateInTouch(st) /\ st.loc = inside
  BY <1>1, NowIs DEF ContainersInv
<1>3. inside \in Locations
  BY <1>2 DEF StateInTouch, ContainerStates
<1>4. ContainersBecome(Moved(st, x, to))
  BY <1>1 DEF MoveContainer
<1>5. ASSUME to \in Containers PROVE x \notin Chain(inside, to)
  <2> SUFFICES ASSUME x \in Chain(inside, to) PROVE FALSE
    OBVIOUS
  <2>1. to # x /\ x \notin Holders(inside, to)
    BY <1>5 DEF MoveContainer
  <2> DEFINE E == Chain(inside, to) \ {x}
  <2>2. /\ Chain(inside, to) \subseteq Containers /\ to \in Chain(inside, to)
        /\ \A z \in Chain(inside, to) : inside[z] \in Containers => inside[z] \in Chain(inside, to)
    BY <1>5, ChainIs
  <2>3. x # Nowhere
    BY ContainersAssumption
  <2>4. \A z \in Chain(inside, to) : inside[z] # x
    BY <2>1, <2>3 DEF Holders
  <2>5. E \in SUBSET Containers /\ to \in E /\ \A z \in E : inside[z] \in Containers => inside[z] \in E
    BY <2>1, <2>2, <2>4
  <2>6. x \notin E
    OBVIOUS
  <2> HIDE DEF E
  <2>7. Chain(inside, to) \subseteq E
    BY <1>5, <2>5, ChainIs
  <2> QED
    BY <2>6, <2>7
<1>6. to \in Containers => st.loc[to] # Nowhere /\ x \notin Chain(st.loc, to)
  BY <1>2, <1>5 DEF MoveContainer
<1>7. to # Nowhere
  BY ContainersAssumption DEF Domains
<1>8. StateInTouch(Moved(st, x, to))
  BY <1>2, <1>6, <1>7, MovedSound
<1> QED
  BY <1>4, <1>8, Becoming

LEMMA DestroyContainerSound ==
    ASSUME ContainersInv, NEW x \in Containers, DestroyContainer(x)
    PROVE  ContainersInv'
<1>1. PICK st : st = ContainersNow
  OBVIOUS
<1>2. StateInTouch(st) /\ st.loc = inside
  BY <1>1, NowIs DEF ContainersInv
<1>3. PICK S : S = {c \in Containers : inside[c] = x}
  OBVIOUS
<1>4. PICK children \in SetToSeqs(S) :
         LET left == Moved(MovedOut(st, children, inside[x]), x, Nowhere)
         IN  ContainersBecome(RemoveObserver(left, {<<x, o>> : o \in left.reaching[x]}))
  BY <1>1, <1>3 DEF DestroyContainer
<1>5. PICK out : out = MovedOut(st, children, inside[x])
  OBVIOUS
<1>6. PICK left : left = Moved(out, x, Nowhere)
  OBVIOUS
<1>7. PICK pairs : pairs = {<<x, o>> : o \in left.reaching[x]}
  OBVIOUS
<1>8. ContainersBecome(RemoveObserver(left, pairs))
  BY <1>4, <1>5, <1>6, <1>7
<1>9. IsFiniteSet(S)
  BY <1>3, ContainersAssumption, FS_Subset
<1>10. /\ Len(children) \in Nat /\ \A i, j \in 1 .. Len(children) : i # j => children[i] # children[j]
       /\ S = {children[i] : i \in 1 .. Len(children)}
  BY <1>9, SetToSeqsAre
<1>11. StateInTouch(out) /\ \A c \in Containers : out.loc[c] # x
  <2>1. PICK n : n = Len(children)
    OBVIOUS
  <2>2. n \in Nat /\ \A i, j \in 1 .. n : i # j => children[i] # children[j]
    BY <1>10, <2>1
  <2>3. \A i \in 1 .. n : children[i] \in Containers /\ st.loc[children[i]] = x
    BY <1>2, <1>3, <1>10, <2>1
  <2>4. \A c \in Containers : st.loc[c] = x => c \in {children[i] : i \in 1 .. n}
    BY <1>2, <1>3, <1>10, <2>1
  <2>5. inside[x] # Nowhere
    BY DEF DestroyContainer
  <2>6. PICK to : to = inside[x]
    OBVIOUS
  <2>7. StateInTouch(st) /\ to = st.loc[x] /\ to # Nowhere /\ out = MovedOut(st, children, to)
    BY <1>2, <1>5, <2>5, <2>6
  <2> QED
    BY <2>1, <2>2, <2>3, <2>4, <2>7, MovedOutSound
<1>12. StateInTouch(left)
  <2>1. Nowhere \notin Containers
    BY ContainersAssumption
  <2> QED
    BY <1>6, <1>11, <2>1, MovedSound
<1>13. StateInTouch(RemoveObserver(left, pairs))
  BY <1>12, RemoveObserverSound
<1> QED
  BY <1>8, <1>13, Becoming

LEMMA ContainersInitSound ==
    ASSUME ContainersInit PROVE ContainersInv
<1>1. /\ inside \in Locations /\ m_reachingEntities \in [Containers -> SUBSET Observers]
      /\ m_activeContainers \in [Observers -> SUBSET Containers]
  BY DEF ContainersInit, Locations
<1>2. ContainersNow \in ContainerStates
  BY <1>1 DEF ContainersInit, ContainersNow, ContainerStates
<1>3. InTouch(inside, m_reachingEntities, m_activeContainers, m_closenessObservations)
  BY <1>1 DEF ContainersInit, InTouch
<1>4. Nowhere \notin Containers
  BY ContainersAssumption
<1>5. Placed(inside) /\ Contained(inside)
  BY <1>4 DEF ContainersInit, Placed, Contained
<1> QED
  BY <1>2, <1>3, <1>5, NowIs DEF ContainersInv, StateInTouch

LEMMA ContainersStep ==
    ASSUME ContainersInv, [ContainersNext]_containersVars PROVE ContainersInv'
<1>1. CASE UNCHANGED containersVars
  <2>1. ContainersNow' = ContainersNow
    BY <1>1 DEF containersVars, ContainersNow
  <2> QED
    BY <2>1 DEF ContainersInv
<1>2. ASSUME NEW pairs, ContainersBecome(RemoveObserver(ContainersNow, pairs)) PROVE ContainersInv'
  <2>1. StateInTouch(RemoveObserver(ContainersNow, pairs))
    BY RemoveObserverSound DEF ContainersInv
  <2> QED
    BY <1>2, <2>1, Becoming
<1>3. ASSUME NEW c \in Containers, NEW o \in Observers, CloseContainer(c, o) PROVE ContainersInv'
  BY <1>2, <1>3 DEF CloseContainer
<1>4. ASSUME NEW c \in Containers, NEW o \in Observers, OutOfReach(o, c) PROVE ContainersInv'
  BY <1>2, <1>4 DEF OutOfReach
<1>5. CASE ContainersNext
  BY <1>3, <1>4, <1>5, SetObserversSound, MoveContainerSound, DestroyContainerSound DEF ContainersNext
<1> QED
  BY <1>1, <1>5

LEMMA ContainersInvIsEnough ==
    ASSUME ContainersInv PROVE OpenOnlyInTouch
<1>1. /\ InTouch(inside, m_reachingEntities, m_activeContainers, m_closenessObservations)
      /\ inside \in Locations /\ m_reachingEntities \in [Containers -> SUBSET Observers]
  BY NowIs DEF ContainersInv, StateInTouch, ContainerStates, InTouch
<1>2. \A c \in Containers, o \in Observers : o \in m_reachingEntities[c] <=> c \in m_activeContainers[o]
  BY <1>1 DEF InTouch
<1>3. ASSUME NEW c \in Containers, NEW o \in m_reachingEntities[c]
      PROVE  /\ inside[c] # Nowhere
             /\ {d \in Domains : <<d, c, o>> \in m_closenessObservations} = Between(inside, c, o)
             /\ \A d \in Between(inside, c, o) : Observable(ContainersNow, d, o)
  <2>1. o \in Observers
    BY <1>1
  <2>2. OpenThrough(inside, m_reachingEntities, m_closenessObservations, c, o)
    BY <1>1, <2>1 DEF InTouch
  <2>3. Between(inside, c, o) = Holders(inside, c) /\ Holders(inside, c) \subseteq Domains
    BY <1>1, <2>1, BetweenIs, HoldersAre
  <2> QED
    BY <2>2, <2>3, NowIs DEF OpenThrough, Observable
<1> QED
  BY <1>2, <1>3 DEF OpenOnlyInTouch

\* Nobody looks into a container he has lost touch with, for any number of observers
\* and containers, however deep they are in one another and in whatever order they are
\* opened, closed, moved and destroyed (ContainerDomain.cpp: addObserver(),
\* removeObserver(), removeEntity(); PhysicalDomain.cpp: removeEntity(),
\* processMovedEntity(); Entity.cpp: destroy()).
THEOREM AlwaysInTouch == ContainersSpec => []OpenOnlyInTouch
<1>1. ContainersInit => ContainersInv
  BY ContainersInitSound
<1>2. ContainersInv /\ [ContainersNext]_containersVars => ContainersInv'
  BY ContainersStep
<1>3. ContainersInv => OpenOnlyInTouch
  BY ContainersInvIsEnough
<1> QED
  BY <1>1, <1>2, <1>3, PTL DEF ContainersSpec

-----------------------------------------------------------------------------
(* Garments *)

Modifiers == UNION {UNION {Range(Modify[g][value]) : value \in DOMAIN Modify[g]} : g \in Garments}

\* A list that has each of its modifiers once.
List(ms) == ms \in Seq(Modifiers) /\ IsInjective(ms)

LEMMA ModifyIs ==
    ASSUME NEW g \in Garments, NEW value \in DOMAIN Modify[g]
    PROVE  List(Modify[g][value]) /\ \A m \in Range(Modify[g][value]) : m.of = g
<1>1. PICK ms : ms = Modify[g][value]
  OBVIOUS
<1>2. ms \in Seq(Range(ms)) /\ IsInjective(ms) /\ \A m \in Range(ms) : m.of = g
  BY <1>1, GarmentsAssumption
<1>3. Range(ms) \subseteq Modifiers
  BY <1>1 DEF Modifiers
<1>4. ms \in Seq(Modifiers)
  BY <1>2, <1>3, SeqMonotonic
<1> QED
  BY <1>1, <1>2, <1>4 DEF List

\* Two lists that have nothing in common, one behind the other.
LEMMA ListsJoined ==
    ASSUME NEW s, NEW t, List(s), List(t), Range(s) \cap Range(t) = {}
    PROVE  List(s \o t) /\ Range(s \o t) = Range(s) \cup Range(t)
<1>1. s \in Seq(Modifiers) /\ t \in Seq(Modifiers) /\ IsInjective(s) /\ IsInjective(t)
  BY DEF List
<1>2. PICK u : u = s \o t
  OBVIOUS
<1>3. /\ u \in Seq(Modifiers) /\ Len(u) = Len(s) + Len(t)
      /\ \A i \in 1 .. Len(s) + Len(t) : u[i] = IF i <= Len(s) THEN s[i] ELSE t[i - Len(s)]
  BY <1>1, <1>2, ConcatProperties
<1>4. /\ DOMAIN u = 1 .. Len(s) + Len(t) /\ DOMAIN s = 1 .. Len(s) /\ DOMAIN t = 1 .. Len(t)
      /\ Len(s) \in Nat /\ Len(t) \in Nat
  BY <1>1, <1>3, LenProperties
<1>5. \A i \in DOMAIN u : (i \in DOMAIN s /\ u[i] = s[i]) \/ (i - Len(s) \in DOMAIN t /\ u[i] = t[i - Len(s)])
  BY <1>3, <1>4
<1>6. Range(u) = Range(s) \cup Range(t)
  <2>1. ASSUME NEW x \in Range(u) PROVE x \in Range(s) \cup Range(t)
    BY <1>5 DEF Range
  <2>2. ASSUME NEW x \in Range(s) PROVE x \in Range(u)
    <3>1. PICK i \in DOMAIN s : x = s[i]
      BY DEF Range
    <3>2. i \in DOMAIN u /\ u[i] = x
      BY <1>3, <1>4, <3>1
    <3> QED
      BY <3>2 DEF Range
  <2>3. ASSUME NEW x \in Range(t) PROVE x \in Range(u)
    <3>1. PICK i \in DOMAIN t : x = t[i]
      BY DEF Range
    <3>2. PICK j \in Int : j = Len(s) + i
      BY <1>4, <3>1
    <3>3. j \in DOMAIN u /\ ~ (j <= Len(s)) /\ j - Len(s) = i
      BY <1>4, <3>1, <3>2
    <3>4. u[j] = x
      BY <1>3, <1>4, <3>1, <3>3
    <3> QED
      BY <3>3, <3>4 DEF Range
  <2> QED
    BY <2>1, <2>2, <2>3
<1>7. IsInjective(u)
  <2> SUFFICES ASSUME NEW i \in DOMAIN u, NEW j \in DOMAIN u, u[i] = u[j] PROVE i = j
    BY DEF IsInjective
  <2>1. CASE i \in DOMAIN s /\ u[i] = s[i] /\ j \in DOMAIN s /\ u[j] = s[j]
    BY <1>1, <2>1 DEF IsInjective
  <2>2. CASE i - Len(s) \in DOMAIN t /\ u[i] = t[i - Len(s)] /\ j - Len(s) \in DOMAIN t /\ u[j] = t[j - Len(s)]
    <3>1. i - Len(s) = j - Len(s)
      BY <1>1, <2>2 DEF IsInjective
    <3> QED
      BY <1>4, <3>1
  <2>3. \A a \in DOMAIN s, b \in DOMAIN t : s[a] # t[b]
    BY DEF Range
  <2> QED
    BY <1>5, <2>1, <2>2, <2>3
<1> QED
  BY <1>2, <1>3, <1>6, <1>7 DEF List

\* f[i] are those in S of the first i of ms.
Keeps(f, ms, S, n) ==
    f = [i \in 0 .. n |->
           IF i = 0 THEN <<>> ELSE IF ms[i] \in S THEN Append(f[i - 1], ms[i]) ELSE f[i - 1]]

LEMMA KeepsExists ==
    ASSUME NEW ms, NEW S, NEW n \in Nat PROVE \E f : Keeps(f, ms, S, n)
<1> DEFINE Bad == {k \in Nat : ~ \E f : Keeps(f, ms, S, k)}
<1> SUFFICES ASSUME Bad # {} PROVE FALSE
  OBVIOUS
<1>1. PICK k \in Bad : \A j \in Bad : k <= j
  <2>1. Bad \subseteq Nat
    OBVIOUS
  <2> HIDE DEF Bad
  <2> QED
    BY <2>1, LeastNumber
<1>2. k \in Nat /\ ~ \E f : Keeps(f, ms, S, k)
  BY <1>1
<1>3. k # 0
  <2>1. PICK g : g = [i \in 0 .. 0 |-> <<>>]
    OBVIOUS
  <2>2. g = [i \in 0 .. 0 |-> IF i = 0 THEN <<>> ELSE IF ms[i] \in S THEN Append(g[i - 1], ms[i]) ELSE g[i - 1]]
    BY <2>1
  <2> QED
    BY <1>2, <2>2 DEF Keeps
<1>4. PICK j \in Nat : k = j + 1
  BY <1>2, <1>3
<1>5. PICK f : Keeps(f, ms, S, j)
  BY <1>1, <1>2, <1>4
<1>6. PICK g : g = [i \in 0 .. (j + 1) |->
                      IF i = 0 THEN <<>> ELSE IF ms[i] \in S THEN Append(f[i - 1], ms[i]) ELSE f[i - 1]]
  OBVIOUS
<1>7. ASSUME NEW i \in 0 .. j PROVE g[i] = f[i]
  <2>1. f[i] = IF i = 0 THEN <<>> ELSE IF ms[i] \in S THEN Append(f[i - 1], ms[i]) ELSE f[i - 1]
    BY <1>5 DEF Keeps
  <2>2. i \in 0 .. (j + 1)
    BY <1>4
  <2> QED
    BY <1>6, <2>1, <2>2
<1>8. g = [i \in 0 .. (j + 1) |->
             IF i = 0 THEN <<>> ELSE IF ms[i] \in S THEN Append(g[i - 1], ms[i]) ELSE g[i - 1]]
  <2>1. ASSUME NEW i \in 0 .. (j + 1), i # 0 PROVE g[i - 1] = f[i - 1]
    <3>1. i - 1 \in 0 .. j
      BY <1>4, <2>1
    <3> QED
      BY <1>7, <3>1
  <2> QED
    BY <1>6, <2>1
<1> QED
  BY <1>2, <1>4, <1>8 DEF Keeps

\* A list becomes one longer.
LEMMA Longer ==
    ASSUME NEW s, List(s), NEW m \in Modifiers, m \notin Range(s)
    PROVE  List(Append(s, m)) /\ Range(Append(s, m)) = Range(s) \cup {m}
<1>1. s \in Seq(Modifiers)
  BY DEF List
<1>2. Append(s, m) = s \o <<m>>
  BY <1>1
<1>3. List(<<m>>) /\ Range(<<m>>) = {m}
  BY DEF List, IsInjective, Range
<1> QED
  BY <1>2, <1>3, ListsJoined

LEMMA OnlyIs ==
    ASSUME NEW ms, List(ms), NEW S
    PROVE  List(Only(ms, S)) /\ Range(Only(ms, S)) = Range(ms) \cap S
<1>1. Len(ms) \in Nat /\ DOMAIN ms = 1 .. Len(ms) /\ \A i \in 1 .. Len(ms) : ms[i] \in Modifiers
  BY LenProperties DEF List
<1>2. PICK f : f = CHOOSE h : h = [i \in 0 .. Len(ms) |->
                 IF i = 0 THEN <<>> ELSE IF ms[i] \in S THEN Append(h[i - 1], ms[i]) ELSE h[i - 1]]
  OBVIOUS
<1>3. Keeps(f, ms, S, Len(ms)) /\ Only(ms, S) = f[Len(ms)]
  <2>0. \E h : h = [i \in 0 .. Len(ms) |->
                 IF i = 0 THEN <<>> ELSE IF ms[i] \in S THEN Append(h[i - 1], ms[i]) ELSE h[i - 1]]
    <3>1. \E h : Keeps(h, ms, S, Len(ms))
      BY <1>1, KeepsExists
    <3> QED
      BY <3>1 DEF Keeps
  <2>1. Keeps(f, ms, S, Len(ms))
    BY <1>2, <2>0 DEF Keeps
  <2>2. Only(ms, S) = f[Len(ms)]
    BY <1>2 DEF Only
  <2> QED
    BY <2>1, <2>2
<1>4. \A i \in 0 .. Len(ms) :
         f[i] = IF i = 0 THEN <<>> ELSE IF ms[i] \in S THEN Append(f[i - 1], ms[i]) ELSE f[i - 1]
  BY <1>3 DEF Keeps
<1> DEFINE First(k) == {ms[i] : i \in 1 .. k}
           Good(k) == List(f[k]) /\ Range(f[k]) = First(k) \cap S
           Bad == {k \in Nat : k \in 0 .. Len(ms) /\ ~ Good(k)}
<1>5. Bad = {}
  <2> SUFFICES ASSUME Bad # {} PROVE FALSE
    OBVIOUS
  <2>1. PICK k \in Bad : \A j \in Bad : k <= j
    <3>1. Bad \subseteq Nat
      OBVIOUS
    <3> HIDE DEF Bad
    <3> QED
      BY <3>1, LeastNumber
  <2>2. k \in Nat /\ k \in 0 .. Len(ms) /\ ~ Good(k)
    BY <2>1
  <2>3. k # 0
    <3>1. f[0] = <<>>
      BY <1>1, <1>4
    <3>2. List(<<>>) /\ Range(<<>>) = {} /\ First(0) = {}
      BY DEF List, IsInjective, Range
    <3> QED
      BY <2>2, <3>1, <3>2
  <2>4. PICK j \in Nat : k = j + 1 /\ j \in 0 .. Len(ms) /\ j = k - 1
    BY <1>1, <2>2, <2>3
  <2>5. Good(j)
    BY <2>1, <2>4
  <2>6. k \in 1 .. Len(ms) /\ ms[k] \in Modifiers /\ k \in DOMAIN ms
    BY <1>1, <2>2, <2>3
  <2>7. f[k] = IF ms[k] \in S THEN Append(f[j], ms[k]) ELSE f[j]
    BY <1>4, <2>2, <2>3, <2>4
  <2>8. First(k) = First(j) \cup {ms[k]}
    <3>1. \A i \in 1 .. k : i \in 1 .. j \/ i = k
      BY <2>4
    <3>2. \A i \in 1 .. j : i \in 1 .. k
      BY <2>4
    <3>3. k \in 1 .. k
      BY <2>6
    <3> QED
      BY <3>1, <3>2, <3>3
  <2>9. ms[k] \notin First(j)
    <3>1. \A i \in 1 .. j : i \in DOMAIN ms /\ i # k
      BY <1>1, <2>4, <2>6
    <3> QED
      BY <2>6, <3>1 DEF List, IsInjective
  <2> HIDE DEF First
  <2>10. CASE ms[k] \in S
    <3>1. ms[k] \notin Range(f[j])
      BY <2>5, <2>9
    <3>2. List(Append(f[j], ms[k])) /\ Range(Append(f[j], ms[k])) = Range(f[j]) \cup {ms[k]}
      BY <2>5, <2>6, <3>1, Longer
    <3> QED
      BY <2>2, <2>5, <2>7, <2>8, <2>10, <3>2
  <2>11. CASE ms[k] \notin S
    BY <2>2, <2>5, <2>7, <2>8, <2>11
  <2> QED
    BY <2>10, <2>11
<1>6. Good(Len(ms))
  BY <1>1, <1>5
<1>7. First(Len(ms)) = Range(ms)
  BY <1>1 DEF Range
<1> QED
  BY <1>3, <1>6, <1>7

LEMMA CheckedIs ==
    ASSUME NEW ms, List(ms), NEW g \in Garments, NEW value \in DOMAIN Modify[g],
           NEW active, active \subseteq Range(Modify[g][value])
    PROVE  /\ List(Checked(ms, g, value, active))
           /\ Of(Checked(ms, g, value, active), g) = active
           /\ \A h : h # g => Of(Checked(ms, g, value, active), h) = Of(ms, h)
<1> DEFINE kept == Only(ms, (Range(ms) \ Of(ms, g)) \cup active)
           added == Only(Modify[g][value], active \ Of(ms, g))
<1>1. List(kept) /\ Range(kept) = Range(ms) \cap ((Range(ms) \ Of(ms, g)) \cup active)
  BY OnlyIs
<1>2. List(Modify[g][value]) /\ \A m \in Range(Modify[g][value]) : m.of = g
  BY ModifyIs
<1>3. List(added) /\ Range(added) = active \ Of(ms, g)
  BY <1>2, OnlyIs
<1>4. Checked(ms, g, value, active) = kept \o added
  BY DEF Checked
<1> HIDE DEF kept, added
<1>5. Range(kept) \cap Range(added) = {}
  BY <1>1, <1>2, <1>3 DEF Of
<1>6. List(kept \o added) /\ Range(kept \o added) = Range(kept) \cup Range(added)
  BY <1>1, <1>3, <1>5, ListsJoined
<1>7. PICK R : R = Range(ms)
  OBVIOUS
<1>8. PICK Q : Q = Range(kept \o added)
  OBVIOUS
<1>9. Q = (R \cap ((R \ {m \in R : m.of = g}) \cup active)) \cup (active \ {m \in R : m.of = g})
  BY <1>1, <1>3, <1>6, <1>7, <1>8 DEF Of
<1>10. \A m \in active : m.of = g
  BY <1>2
<1>11. {m \in Q : m.of = g} = active
  BY <1>9, <1>10
<1>12. ASSUME NEW h, h # g PROVE {m \in Q : m.of = h} = {m \in R : m.of = h}
  BY <1>9, <1>10, <1>12
<1> QED
  BY <1>4, <1>6, <1>7, <1>8, <1>11, <1>12 DEF Of

LEMMA UnwornIs ==
    ASSUME NEW ms, List(ms), NEW g
    PROVE  /\ List(Unworn(ms, g))
           /\ Of(Unworn(ms, g), g) = {}
           /\ \A h : h # g => Of(Unworn(ms, g), h) = Of(ms, h)
<1>1. List(Unworn(ms, g)) /\ Range(Unworn(ms, g)) = Range(ms) \cap (Range(ms) \ Of(ms, g))
  BY OnlyIs DEF Unworn
<1> QED
  BY <1>1 DEF Of

\* With no modifiers the value is the base value.
LEMMA FoldedNone ==
    ASSUME NEW value PROVE Folded(value, <<>>) = value
<1>1. PICK f : f = CHOOSE made : made = [i \in 0 .. Len(<<>>) |->
                     IF i = 0 THEN value ELSE Process(made[i - 1], <<>>[i])]
  OBVIOUS
<1>2. Len(<<>>) = 0
  OBVIOUS
<1>3. \E made : made = [i \in 0 .. Len(<<>>) |->
                     IF i = 0 THEN value ELSE Process(made[i - 1], <<>>[i])]
  <2>1. PICK made : made = [i \in 0 .. 0 |-> value]
    OBVIOUS
  <2>2. made = [i \in 0 .. Len(<<>>) |-> IF i = 0 THEN value ELSE Process(made[i - 1], <<>>[i])]
    BY <1>2, <2>1
  <2> QED
    BY <2>2
<1>4. f = [i \in 0 .. Len(<<>>) |-> IF i = 0 THEN value ELSE Process(f[i - 1], <<>>[i])]
  BY <1>1, <1>3
<1>5. f[0] = value
  BY <1>2, <1>4
<1> QED
  BY <1>1, <1>2, <1>5 DEF Folded

-----------------------------------------------------------------------------
\* f[i] are the modifiers of w when the first i garments have checked theirs.
Checks(f, w, gs, n) ==
    f = [i \in 0 .. n |->
           IF i = 0 THEN worn[w]
           ELSE Checked(f[i - 1], gs[i], Listening(gs[i]), Active(gs[i], w, Listening(gs[i])))]

LEMMA ChecksExist ==
    ASSUME NEW w, NEW gs, NEW n \in Nat PROVE \E f : Checks(f, w, gs, n)
<1> DEFINE Bad == {k \in Nat : ~ \E f : Checks(f, w, gs, k)}
<1> SUFFICES ASSUME Bad # {} PROVE FALSE
  OBVIOUS
<1>1. PICK k \in Bad : \A j \in Bad : k <= j
  <2>1. Bad \subseteq Nat
    OBVIOUS
  <2> HIDE DEF Bad
  <2> QED
    BY <2>1, LeastNumber
<1>2. k \in Nat /\ ~ \E f : Checks(f, w, gs, k)
  BY <1>1
<1>3. k # 0
  <2>1. PICK g : g = [i \in 0 .. 0 |-> worn[w]]
    OBVIOUS
  <2>2. g = [i \in 0 .. 0 |-> IF i = 0 THEN worn[w] ELSE Checked(g[i - 1], gs[i], Listening(gs[i]), Active(gs[i], w, Listening(gs[i])))]
    BY <2>1
  <2> QED
    BY <1>2, <2>2 DEF Checks
<1>4. PICK j \in Nat : k = j + 1
  BY <1>2, <1>3
<1>5. PICK f : Checks(f, w, gs, j)
  BY <1>1, <1>2, <1>4
<1>6. PICK g : g = [i \in 0 .. (j + 1) |-> IF i = 0 THEN worn[w] ELSE Checked(f[i - 1], gs[i], Listening(gs[i]), Active(gs[i], w, Listening(gs[i])))]
  OBVIOUS
<1>7. ASSUME NEW i \in 0 .. j PROVE g[i] = f[i]
  <2>1. f[i] = IF i = 0 THEN worn[w] ELSE Checked(f[i - 1], gs[i], Listening(gs[i]), Active(gs[i], w, Listening(gs[i])))
    BY <1>5 DEF Checks
  <2>2. i \in 0 .. (j + 1)
    BY <1>4
  <2> QED
    BY <1>6, <2>1, <2>2
<1>8. g = [i \in 0 .. (j + 1) |-> IF i = 0 THEN worn[w] ELSE Checked(g[i - 1], gs[i], Listening(gs[i]), Active(gs[i], w, Listening(gs[i])))]
  <2>1. ASSUME NEW i \in 0 .. (j + 1), i # 0 PROVE g[i - 1] = f[i - 1]
    <3>1. i - 1 \in 0 .. j
      BY <1>4, <2>1
    <3> QED
      BY <1>7, <3>1
  <2> QED
    BY <1>6, <2>1
<1> QED
  BY <1>2, <1>4, <1>8 DEF Checks

\* All garments in gs have checked theirs, and nothing else has changed.
LEMMA CheckedByIs ==
    ASSUME NEW w, List(worn[w]), NEW gs, NEW n \in Nat, n = Len(gs),
           \A i \in 1 .. n : gs[i] \in Garments /\ Listening(gs[i]) \in DOMAIN Modify[gs[i]]
    PROVE  /\ List(CheckedBy(w, gs))
           /\ \A i \in 1 .. n : Of(CheckedBy(w, gs), gs[i]) = Active(gs[i], w, Listening(gs[i]))
           /\ \A h : h \notin {gs[i] : i \in 1 .. n} => Of(CheckedBy(w, gs), h) = Of(worn[w], h)
<1>1. PICK f : f = CHOOSE h : h = [i \in 0 .. Len(gs) |-> IF i = 0 THEN worn[w] ELSE Checked(h[i - 1], gs[i], Listening(gs[i]), Active(gs[i], w, Listening(gs[i])))]
  OBVIOUS
<1>2. Checks(f, w, gs, n)
  <2>1. \E h : Checks(h, w, gs, n)
    BY ChecksExist
  <2>2. \E h : h = [i \in 0 .. Len(gs) |-> IF i = 0 THEN worn[w] ELSE Checked(h[i - 1], gs[i], Listening(gs[i]), Active(gs[i], w, Listening(gs[i])))]
    BY <2>1 DEF Checks
  <2> QED
    BY <1>1, <2>2 DEF Checks
<1>3. CheckedBy(w, gs) = f[n]
  BY <1>1 DEF CheckedBy
<1>4. \A i \in 0 .. n : f[i] = IF i = 0 THEN worn[w] ELSE Checked(f[i - 1], gs[i], Listening(gs[i]), Active(gs[i], w, Listening(gs[i])))
  BY <1>2 DEF Checks
<1>5. ASSUME NEW i \in 1 .. n PROVE Active(gs[i], w, Listening(gs[i])) \subseteq Range(Modify[gs[i]][Listening(gs[i])])
  BY DEF Active
<1> DEFINE First(k) == {gs[i] : i \in 1 .. k}
           Good(k) == /\ List(f[k])
                      /\ \A h \in First(k) : Of(f[k], h) = Active(h, w, Listening(h))
                      /\ \A h : h \notin First(k) => Of(f[k], h) = Of(worn[w], h)
           Bad == {k \in Nat : k \in 0 .. n /\ ~ Good(k)}
<1>6. Bad = {}
  <2> SUFFICES ASSUME Bad # {} PROVE FALSE
    OBVIOUS
  <2>1. PICK k \in Bad : \A j \in Bad : k <= j
    <3>1. Bad \subseteq Nat
      OBVIOUS
    <3> HIDE DEF Bad
    <3> QED
      BY <3>1, LeastNumber
  <2>2. k \in Nat /\ k \in 0 .. n /\ ~ Good(k)
    BY <2>1
  <2>3. k # 0
    <3>1. f[0] = worn[w]
      BY <1>4
    <3>2. First(0) = {}
      OBVIOUS
    <3> QED
      BY <2>2, <3>1, <3>2
  <2>4. PICK j \in Nat : k = j + 1 /\ j \in 0 .. n /\ j = k - 1
    BY <2>2, <2>3
  <2>5. Good(j)
    BY <2>1, <2>4
  <2>6. PICK g : g = gs[k]
    OBVIOUS
  <2>7. k \in 1 .. n /\ g \in Garments /\ Listening(g) \in DOMAIN Modify[g]
        /\ Active(g, w, Listening(g)) \subseteq Range(Modify[g][Listening(g)])
    BY <1>5, <2>2, <2>3, <2>6
  <2>8. f[k] = Checked(f[j], g, Listening(g), Active(g, w, Listening(g)))
    BY <1>4, <2>2, <2>3, <2>4, <2>6
  <2>9. First(k) = First(j) \cup {g}
    <3>1. \A i \in 1 .. k : i \in 1 .. j \/ i = k
      BY <2>4
    <3>2. \A i \in 1 .. j : i \in 1 .. k
      BY <2>4
    <3>3. k \in 1 .. k
      BY <2>7
    <3> QED
      BY <2>6, <3>1, <3>2, <3>3
  <2> HIDE DEF First
  <2>10. /\ List(f[k])
         /\ Of(f[k], g) = Active(g, w, Listening(g))
         /\ \A h : h # g => Of(f[k], h) = Of(f[j], h)
    BY <2>5, <2>7, <2>8, CheckedIs
  <2> QED
    BY <2>2, <2>5, <2>9, <2>10
<1>7. Good(n)
  BY <1>6
<1> QED
  BY <1>3, <1>7

-----------------------------------------------------------------------------
\* The modifiers of g that are active for w.
Works(g, w) == {m \in Range(Modify[g][modify[g]]) : m.needs = Nil \/ attached[w][m.needs] = g}

GarmentsTypes ==
    /\ parent \in [Garments -> Wearers \cup {Outside, Nil}]
    /\ attached \in [Wearers -> [Points -> Garments \cup {Nil}]]
    /\ planted \in [Garments -> {Nil} \cup (Wearers \X Points)]
    /\ DOMAIN modify = Garments /\ modify = [g \in Garments |-> modify[g]]
    /\ \A g \in Garments : modify[g] \in DOMAIN Modify[g]

WearersTypes ==
    /\ worn = [w \in Wearers |-> worn[w]] /\ base = [w \in Wearers |-> base[w]]
    /\ armor = [w \in Wearers |-> armor[w]] /\ plain = [w \in Wearers |-> plain[w]]

\* The value of a wearer is what its modifiers make of the plain one, which is kept
\* as the base value as long as there are any.
ValueSound(w) ==
    /\ List(worn[w])
    /\ armor[w] = Folded(plain[w], worn[w])
    /\ worn[w] # <<>> => base[w] = plain[w]

\* A wearer has the active modifiers of a garment that is with it, and no others.
\* What a garment does whose type's default listens in its place is left open.
GarmentSound(w, g) ==
    /\ parent[g] # w => Of(worn[w], g) = {}
    /\ (parent[g] = w /\ (g \in Shared => modify[g] = 0)) => Of(worn[w], g) = Works(g, w)

DestroyedIsFree == \A g \in Garments : parent[g] = Nil => planted[g] = Nil

WearersSound == \A w \in Wearers : ValueSound(w) /\ \A g \in Garments : GarmentSound(w, g)

GarmentsInv ==
    /\ GarmentsTypes /\ WearersTypes
    /\ PlantedIsAttached /\ DestroyedIsFree
    /\ WearersSound

\* The value is made anew from the base value, or the base value is taken first.
LEMMA ValueMade ==
    ASSUME NEW old, NEW p, NEW b, NEW a, NEW ms, NEW c, NEW v,
           a = Folded(p, old), old # <<>> => b = p,
           c = IF old = <<>> THEN a ELSE b,
           v = IF old = ms THEN a ELSE Folded(c, ms)
    PROVE  v = Folded(p, ms) /\ c = p
<1>1. c = p
  BY FoldedNone
<1> QED
  BY <1>1

LEMMA ListeningIs ==
    ASSUME GarmentsTypes, NEW g \in Garments
    PROVE  Listening(g) \in DOMAIN Modify[g] /\ ((g \in Shared => modify[g] = 0) => Listening(g) = modify[g])
BY GarmentsAssumption DEF GarmentsTypes, Listening

\* Wears() for one wearer: the others keep what they have.
LEMMA WearsIs ==
    ASSUME GarmentsInv, NEW w \in Wearers, NEW ms, List(ms), Wears(w, ms), UNCHANGED plain
    PROVE  /\ WearersTypes'
           /\ \A v \in Wearers : ValueSound(v)'
           /\ worn'[w] = ms /\ \A v \in Wearers : v # w => worn'[v] = worn[v]
<1>1. WearersTypes /\ \A v \in Wearers : ValueSound(v)
  BY DEF GarmentsInv, WearersSound
<1>2. PICK b, a : /\ b = IF worn[w] = <<>> THEN armor[w] ELSE base[w]
                  /\ a = IF worn[w] = ms THEN armor[w] ELSE Folded(b, ms)
  OBVIOUS
<1>3. base' = [base EXCEPT ![w] = b]
  BY <1>2 DEF Wears
<1>4. base'[w] = b
  BY <1>1, <1>3 DEF WearersTypes
<1>5. armor' = [armor EXCEPT ![w] = a]
  <2>1. armor' = [armor EXCEPT ![w] = IF worn[w] = ms THEN armor[w] ELSE Folded(base'[w], ms)]
    BY DEF Wears
  <2>2. a = IF worn[w] = ms THEN armor[w] ELSE Folded(base'[w], ms)
    BY <1>2, <1>4
  <2> QED
    BY <2>1, <2>2
<1>6. worn' = [worn EXCEPT ![w] = ms]
  BY DEF Wears
<1>7. /\ worn'[w] = ms /\ base'[w] = b /\ armor'[w] = a /\ plain' = plain
      /\ \A v \in Wearers : v # w => worn'[v] = worn[v] /\ base'[v] = base[v] /\ armor'[v] = armor[v]
  BY <1>1, <1>3, <1>5, <1>6 DEF WearersTypes
<1>8. WearersTypes'
  BY <1>1, <1>3, <1>5, <1>6 DEF WearersTypes
<1>9. a = Folded(plain[w], ms) /\ b = plain[w]
  <2>1. armor[w] = Folded(plain[w], worn[w]) /\ (worn[w] # <<>> => base[w] = plain[w])
    BY <1>1 DEF ValueSound
  <2> QED
    BY <1>2, <2>1, ValueMade
<1>10. ASSUME NEW v \in Wearers PROVE ValueSound(v)'
  <2>1. CASE v = w
    BY <1>7, <1>9, <2>1 DEF ValueSound
  <2>2. CASE v # w
    BY <1>1, <1>7, <2>2 DEF ValueSound
  <2> QED
    BY <2>1, <2>2
<1> QED
  BY <1>7, <1>8, <1>10

LEMMA CheckAllSound ==
    ASSUME GarmentsInv, NEW w \in Wearers, CheckAll(w), UNCHANGED <<parent, modify, plain>>,
           \A v \in Wearers : v # w => attached'[v] = attached[v]
    PROVE  WearersTypes' /\ WearersSound'
<1>1. GarmentsTypes /\ WearersSound
  BY DEF GarmentsInv
<1> DEFINE S == {g \in Garments : parent[g] = w}
<1>2. PICK gs \in SetToSeqs(S) : Wears(w, CheckedBy(w, gs))
  BY DEF CheckAll
<1>3. IsFiniteSet(S)
  BY GarmentsAssumption, FS_Subset
<1>4. PICK n : n = Len(gs)
  OBVIOUS
<1>5. n \in Nat /\ S = {gs[i] : i \in 1 .. n}
  <2> HIDE DEF S
  <2> QED
    BY <1>2, <1>3, <1>4, SetToSeqsAre
<1>6. \A i \in 1 .. n : gs[i] \in Garments
  BY <1>5
<1>7. PICK ms : ms = CheckedBy(w, gs)
  OBVIOUS
<1>8. /\ List(ms)
      /\ \A i \in 1 .. n : Of(ms, gs[i]) = Active(gs[i], w, Listening(gs[i]))
      /\ \A h : h \notin {gs[i] : i \in 1 .. n} => Of(ms, h) = Of(worn[w], h)
  <2>1. List(worn[w])
    BY <1>1 DEF WearersSound, ValueSound
  <2>2. \A i \in 1 .. n : gs[i] \in Garments /\ Listening(gs[i]) \in DOMAIN Modify[gs[i]]
    BY <1>1, <1>6, ListeningIs
  <2> QED
    BY <1>4, <1>5, <1>7, <2>1, <2>2, CheckedByIs
<1>9. \A g \in S : Of(ms, g) = Active(g, w, Listening(g))
  BY <1>5, <1>8
<1>10. \A g : g \notin S => Of(ms, g) = Of(worn[w], g)
  BY <1>5, <1>8
<1>11. /\ WearersTypes' /\ \A v \in Wearers : ValueSound(v)'
       /\ worn'[w] = ms /\ \A v \in Wearers : v # w => worn'[v] = worn[v]
  BY <1>2, <1>7, <1>8, WearsIs
<1>12. ASSUME NEW v \in Wearers, NEW g \in Garments PROVE GarmentSound(v, g)'
  <2>1. GarmentSound(v, g)
    BY <1>1 DEF WearersSound
  <2>2. CASE v # w
    BY <1>11, <2>1, <2>2 DEF GarmentSound, Works
  <2>3. CASE v = w /\ parent[g] = w
    <3>1. Of(worn'[w], g) = Active(g, w, Listening(g))
      BY <1>9, <1>11, <2>3
    <3>2. (g \in Shared => modify[g] = 0) => Listening(g) = modify[g]
      BY <1>1, ListeningIs
    <3> QED
      BY <2>3, <3>1, <3>2 DEF GarmentSound, Works, Active
  <2>4. CASE v = w /\ parent[g] # w
    BY <1>10, <1>11, <2>1, <2>4 DEF GarmentSound
  <2> QED
    BY <2>2, <2>3, <2>4
<1> QED
  BY <1>11, <1>12 DEF WearersSound

LEMMA UnwieldSound ==
    ASSUME GarmentsInv, NEW w \in Wearers, NEW p \in Points, Unwield(w, p)
    PROVE  GarmentsInv'
<1>1. GarmentsTypes /\ PlantedIsAttached /\ DestroyedIsFree
  BY DEF GarmentsInv
<1>2. PICK old : old = attached[w][p]
  OBVIOUS
<1>3. /\ attached' = [attached EXCEPT ![w][p] = Nil] /\ planted' = Reset(old, planted)
      /\ CheckAll(w) /\ UNCHANGED <<parent, modify, plain>>
  BY <1>2 DEF Unwield
<1>4. old \in Garments \cup {Nil}
  BY <1>1, <1>2 DEF GarmentsTypes
<1>5. /\ attached' \in [Wearers -> [Points -> Garments \cup {Nil}]]
      /\ \A v \in Wearers, q \in Points : attached'[v][q] = IF v = w /\ q = p THEN Nil ELSE attached[v][q]
  BY <1>1, <1>3 DEF GarmentsTypes
<1>6. \A v \in Wearers : v # w => attached'[v] = attached[v]
  BY <1>1, <1>3 DEF GarmentsTypes
<1>7. /\ planted' \in [Garments -> {Nil} \cup (Wearers \X Points)]
      /\ \A g \in Garments : planted'[g] = IF g = old /\ parent[g] # Nil THEN Nil ELSE planted[g]
  BY <1>1, <1>3, <1>4, GarmentsAssumption DEF GarmentsTypes, Reset
<1>8. GarmentsTypes'
  BY <1>1, <1>3, <1>5, <1>7 DEF GarmentsTypes
<1>9. DestroyedIsFree'
  BY <1>1, <1>3, <1>7 DEF DestroyedIsFree
<1>10. PlantedIsAttached'
  <2> SUFFICES ASSUME NEW g \in Garments, planted'[g] # Nil
               PROVE  attached'[planted'[g][1]][planted'[g][2]] = g
    BY DEF PlantedIsAttached
  <2>1. planted'[g] = planted[g] /\ (g = old => parent[g] = Nil)
    BY <1>7
  <2>2. PICK v \in Wearers, q \in Points : planted[g] = <<v, q>>
    BY <1>1, <2>1 DEF GarmentsTypes
  <2>3. attached[v][q] = g
    BY <1>1, <2>1, <2>2 DEF PlantedIsAttached
  <2>4. g # old
    BY <1>1, <2>1 DEF DestroyedIsFree
  <2>5. ~ (v = w /\ q = p)
    BY <1>2, <2>3, <2>4
  <2> QED
    BY <1>5, <2>1, <2>2, <2>3, <2>5
<1>11. WearersTypes' /\ WearersSound'
  BY <1>3, <1>6, CheckAllSound
<1> QED
  BY <1>8, <1>9, <1>10, <1>11 DEF GarmentsInv

LEMMA WieldSound ==
    ASSUME GarmentsInv, NEW w \in Wearers, NEW p \in Points, NEW g \in Garments, Wield(w, p, g)
    PROVE  GarmentsInv'
<1>1. GarmentsTypes /\ PlantedIsAttached /\ DestroyedIsFree
  BY DEF GarmentsInv
<1>2. PICK old : old = attached[w][p]
  OBVIOUS
<1>3. PICK row : row = [q \in Points |-> IF q = p THEN g ELSE IF planted[g] = <<w, q>> THEN Nil ELSE attached[w][q]]
  OBVIOUS
<1>4. PICK data : data = [planted EXCEPT ![g] = <<w, p>>]
  OBVIOUS
<1>5. /\ parent[g] # Nil /\ old # g
      /\ attached' = [attached EXCEPT ![w] = row] /\ planted' = Reset(old, data)
      /\ CheckAll(w) /\ UNCHANGED <<parent, modify, plain>>
  BY <1>2, <1>3, <1>4 DEF Wield
<1>6. old \in Garments \cup {Nil}
  BY <1>1, <1>2 DEF GarmentsTypes
<1>7. row \in [Points -> Garments \cup {Nil}]
  BY <1>1, <1>3 DEF GarmentsTypes
<1>8. /\ attached' \in [Wearers -> [Points -> Garments \cup {Nil}]]
      /\ attached'[w] = row /\ \A v \in Wearers : v # w => attached'[v] = attached[v]
  BY <1>1, <1>5, <1>7 DEF GarmentsTypes
<1>9. /\ data \in [Garments -> {Nil} \cup (Wearers \X Points)]
      /\ data[g] = <<w, p>> /\ \A h \in Garments : h # g => data[h] = planted[h]
  BY <1>1, <1>4 DEF GarmentsTypes
<1>10. /\ planted' \in [Garments -> {Nil} \cup (Wearers \X Points)]
       /\ \A h \in Garments : planted'[h] = IF h = old /\ parent[h] # Nil THEN Nil ELSE data[h]
  BY <1>5, <1>6, <1>9, GarmentsAssumption DEF Reset
<1>11. GarmentsTypes'
  BY <1>1, <1>5, <1>8, <1>10 DEF GarmentsTypes
<1>12. DestroyedIsFree'
  <2> SUFFICES ASSUME NEW h \in Garments, parent[h] = Nil PROVE planted'[h] = Nil
    BY <1>5 DEF DestroyedIsFree
  <2>1. h # g
    BY <1>5
  <2> QED
    BY <1>1, <1>9, <1>10, <2>1 DEF DestroyedIsFree
<1>13. PlantedIsAttached'
  <2> SUFFICES ASSUME NEW h \in Garments, planted'[h] # Nil
               PROVE  attached'[planted'[h][1]][planted'[h][2]] = h
    BY DEF PlantedIsAttached
  <2>1. CASE h = g
    BY <1>3, <1>5, <1>8, <1>9, <1>10, <2>1
  <2>2. CASE h # g
    <3>1. planted'[h] = planted[h] /\ (h = old => parent[h] = Nil)
      BY <1>9, <1>10, <2>2
    <3>2. PICK v \in Wearers, q \in Points : planted[h] = <<v, q>>
      BY <1>1, <3>1 DEF GarmentsTypes
    <3>3. attached[v][q] = h
      <4>1. attached[planted[h][1]][planted[h][2]] = h
        BY <1>1, <3>1 DEF PlantedIsAttached
      <4> QED
        BY <3>2, <4>1
    <3>4. h # old
      BY <1>1, <3>1 DEF DestroyedIsFree
    <3>5. ~ (v = w /\ q = p)
      BY <1>2, <3>3, <3>4
    <3>6. CASE v # w
      BY <1>8, <3>1, <3>2, <3>3, <3>6
    <3>7. CASE v = w
      <4>1. q # p
        BY <3>5, <3>7
      <4>2. planted[g] # <<w, q>>
        <5> SUFFICES ASSUME planted[g] = <<w, q>> PROVE FALSE
          OBVIOUS
        <5>1. planted[g] # Nil
          <6>1. planted[g] = planted[h]
            BY <3>2, <3>7
          <6> QED
            BY <3>1, <6>1
        <5>2. attached[w][q] = g
          BY <1>1, <5>1 DEF PlantedIsAttached
        <5> QED
          BY <2>2, <3>3, <3>7, <5>2
      <4>3. row[q] = h
        BY <1>3, <3>3, <3>7, <4>1, <4>2
      <4> QED
        BY <1>8, <3>1, <3>2, <3>7, <4>3
    <3> QED
      BY <3>6, <3>7
  <2> QED
    BY <2>1, <2>2
<1>14. WearersTypes' /\ WearersSound'
  BY <1>5, <1>8, CheckAllSound
<1> QED
  BY <1>11, <1>12, <1>13, <1>14 DEF GarmentsInv

\* A garment leaves one wearer and comes to another, of which there may be none.
LEMMA ExchangeSound ==
    ASSUME GarmentsInv, NEW g \in Garments, NEW from, NEW to, Exchange(g, from, to),
           from = parent[g], from # to, parent' = [parent EXCEPT ![g] = to],
           UNCHANGED <<attached, modify, plain>>
    PROVE  WearersTypes' /\ WearersSound'
<1>1. GarmentsTypes /\ WearersTypes /\ WearersSound
  BY DEF GarmentsInv
<1> DEFINE after(w) == IF w = from THEN Unworn(worn[w], g)
                       ELSE IF w = to THEN Checked(worn[w], g, Listening(g), Active(g, w, Listening(g)))
                       ELSE worn[w]
<1>2. /\ worn' = [w \in Wearers |-> after(w)]
      /\ base' = [w \in Wearers |-> IF worn[w] = <<>> THEN armor[w] ELSE base[w]]
      /\ armor' = [w \in Wearers |-> IF worn[w] = after(w) THEN armor[w] ELSE Folded(base'[w], after(w))]
  BY DEF Exchange
<1>3. \A h \in Garments : parent'[h] = IF h = g THEN to ELSE parent[h]
  BY <1>1 DEF GarmentsTypes
<1>4. Listening(g) \in DOMAIN Modify[g] /\ ((g \in Shared => modify[g] = 0) => Listening(g) = modify[g])
  BY <1>1, ListeningIs
<1>5. WearersTypes'
  <2> HIDE DEF after
  <2> QED
    BY <1>1, <1>2 DEF WearersTypes
<1>6. ASSUME NEW w \in Wearers PROVE ValueSound(w)' /\ \A h \in Garments : GarmentSound(w, h)'
  <2>1. List(worn[w]) /\ armor[w] = Folded(plain[w], worn[w]) /\ (worn[w] # <<>> => base[w] = plain[w])
    BY <1>1 DEF WearersSound, ValueSound
  <2>2. PICK ms : ms = after(w)
    OBVIOUS
  <2>3. /\ w = from => List(ms) /\ Of(ms, g) = {} /\ \A h : h # g => Of(ms, h) = Of(worn[w], h)
        /\ w = to => List(ms) /\ Of(ms, g) = Active(g, w, Listening(g)) /\ \A h : h # g => Of(ms, h) = Of(worn[w], h)
        /\ (w # from /\ w # to) => ms = worn[w]
    <3>1. CASE w = from
      BY <2>1, <2>2, <3>1, UnwornIs
    <3>2. CASE w = to
      <4>1. ms = Checked(worn[w], g, Listening(g), Active(g, w, Listening(g)))
        BY <2>2, <3>2
      <4>2. Active(g, w, Listening(g)) \subseteq Range(Modify[g][Listening(g)])
        BY DEF Active
      <4>3. List(ms) /\ Of(ms, g) = Active(g, w, Listening(g)) /\ \A h : h # g => Of(ms, h) = Of(worn[w], h)
        BY <1>4, <2>1, <4>1, <4>2, CheckedIs
      <4> QED
        BY <3>2, <4>3
    <3>3. CASE w # from /\ w # to
      BY <2>2, <3>3
    <3> QED
      BY <3>1, <3>2, <3>3
  <2>4. worn'[w] = ms
    BY <1>2, <2>2
  <2>5. PICK b, a : b = base'[w] /\ a = armor'[w]
    OBVIOUS
  <2>6. b = IF worn[w] = <<>> THEN armor[w] ELSE base[w]
    BY <1>2, <2>5
  <2>7. a = IF worn[w] = ms THEN armor[w] ELSE Folded(b, ms)
    <3> HIDE DEF after
    <3> QED
      BY <1>2, <2>2, <2>5
  <2>8. a = Folded(plain[w], ms) /\ b = plain[w]
    BY <2>1, <2>6, <2>7, ValueMade
  <2>9. ValueSound(w)'
    BY <2>1, <2>3, <2>4, <2>5, <2>8 DEF ValueSound
  <2>10. ASSUME NEW h \in Garments PROVE GarmentSound(w, h)'
    <3>1. GarmentSound(w, h)
      BY <1>1 DEF WearersSound
    <3>2. CASE h # g
      <4>1. Of(ms, h) = Of(worn[w], h) /\ parent'[h] = parent[h]
        BY <1>3, <2>3, <3>2
      <4> QED
        BY <2>4, <3>1, <4>1 DEF GarmentSound, Works
    <3>3. CASE h = g /\ w = to
      <4>1. Of(worn'[w], g) = Active(g, w, Listening(g)) /\ parent'[g] = w
        BY <1>3, <2>3, <2>4, <3>3
      <4> QED
        BY <1>4, <3>3, <4>1 DEF GarmentSound, Works, Active
    <3>4. CASE h = g /\ w # to
      <4>1. parent'[g] # w
        BY <1>3, <3>4
      <4>2. Of(ms, g) = {}
        <5>1. CASE w = from
          BY <2>3, <5>1
        <5>2. CASE w # from
          BY <2>3, <3>1, <3>4, <5>2 DEF GarmentSound
        <5> QED
          BY <5>1, <5>2
      <4> QED
        BY <2>4, <3>4, <4>1, <4>2 DEF GarmentSound
    <3> QED
      BY <3>2, <3>3, <3>4
  <2> QED
    BY <2>9, <2>10
<1> QED
  BY <1>5, <1>6 DEF WearersSound

\* Taking a mark from one garment spoils none of the others.
LEMMA OneLess ==
    ASSUME GarmentsTypes, PlantedIsAttached, DestroyedIsFree, NEW g \in Garments,
           planted' \in [Garments -> {Nil} \cup (Wearers \X Points)],
           \A h \in Garments : planted'[h] = planted[h] \/ (h = g /\ planted'[h] = Nil),
           \A h \in Garments : h # g => parent'[h] = parent[h],
           parent' \in [Garments -> Wearers \cup {Outside, Nil}],
           parent'[g] = Nil => planted'[g] = Nil,
           UNCHANGED <<attached, modify>>
    PROVE  GarmentsTypes' /\ PlantedIsAttached' /\ DestroyedIsFree'
<1>1. GarmentsTypes'
  BY DEF GarmentsTypes
<1>2. PlantedIsAttached'
  BY DEF PlantedIsAttached
<1>3. DestroyedIsFree'
  BY DEF DestroyedIsFree
<1> QED
  BY <1>1, <1>2, <1>3

LEMMA MoveGarmentSound ==
    ASSUME GarmentsInv, NEW g \in Garments, NEW to \in Wearers \cup {Outside}, MoveGarment(g, to)
    PROVE  GarmentsInv'
<1>1. GarmentsTypes /\ PlantedIsAttached /\ DestroyedIsFree
  BY DEF GarmentsInv
<1>2. /\ parent[g] # to /\ parent' = [parent EXCEPT ![g] = to] /\ planted' = Carried(g, to)
      /\ UNCHANGED <<attached, modify, plain>> /\ Exchange(g, parent[g], to)
  BY DEF MoveGarment
<1>3. to # Nil
  BY GarmentsAssumption
<1>4. /\ parent' \in [Garments -> Wearers \cup {Outside, Nil}] /\ parent'[g] = to
      /\ \A h \in Garments : h # g => parent'[h] = parent[h]
  BY <1>1, <1>2 DEF GarmentsTypes
<1>5. /\ planted' \in [Garments -> {Nil} \cup (Wearers \X Points)]
      /\ \A h \in Garments : planted'[h] = planted[h] \/ (h = g /\ planted'[h] = Nil)
  BY <1>1, <1>2 DEF GarmentsTypes, Carried
<1>6. GarmentsTypes' /\ PlantedIsAttached' /\ DestroyedIsFree'
  BY <1>1, <1>2, <1>3, <1>4, <1>5, OneLess
<1>7. WearersTypes' /\ WearersSound'
  BY <1>2, ExchangeSound
<1> QED
  BY <1>6, <1>7 DEF GarmentsInv

LEMMA DestroyGarmentSound ==
    ASSUME GarmentsInv, NEW g \in Garments, DestroyGarment(g)
    PROVE  GarmentsInv'
<1>1. GarmentsTypes /\ PlantedIsAttached /\ DestroyedIsFree
  BY DEF GarmentsInv
<1>2. /\ parent[g] # Nil /\ parent' = [parent EXCEPT ![g] = Nil] /\ planted' = [planted EXCEPT ![g] = Nil]
      /\ UNCHANGED <<attached, modify, plain>> /\ Exchange(g, parent[g], Nil)
  BY DEF DestroyGarment
<1>3. /\ parent' \in [Garments -> Wearers \cup {Outside, Nil}]
      /\ \A h \in Garments : h # g => parent'[h] = parent[h]
  BY <1>1, <1>2 DEF GarmentsTypes
<1>4. /\ planted' \in [Garments -> {Nil} \cup (Wearers \X Points)] /\ planted'[g] = Nil
      /\ \A h \in Garments : planted'[h] = planted[h] \/ (h = g /\ planted'[h] = Nil)
  BY <1>1, <1>2 DEF GarmentsTypes
<1>5. GarmentsTypes' /\ PlantedIsAttached' /\ DestroyedIsFree'
  BY <1>1, <1>2, <1>3, <1>4, OneLess
<1>6. WearersTypes' /\ WearersSound'
  BY <1>2, ExchangeSound
<1> QED
  BY <1>5, <1>6 DEF GarmentsInv

LEMMA SetModifySound ==
    ASSUME GarmentsInv, NEW g \in Garments, NEW value \in DOMAIN Modify[g], SetModify(g, value)
    PROVE  GarmentsInv'
<1>1. GarmentsTypes /\ WearersTypes /\ PlantedIsAttached /\ DestroyedIsFree /\ WearersSound
  BY DEF GarmentsInv
<1>2. parent[g] # Nil /\ modify' = [modify EXCEPT ![g] = value] /\ UNCHANGED <<parent, attached, planted, plain>>
  BY DEF SetModify
<1>3. modify'[g] = value /\ \A h \in Garments : h # g => modify'[h] = modify[h]
  BY <1>1, <1>2 DEF GarmentsTypes
<1>4. GarmentsTypes'
  BY <1>1, <1>2, <1>3 DEF GarmentsTypes
<1>5. PlantedIsAttached' /\ DestroyedIsFree'
  BY <1>1, <1>2 DEF PlantedIsAttached, DestroyedIsFree
<1>6. CASE parent[g] = Outside
  <2>1. UNCHANGED <<worn, base, armor>>
    BY <1>6 DEF SetModify
  <2>2. WearersTypes'
    BY <1>1, <1>2, <2>1 DEF WearersTypes
  <2>3. ASSUME NEW w \in Wearers PROVE ValueSound(w)'
    BY <1>1, <1>2, <2>1 DEF WearersSound, ValueSound
  <2>4. ASSUME NEW w \in Wearers, NEW h \in Garments PROVE GarmentSound(w, h)'
    <3>1. GarmentSound(w, h)
      BY <1>1 DEF WearersSound
    <3>2. CASE h # g
      BY <1>2, <1>3, <2>1, <3>1, <3>2 DEF GarmentSound, Works
    <3>3. CASE h = g
      <4>1. parent[h] # w
        BY <1>6, <3>3, GarmentsAssumption
      <4> QED
        BY <1>2, <2>1, <3>1, <4>1 DEF GarmentSound
    <3> QED
      BY <3>2, <3>3
  <2> QED
    BY <1>4, <1>5, <2>2, <2>3, <2>4 DEF GarmentsInv, WearersSound
<1>7. CASE parent[g] # Outside
  <2>1. PICK w : w = parent[g]
    OBVIOUS
  <2>2. w \in Wearers
    BY <1>1, <1>2, <1>7, <2>1 DEF GarmentsTypes
  <2>3. PICK less : less = Unworn(worn[w], g)
    OBVIOUS
  <2>4. PICK ms : ms = Checked(less, g, value, Active(g, w, value))
    OBVIOUS
  <2>5. Wears(w, ms)
    BY <1>7, <2>1, <2>3, <2>4 DEF SetModify
  <2>6. List(worn[w])
    BY <1>1, <2>2 DEF WearersSound, ValueSound
  <2>7. List(less) /\ \A h : h # g => Of(less, h) = Of(worn[w], h)
    BY <2>3, <2>6, UnwornIs
  <2>8. List(ms) /\ Of(ms, g) = Active(g, w, value) /\ \A h : h # g => Of(ms, h) = Of(less, h)
    <3>1. Active(g, w, value) \subseteq Range(Modify[g][value])
      BY DEF Active
    <3> QED
      BY <2>4, <2>7, <3>1, CheckedIs
  <2>9. /\ WearersTypes' /\ \A v \in Wearers : ValueSound(v)'
        /\ worn'[w] = ms /\ \A v \in Wearers : v # w => worn'[v] = worn[v]
    BY <1>2, <2>2, <2>5, <2>8, WearsIs
  <2>10. ASSUME NEW v \in Wearers, NEW h \in Garments PROVE GarmentSound(v, h)'
    <3>1. GarmentSound(v, h)
      BY <1>1 DEF WearersSound
    <3>2. CASE h # g
      <4>1. Of(worn'[v], h) = Of(worn[v], h)
        BY <2>7, <2>8, <2>9, <3>2
      <4> QED
        BY <1>2, <1>3, <3>1, <3>2, <4>1 DEF GarmentSound, Works
    <3>3. CASE h = g /\ v # w
      BY <1>2, <2>1, <2>9, <3>1, <3>3 DEF GarmentSound
    <3>4. CASE h = g /\ v = w
      <4>1. Of(worn'[w], g) = Active(g, w, value) /\ parent'[g] = w
        BY <1>2, <2>1, <2>8, <2>9
      <4> QED
        BY <1>3, <3>4, <4>1 DEF GarmentSound, Works, Active
    <3> QED
      BY <3>2, <3>3, <3>4
  <2> QED
    BY <1>4, <1>5, <2>9, <2>10 DEF GarmentsInv, WearersSound
<1> QED
  BY <1>6, <1>7

LEMMA SetArmorSound ==
    ASSUME GarmentsInv, NEW w \in Wearers, NEW value, SetArmor(w, value)
    PROVE  GarmentsInv'
<1>1. GarmentsTypes /\ WearersTypes /\ PlantedIsAttached /\ DestroyedIsFree /\ WearersSound
  BY DEF GarmentsInv
<1>2. UNCHANGED <<parent, attached, planted, modify, worn>>
  BY DEF SetArmor
<1>3. GarmentsTypes' /\ PlantedIsAttached' /\ DestroyedIsFree'
  BY <1>1, <1>2 DEF GarmentsTypes, PlantedIsAttached, DestroyedIsFree
<1>4. WearersTypes'
  BY <1>1, <1>2 DEF WearersTypes, SetArmor
<1>5. /\ plain'[w] = value /\ armor'[w] = Folded(value, worn[w])
      /\ worn[w] # <<>> => base'[w] = value
      /\ \A v \in Wearers : v # w => base'[v] = base[v] /\ armor'[v] = armor[v] /\ plain'[v] = plain[v]
  BY <1>1 DEF WearersTypes, SetArmor
<1>6. ASSUME NEW v \in Wearers PROVE ValueSound(v)'
  <2>1. ValueSound(v)
    BY <1>1 DEF WearersSound
  <2>2. CASE v = w
    BY <1>2, <1>5, <2>1, <2>2 DEF ValueSound
  <2>3. CASE v # w
    BY <1>2, <1>5, <2>1, <2>3 DEF ValueSound
  <2> QED
    BY <2>2, <2>3
<1>7. ASSUME NEW v \in Wearers, NEW g \in Garments PROVE GarmentSound(v, g)'
  BY <1>1, <1>2 DEF WearersSound, GarmentSound, Works
<1> QED
  BY <1>3, <1>4, <1>6, <1>7 DEF GarmentsInv, WearersSound

LEMMA GarmentsInitSound ==
    ASSUME GarmentsInit PROVE GarmentsInv
<1>1. GarmentsTypes
  BY GarmentsAssumption DEF GarmentsInit, GarmentsTypes
<1>2. WearersTypes
  BY DEF GarmentsInit, WearersTypes
<1>3. PlantedIsAttached /\ DestroyedIsFree
  BY DEF GarmentsInit, PlantedIsAttached, DestroyedIsFree
<1>4. ASSUME NEW w \in Wearers PROVE ValueSound(w) /\ \A g \in Garments : GarmentSound(w, g)
  <2>1. worn[w] = <<>> /\ armor[w] = plain[w] /\ \A g \in Garments : parent[g] # w
    BY GarmentsAssumption DEF GarmentsInit
  <2>2. List(<<>>) /\ \A g : Of(<<>>, g) = {}
    BY DEF List, IsInjective, Range, Of
  <2> QED
    BY <2>1, <2>2, FoldedNone DEF ValueSound, GarmentSound
<1> QED
  BY <1>1, <1>2, <1>3, <1>4 DEF GarmentsInv, WearersSound

LEMMA GarmentsStep ==
    ASSUME GarmentsInv, [GarmentsNext]_garmentsVars PROVE GarmentsInv'
<1>1. CASE UNCHANGED garmentsVars
  <2>1. GarmentsTypes' /\ WearersTypes' /\ PlantedIsAttached' /\ DestroyedIsFree'
    BY <1>1 DEF GarmentsInv, garmentsVars, GarmentsTypes, WearersTypes, PlantedIsAttached, DestroyedIsFree
  <2>2. WearersSound'
    BY <1>1 DEF GarmentsInv, garmentsVars, WearersSound, ValueSound, GarmentSound, Works
  <2> QED
    BY <2>1, <2>2 DEF GarmentsInv
<1>2. CASE GarmentsNext
  BY <1>2, UnwieldSound, WieldSound, MoveGarmentSound, DestroyGarmentSound, SetModifySound, SetArmorSound
     DEF GarmentsNext
<1> QED
  BY <1>1, <1>2

LEMMA GarmentsInvIsEnough ==
    ASSUME GarmentsInv PROVE WornOnce
BY DEF GarmentsInv, WearersSound, ValueSound, GarmentSound, Works, List, WornOnce

\* Whatever is worn, given away, changed and destroyed, in whatever order, the value
\* of a wearer is the one last set, changed by exactly the active modifiers of what it
\* has, each once, for any number of wearers, garments, attachments and modifiers
\* (ModifyProperty.cpp: checkIfActive(), newLocation(); AttachmentsProperty.cpp:
\* operation(); LocatedEntity.cpp: addModifier(), removeModifier(), setAttr()).
THEOREM WornAlwaysOnce == GarmentsSpec => []WornOnce
<1>1. GarmentsInit => GarmentsInv
  BY GarmentsInitSound
<1>2. GarmentsInv /\ [GarmentsNext]_garmentsVars => GarmentsInv'
  BY GarmentsStep
<1>3. GarmentsInv => WornOnce
  BY GarmentsInvIsEnough
<1> QED
  BY <1>1, <1>2, <1>3, PTL DEF GarmentsSpec
=============================================================================
