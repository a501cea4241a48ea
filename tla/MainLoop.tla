------------------------------ MODULE MainLoop ------------------------------
(***************************************************************************)
(* The server's main loop (src/common/MainLoop.cpp) and the end of the     *)
(* server's run() (src/server/server.cpp) around the operation queue.      *)
(*                                                                         *)
(* A frame advances the clock by one tick, dispatches what clients sent,   *)
(* works off the operation queue for as long as the wall clock allows,     *)
(* runs I/O handlers until the frame's timer expires, and looks at the     *)
(* exit flags.  Signals are I/O handlers: they arrive between any two      *)
(* others.  The operation queue is OperationsDispatcher, with all its      *)
(* state (vars) and its operations; its clock is the time the loop         *)
(* advances.                                                               *)
(***************************************************************************)
EXTENDS OperationsDispatcher

CONSTANTS
    PollAnswers,   \* what callbacks.softExitPoll() may return
    SoftEnabled,   \* exit_soft_enabled
    MaxSignals     \* bound on the signals the process receives

ASSUME LoopAssumption ==
    /\ PollAnswers \subseteq BOOLEAN /\ PollAnswers # {}
    /\ SoftEnabled \in BOOLEAN
    /\ MaxSignals \in Nat

VARIABLES
    phase,                   \* where run() is in a frame
    exit_flag, exit_flag_soft,
    soft_exit_in_progress,
    softExitTimer,           \* armed or not
    incoming,                \* operations clients sent, not yet dispatched
    signals                  \* history: how many shutdown signals arrived

exitVars == <<exit_flag, exit_flag_soft, soft_exit_in_progress, softExitTimer, signals>>
loopVars == <<vars, phase, exitVars, incoming>>

Phases == {"start", "messages", "process", "io", "more io", "exit check",
           "store shutdown", "disconnect", "world shutdown", "ended"}

-----------------------------------------------------------------------------
LoopInit ==
    /\ Init
    /\ phase = "start"
    /\ exit_flag = FALSE /\ exit_flag_soft = FALSE
    /\ soft_exit_in_progress = FALSE
    /\ softExitTimer = FALSE
    /\ incoming = 0
    /\ signals = 0

\* The head of "while (!exit_flag)": a new frame, and time += tick_size.  The
\* clock stays at its bound, by which time every queued operation is due.
StartFrame ==
    /\ phase = "start" /\ ~exit_flag
    /\ phase' = "messages"
    /\ \/ Tick
       \/ now = MaxTime /\ UNCHANGED vars
    /\ UNCHANGED <<exitVars, incoming>>

\* callbacks.dispatchOperations(): a client's operation reaches the world, which
\* queues an operation.  Most are stamped now or later, but preset seconds are kept
\* and resumeWorld() queues ticks with the seconds they had: any time may come.
DispatchIncoming(r) ==
    /\ phase = "messages" /\ incoming > 0
    /\ incoming' = incoming - 1
    /\ AddOperationToQueue(r)
    /\ UNCHANGED <<phase, exitVars>>

\* The connections' share of operations was dispatched: processUntil() is called.
StartProcessing ==
    /\ phase = "messages"
    /\ phase' = "process"
    /\ ProcessUntil
    /\ UNCHANGED <<exitVars, incoming>>

\* An operation is handled; what comes of it is queued, for any time.
ProcessOne(e, reqs) ==
    /\ phase = "process"
    /\ DispatchDue(e, reqs)
    /\ UNCHANGED <<phase, exitVars, incoming>>

StopProcessing ==
    /\ phase = "process"
    /\ phase' = "io"
    /\ EndProcessUntil
    /\ UNCHANGED <<exitVars, incoming>>

InIO == phase \in {"io", "more io"}

\* io_context.run_one() ran a handler; the do-loop may go on or not.
HandlerRan == phase' = "more io"

\* A client's operation arrives and waits for the next frame.
Receive ==
    /\ InIO /\ incoming + m_sequence < MaxSequence
    /\ incoming' = incoming + 1
    /\ HandlerRan
    /\ UNCHANGED <<vars, exitVars>>

\* SIGTERM (and, interactively, SIGINT and SIGHUP).
SoftSignal ==
    /\ InIO /\ signals < MaxSignals
    /\ signals' = signals + 1
    /\ exit_flag' = (exit_flag \/ exit_flag_soft \/ ~SoftEnabled)
    /\ exit_flag_soft' = (exit_flag_soft \/ SoftEnabled)
    /\ HandlerRan
    /\ UNCHANGED <<vars, soft_exit_in_progress, softExitTimer, incoming>>

\* SIGQUIT, interactively.
HardSignal ==
    /\ InIO /\ signals < MaxSignals
    /\ signals' = signals + 1
    /\ exit_flag' = TRUE
    /\ HandlerRan
    /\ UNCHANGED <<vars, exit_flag_soft, soft_exit_in_progress, softExitTimer,
                   incoming>>

\* The soft exit's deadline passes.
SoftExitTimeout ==
    /\ InIO /\ softExitTimer
    /\ softExitTimer' = FALSE
    /\ exit_flag' = TRUE
    /\ HandlerRan
    /\ UNCHANGED <<vars, exit_flag_soft, soft_exit_in_progress, signals, incoming>>

\* The frame's own timer is the last handler the frame runs, or the time is up
\* after another one.
FrameTimer ==
    /\ InIO
    /\ phase' = "exit check"
    /\ UNCHANGED <<vars, exitVars, incoming>>

\* Mutant: a soft exit is started without arming its timer.
ExitCheck_NoTimer(answer) ==
    /\ phase = "exit check"
    /\ phase' = "start"
    /\ exit_flag' = (exit_flag \/ (soft_exit_in_progress /\ answer))
    /\ exit_flag_soft' = (soft_exit_in_progress /\ exit_flag_soft)
    /\ soft_exit_in_progress' = (soft_exit_in_progress \/ exit_flag_soft)
    /\ UNCHANGED <<vars, softExitTimer, signals, incoming>>

\* The end of a frame: a soft exit is polled, or started.
ExitCheck(answer) ==
    /\ phase = "exit check"
    /\ phase' = "start"
    /\ IF soft_exit_in_progress
       THEN /\ exit_flag' = (exit_flag \/ answer)
            /\ softExitTimer' = (softExitTimer /\ ~answer)
            /\ UNCHANGED <<exit_flag_soft, soft_exit_in_progress>>
       ELSE /\ exit_flag_soft' = FALSE
            /\ soft_exit_in_progress' = exit_flag_soft
            /\ softExitTimer' = exit_flag_soft
            /\ UNCHANGED exit_flag
    /\ UNCHANGED <<vars, signals, incoming>>

\* "while (!exit_flag)" ends: run() goes on to shut the server down.
LeaveLoop ==
    /\ phase = "start" /\ exit_flag
    /\ phase' = "store shutdown"
    /\ UNCHANGED <<vars, exitVars, incoming>>

\* store.shutdown() resets exit_flag before, and writes what is outstanding.
StoreShutdown ==
    /\ phase = "store shutdown"
    /\ exit_flag' = FALSE
    /\ phase' = "disconnect"
    /\ UNCHANGED <<vars, exit_flag_soft, soft_exit_in_progress, softExitTimer,
                   signals, incoming>>

\* serverRouting.disconnectAllConnections(): what clients sent is dropped.
DisconnectAllConnections ==
    /\ phase = "disconnect"
    /\ incoming' = 0
    /\ phase' = "world shutdown"
    /\ UNCHANGED <<vars, exitVars>>

\* world.shutdown() clears the operation queue.
WorldShutdown ==
    /\ phase = "world shutdown"
    /\ phase' = "ended"
    /\ ClearQueues
    /\ UNCHANGED <<exitVars, incoming>>

Shutdown == StoreShutdown \/ DisconnectAllConnections \/ WorldShutdown

IOHandler == Receive \/ SoftSignal \/ HardSignal \/ SoftExitTimeout

LoopNext ==
    \/ StartFrame
    \/ \E r \in Request : DispatchIncoming(r)
    \/ StartProcessing
    \/ \E e \in m_operationQueue, reqs \in Results : ProcessOne(e, reqs)
    \/ StopProcessing
    \/ IOHandler
    \/ FrameTimer
    \/ \E answer \in PollAnswers : ExitCheck(answer)
    \/ LeaveLoop
    \/ Shutdown
    \/ phase = "ended" /\ UNCHANGED loopVars

LoopSpec == LoopInit /\ [][LoopNext]_loopVars

(***************************************************************************)
(* Fairness: the thread never stops between two steps; the frame's timer   *)
(* ends the I/O phase of every frame; and an armed soft exit timer is run  *)
(* by some frame's I/O phase, since asio runs expired timers in order.     *)
(* Nothing is assumed of the wall clock (StopProcessing may come after a   *)
(* single operation in every frame), of clients, or of signals.            *)
(***************************************************************************)
Fairness ==
    /\ WF_loopVars(StartFrame \/ LeaveLoop)
    /\ WF_loopVars(StartProcessing)
    /\ WF_loopVars(\E e \in m_operationQueue, reqs \in Results : ProcessOne(e, reqs))
    /\ WF_loopVars(StopProcessing)
    /\ WF_loopVars(FrameTimer)
    /\ WF_loopVars(\E answer \in PollAnswers : ExitCheck(answer))
    /\ SF_loopVars(SoftExitTimeout)
    /\ WF_loopVars(Shutdown)

LoopFairSpec == LoopSpec /\ Fairness

-----------------------------------------------------------------------------
\* e stands before f and will be dispatched first.
Ahead(f) == {e \in m_operationQueue : Before(e, f)}

\* What gets in front of an operation after that was queued (in a frame, from a client,
\* or from an operation that was handled) is stamped strictly earlier: operations for
\* the same time are never reordered, however many frames they wait
\* (addOperationToQueue, OpQueEntry::operator>).
OnlyEarlierOvertake ==
    [][\A f \in m_operationQueue \cap m_operationQueue' :
          \A e \in Ahead(f)' \ Ahead(f) : e.time < f.time]_loopVars

\* Every queued operation is dispatched in the end, unless the server exits,
\* even if the wall clock allows a single operation in every frame
\* (the "do"-loop of processUntil).
EveryOpHandled ==
    \A s \in 1 .. MaxSequence :
        (\E e \in m_operationQueue : e.sequence = s)
            ~> (phase = "ended" \/ ~\E e \in m_operationQueue : e.sequence = s)

\* A signal to shut down, soft or hard, ends the server, whatever the poll
\* callback answers.
SignalEndsServer == (signals > 0) ~> (phase = "ended")

=============================================================================
