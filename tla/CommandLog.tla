----------------------------- MODULE CommandLog -----------------------------
(***************************************************************************)
(* What the users of common/Database.h rely on when they call              *)
(* scheduleCommand(): the commands run in the order in which they were     *)
(* scheduled, each of them once.  Storage takes its commands from such a   *)
(* log; SQLiteQueue is shown to implement it.                              *)
(***************************************************************************)
EXTENDS Naturals, Sequences

CONSTANT Commands    \* the SQL commands

VARIABLES
    issued,      \* the commands scheduled so far
    executed     \* the commands run so far

logVars == <<issued, executed>>

Init == issued = <<>> /\ executed = <<>>

Issue(c) ==
    /\ issued' = Append(issued, c)
    /\ UNCHANGED executed

Execute ==
    /\ Len(executed) < Len(issued)
    /\ executed' = Append(executed, issued[Len(executed) + 1])
    /\ UNCHANGED issued

Next == Execute \/ \E c \in Commands : Issue(c)

Spec == Init /\ [][Next]_logVars
=============================================================================
