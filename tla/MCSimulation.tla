---------------------------- MODULE MCSimulation ----------------------------
(* Small instances of the parts that keep an entity's state and a player's.  The
   parts share no variables: each behaviour is about one of them, and leaves the
   others as they are at the start. *)
EXTENDS Sessions, SuspendedProperty, Tasks, Containers, Stacks, Garments, Visibility, Relays, TLC

CONSTANTS hand, arm

\* Stacks 1 to 3 are of one kind, 4 of another.
MCKind == [s \in Stacks |-> s \div 4]

Changes(g, v, needs, kind, n) ==
    [of |-> g, value |-> v, needs |-> needs, kind |-> kind, amount |-> n]

\* What the two values of each garment's "modify" do, and where it has to be worn.
MCModify ==
    [g \in Garments |->
        IF g \in Shared
        THEN (0 :> <<Changes(g, 0, hand, "append", 2)>>) @@ (1 :> <<Changes(g, 1, hand, "default", 1)>>)
        ELSE (0 :> <<Changes(g, 0, hand, "append", 1), Changes(g, 0, arm, "default", 3)>>)
             @@ (1 :> <<Changes(g, 1, Nil, "append", 1)>>)]

\* Two entities, the first with two minds.
MCBody == [m \in RelayMinds |-> IF m = 2 THEN "y" ELSE "x"]

VARIABLE part   \* the part that this behaviour is about

MCInit ==
    /\ part \in {"sessions", "suspended", "tasks", "containers", "stacks", "garments", "visibility", "relays"}
    /\ Init
    /\ SuspendedInit
    /\ TasksInit
    /\ ContainersInit
    /\ StacksInit
    /\ GarmentsInit
    /\ VisibilityInit
    /\ RelaysInit

Others(p) ==
    /\ p # "sessions" => UNCHANGED vars
    /\ p # "suspended" => UNCHANGED suspendedVars
    /\ p # "tasks" => UNCHANGED tasksVars
    /\ p # "containers" => UNCHANGED containersVars
    /\ p # "stacks" => UNCHANGED stacksVars
    /\ p # "garments" => UNCHANGED garmentsVars
    /\ p # "visibility" => UNCHANGED visibilityVars
    /\ p # "relays" => UNCHANGED relaysVars

MCNext ==
    /\ UNCHANGED part /\ Others(part)
    /\ \/ part = "sessions" /\ Next
       \/ part = "suspended" /\ SuspendedNext
       \/ part = "tasks" /\ TasksNext
       \/ part = "containers" /\ ContainersNext
       \/ part = "stacks" /\ StacksNext
       \/ part = "garments" /\ GarmentsNext
       \/ part = "visibility" /\ VisibilityNext
       \/ part = "relays" /\ RelaysNext

MCSpec ==
    MCInit /\ [][MCNext]_<<part, vars, suspendedVars, tasksVars, containersVars, stacksVars,
                         garmentsVars, visibilityVars, relaysVars>>

=============================================================================
