----------------------------- MODULE MCExchange -----------------------------
(* Small instances of the parts that handle what comes from elsewhere: queued
   operations, connections, other servers, rule files, world files, perceptions,
   the server as the AI client sees it and a database server.  The parts
   share no variables: each behaviour is about one of them, and leaves the others
   as they are at the start. *)
EXTENDS OperationsDispatcher, Teleport, Rules, Importer, Exporter, Memory, Streams, Awareness, AIClient,
        PostgresQueue

CONSTANTS m1, m2, w1, w2, b1, b2

\* Rules 3 and 4 are built in; rule 1 may come from rule 2 or from rule 3.
MCParents ==
    [r \in RuleNames |-> CASE r = 3 -> {GameEntity} [] r = 4 -> {3} [] r = 1 -> {2, 3} [] OTHER -> {3}]
MCOwnValues ==
    {[kind |-> "none", n |-> 0], [kind |-> "default", n |-> 1], [kind |-> "append", n |-> 1]}

\* The entities of a file to import: 1 holds 2, and 3 holds 4.
MCChildren ==
    [o \in 0 .. 4 |-> CASE o = 0 -> <<1, 3>> [] o = 1 -> <<2>> [] o = 3 -> <<4>> [] OTHER -> <<>>]
MCRefers == [o \in 0 .. 4 |-> CASE o = 1 -> {2} [] o = 2 -> {1, 3} [] o = 4 -> {2} [] OTHER -> {}]

\* The world to export has the same shape; rats are transient by their type.
MCHolder == [x \in Exported |-> CASE x = 2 -> 1 [] x = 4 -> 3 [] OTHER -> 0]
MCTypeOf == [x \in {0} \cup Exported |-> CASE x = 2 -> "rat" [] x = 4 -> "mouse" [] OTHER -> "thing"]
MCSubtypes == [t \in {"thing", "rat", "mouse", "whiterat"} |->
                 CASE t = "thing" -> <<"rat", "mouse">> [] t = "rat" -> <<"whiterat">> [] OTHER -> <<>>]
MCTransience == [x \in {0} \cup Exported |-> IF x = 3 THEN "no" ELSE "unset"]
MCTypeTransience == [t \in DOMAIN MCSubtypes |-> IF t = "rat" THEN "yes" ELSE "unset"]

\* A boar is a pig and a pig is an animal.
MCThingType == m1 :> "pig" @@ m2 :> "boar"
MCTypeParent == "pig" :> "animal" @@ "boar" :> "pig" @@ "animal" :> "thing"

\* Mind w2 sees the body of mind w1, which w1 may come to know later.
MCAvatar == w1 :> b1 @@ w2 :> b2

VARIABLE part   \* the part that this behaviour is about

MCInit ==
    /\ part \in {"dispatcher", "teleport", "rules", "importer", "exporter", "memory", "streams", "awareness",
                "aiclient", "postgres"}
    /\ Init
    /\ TeleportInit
    /\ RulesInit
    /\ ImporterInit
    /\ ExporterInit
    /\ MemoryInit
    /\ StreamsInit
    /\ AwarenessInit
    /\ AIClientInit
    /\ PostgresInit
    /\ part # "rules" => files = [r \in RuleNames |-> NoRule]
    /\ part # "importer" => alwaysCreate
    /\ part # "exporter" => exportTransient /\ preserveIds

Others(p) ==
    /\ p # "dispatcher" => UNCHANGED vars
    /\ p # "teleport" => UNCHANGED teleportVars
    /\ p # "rules" => UNCHANGED rulesVars
    /\ p # "importer" => UNCHANGED importerVars
    /\ p # "exporter" => UNCHANGED exporterVars
    /\ p # "memory" => UNCHANGED memoryVars
    /\ p # "streams" => UNCHANGED streamVars
    /\ p # "awareness" => UNCHANGED awarenessVars
    /\ p # "aiclient" => UNCHANGED clientVars
    /\ p # "postgres" => UNCHANGED postgresVars

MCNext ==
    /\ UNCHANGED part /\ Others(part)
    /\ \/ part = "dispatcher" /\ Next
       \/ part = "teleport" /\ TeleportNext
       \/ part = "rules" /\ RulesNext
       \/ part = "importer" /\ ImporterNext
       \/ part = "exporter" /\ ExporterNext
       \/ part = "memory" /\ MemoryNext
       \/ part = "streams" /\ StreamsNext
       \/ part = "awareness" /\ AwarenessNext
       \/ part = "aiclient" /\ AIClientNext
       \/ part = "postgres" /\ PostgresNext

MCSpec ==
    MCInit /\ [][MCNext]_<<part, vars, teleportVars, rulesVars, importerVars, exporterVars, memoryVars,
                         streamVars, awarenessVars, clientVars, postgresVars>>

=============================================================================
