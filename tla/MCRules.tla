------------------------------ MODULE MCRules ------------------------------
(* A small instance of Rules on its own. *)
EXTENDS Rules

\* Rule 3 is built in; rules 1 and 2 come from it.
MCParents == [r \in RuleNames |-> IF r = 3 THEN {GameEntity} ELSE {3}]
MCOwnValues == {[kind |-> "none", n |-> 0], [kind |-> "default", n |-> 1]}

MCSpec == RulesSpec

=============================================================================
