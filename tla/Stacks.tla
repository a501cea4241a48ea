------------------------------- MODULE Stacks -------------------------------
(***************************************************************************)
(* Stackable entities (src/rules/simulation/StackableDomain.cpp and        *)
(* AmountProperty.cpp): one entity stands for several equal ones.  A Move  *)
(* operation may take a part of a stack, which becomes an entity of its    *)
(* own in the world first and is then moved; what comes to a place with an *)
(* equal stack is added to that, and its emptied entity deletes itself.  A *)
(* stack that is moved into an unequal one is contained in it.             *)
(*                                                                         *)
(* Bound: a stack that contains another is not emptied.                    *)
(***************************************************************************)
EXTENDS Integers

CONSTANTS
    NumStacks,   \* how many stackable entities there are at most at a time
    Kind,        \* what makes two of them equal: type and properties
    Stores,      \* inventories and containers, where equal stacks become one
    Void,        \* the world's own domain, where they do not
    MaxAmount    \* bound on the amount created

Stacks == 1 .. NumStacks

ASSUME StacksAssumption ==
    /\ NumStacks \in Nat
    /\ Void \notin Stores /\ (Stores \cup {Void}) \cap Stacks = {}
    /\ DOMAIN Kind = Stacks
    /\ MaxAmount \in Nat

VARIABLES
    amount,    \* AmountProperty of each stack, 0 if there is no such entity
    place,     \* where it is, perhaps in another stack; Void if there is no such entity
    created,   \* how many things of each stack's kind were created in all
    removed    \* how many were deleted

stacksVars == <<amount, place, created, removed>>

StacksInit ==
    /\ amount = [s \in Stacks |-> 0]
    /\ place = [s \in Stacks |-> Void]
    /\ created = 0
    /\ removed = 0

StackExists(s) == amount[s] > 0

StacksNow == [amount |-> amount, place |-> place]

\* Those that stackIfPossible() finds for s in a place, among the stacks of st.
Equals(st, s, at) ==
    {t \in Stacks \ {s} : at \in Stores /\ st.amount[t] > 0 /\ st.place[t] = at /\ Kind[t] = Kind[s]}

\* The amount of s is added to that of t, and s, of which nothing is left, is deleted
\* by AmountProperty::apply() at once.
Stacked(st, s, t) ==
    [st EXCEPT !.amount[t] = @ + st.amount[s], !.amount[s] = 0, !.place[s] = Void]

Holding(st, s) == \E t \in Stacks : st.place[t] = s

\* Those that s is added to at a place: the stack itself, or equal ones in the store.
Merging(st, s, at) == IF at \in Stacks THEN {t \in {at} : Kind[t] = Kind[s]} ELSE Equals(st, s, at)

\* s comes to a place (addEntity()): to a store, to a stack, or into the void.
Arrives(st, s, at) ==
    IF Merging(st, s, at) # {}
    THEN {Stacked(st, s, t) : t \in {x \in Merging(st, s, at) : ~Holding(st, s)}}
    ELSE {[st EXCEPT !.place[s] = at]}

\* Everything that a stack is in, with itself.
Around(st, s) ==
    LET up[n \in 0 .. NumStacks] ==
            IF n = 0 THEN s ELSE IF up[n - 1] \in Stacks THEN st.place[up[n - 1]] ELSE up[n - 1]
    IN  {up[n] : n \in 0 .. NumStacks}

\* Into a stack that exists, and neither into itself nor into what it contains.
Target(st, s, at) ==
    at \in Stacks => at # s /\ st.amount[at] > 0 /\ s \notin Around(st, at)

StacksBecome(st) == amount' = st.amount /\ place' = st.place

\* A new stackable entity of amount n.
CreateStack(s, n, at) ==
    /\ ~StackExists(s) /\ created + n <= MaxAmount
    /\ \E st \in Arrives([StacksNow EXCEPT !.amount[s] = n], s, at) : StacksBecome(st)
    /\ created' = created + n
    /\ UNCHANGED removed

\* A Move of as many as there are, or more: the standard move.
MoveAll(s, n, at) ==
    /\ StackExists(s) /\ n >= amount[s]
    /\ at # place[s] /\ Target(StacksNow, s, at)
    /\ \E st \in Arrives(StacksNow, s, at) : StacksBecome(st)
    /\ UNCHANGED <<created, removed>>

\* Mutant: the original keeps what was taken out of it.
Split_Copied(s, t, n) == [StacksNow EXCEPT !.amount[t] = n]

\* The new entity t, in the void, and the original with as much less.
Split(s, t, n) == [StacksNow EXCEPT !.amount[t] = n, !.amount[s] = @ - n]

\* A Move of a part, n > 0: split, and the new entity is sent on by a Move of its
\* own.  Where that is refused (the place is gone) it stays in the void.
MoveSome(s, t, n, at) ==
    /\ StackExists(s) /\ ~StackExists(t) /\ Kind[t] = Kind[s]
    /\ n < amount[s]
    /\ \E st \in (IF at = Void \/ ~Target(Split(s, t, n), t, at)
                  THEN {Split(s, t, n)}
                  ELSE Arrives(Split(s, t, n), t, at)) : StacksBecome(st)
    /\ UNCHANGED <<created, removed>>

\* A Delete of n things; the whole entity goes with the last of them.
DeleteSome(s, n) ==
    /\ StackExists(s)
    /\ IF amount[s] - n > 0
       THEN /\ amount' = [amount EXCEPT ![s] = @ - n]
            /\ removed' = removed + n
            /\ UNCHANGED place
       ELSE /\ ~Holding(StacksNow, s)
            /\ StacksBecome([StacksNow EXCEPT !.amount[s] = 0, !.place[s] = Void])
            /\ removed' = removed + amount[s]
    /\ UNCHANGED created

StacksNext ==
    \E s \in Stacks :
        \/ \E n \in 1 .. MaxAmount, at \in Stores \cup {Void} \cup Stacks :
              \/ MoveAll(s, n, at)
              \/ \E t \in Stacks : MoveSome(s, t, n, at)
        \/ \E n \in 1 .. MaxAmount, at \in Stores \cup {Void} : CreateStack(s, n, at)
        \/ \E n \in 0 .. MaxAmount : DeleteSome(s, n)

StacksSpec == StacksInit /\ [][StacksNext]_stacksVars

-----------------------------------------------------------------------------
\* How many things there are in all stacks.
Total(f) ==
    LET upTo[n \in 0 .. NumStacks] == IF n = 0 THEN 0 ELSE upTo[n - 1] + f[n]
    IN  upTo[NumStacks]

\* Splitting, stacking and moving neither makes nor loses anything, and no
\* inventory or container has two stacks of the same things.
StacksConserved ==
    /\ Total(amount) = created - removed
    /\ \A s, t \in Stacks :
          (s # t /\ StackExists(s) /\ StackExists(t) /\ place[s] \in Stores /\ Kind[s] = Kind[t])
              => place[s] # place[t]
=============================================================================
