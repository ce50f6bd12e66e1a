---------------------------- MODULE Philosophers ----------------------------
(***************************************************************************)
(* The three dining programs of a10.  A fork is a mutex, kept locked while *)
(* it is in a hand, and a flag free.  phil-ordered takes the fork of the   *)
(* lower number first, phil-rightfork the right one; phil-random draws     *)
(* one, looks at the flag of the other without its lock, and puts the      *)
(* first down when the other is taken.                                     *)
(*                                                                         *)
(* A philosopher sleeps between writing its own flag and reading the other *)
(* one, so that the unlocked read is taken to see what was written.        *)
(***************************************************************************)
EXTENDS Integers

CONSTANTS
    num_phils,
    num_meals,
    None            \* no philosopher

ASSUME PhilsAssumption == num_phils \in Nat /\ num_phils >= 2
ASSUME MealsAssumption == num_meals \in Nat \ {0}
ASSUME NoneAssumption == None \notin 0..(num_phils - 1)

VARIABLES
    version,        \* the program
    lock,           \* the philosopher that has forks[i].lock
    free,           \* forks[i].free
    first,          \* the fork a philosopher takes first
    meals,
    pc

vars == <<version, lock, free, first, meals, pc>>

Versions == {"ordered", "rightfork", "random"}
Phils == 0..(num_phils - 1)

leftfork(p) == p
rightfork(p) == (p + 1) % num_phils
second(p) == IF first[p] = leftfork(p) THEN rightfork(p) ELSE leftfork(p)

TypeOK ==
    /\ version \in Versions
    /\ lock \in [Phils -> Phils \cup {None}]
    /\ free \in [Phils -> BOOLEAN]
    /\ first \in [Phils -> Phils]
    /\ meals \in [Phils -> 0..num_meals]
    /\ pc \in [Phils -> {"think", "first", "pick", "look", "second", "pick_second",
                         "eat", "put_right", "put_left", "done"}]

\* initfork
Init ==
    /\ version \in Versions
    /\ lock = [f \in Phils |-> None]
    /\ free = [f \in Phils |-> TRUE]
    /\ first = [p \in Phils |-> p]
    /\ meals = [p \in Phils |-> 0]
    /\ pc = [p \in Phils |-> "think"]

Goto(p, l) == pc' = [pc EXCEPT ![p] = l]

\* Variant: the last philosopher too takes the left fork first.
FirstLeft(p) ==
    CASE version = "ordered" -> {leftfork(p)}
      [] version = "rightfork" -> {rightfork(p)}
      [] OTHER -> {leftfork(p), rightfork(p)}

\* The forks p may take first.
First(p) ==
    CASE version = "ordered" -> {IF p < rightfork(p) THEN leftfork(p) ELSE rightfork(p)}
      [] version = "rightfork" -> {rightfork(p)}
      [] OTHER -> {leftfork(p), rightfork(p)}

Think(p) ==
    /\ pc[p] = "think"
    /\ IF meals[p] < num_meals
       THEN \E f \in First(p) : first' = [first EXCEPT ![p] = f] /\ Goto(p, "first")
       ELSE Goto(p, "done") /\ UNCHANGED first
    /\ UNCHANGED <<version, lock, free, meals>>

\* uthread_mutex_lock of fork f
Lock(p, f) == lock[f] = None /\ lock' = [lock EXCEPT ![f] = p]

LockFirst(p) ==
    /\ pc[p] = "first"
    /\ Lock(p, first[p])
    /\ Goto(p, "pick")
    /\ UNCHANGED <<version, free, first, meals>>

\* The flag is always up when the lock was got: WhoLocksPicks.
PickFirst(p) ==
    /\ pc[p] = "pick"
    /\ free[first[p]]
    /\ free' = [free EXCEPT ![first[p]] = FALSE]
    /\ Goto(p, IF version = "random" THEN "look" ELSE "second")
    /\ UNCHANGED <<version, lock, first, meals>>

\* Variant: the fork is unlocked but not marked free.
PutUnlocks(f) == lock' = [lock EXCEPT ![f] = None] /\ UNCHANGED free

\* putfork of fork f
Put(f) == free' = [free EXCEPT ![f] = TRUE] /\ lock' = [lock EXCEPT ![f] = None]

\* Variant: the philosopher waits for the other fork in any case.
LookAndWait(p) ==
    /\ pc[p] = "look"
    /\ Goto(p, "second")
    /\ UNCHANGED <<version, lock, free, first, meals>>

\* phil-random looks at the other fork, and gives up when it is taken.
Look(p) ==
    /\ pc[p] = "look"
    /\ IF free[second(p)]
       THEN Goto(p, "second") /\ UNCHANGED <<free, lock>>
       ELSE Goto(p, "think") /\ Put(first[p])
    /\ UNCHANGED <<version, first, meals>>

LockSecond(p) ==
    /\ pc[p] = "second"
    /\ Lock(p, second(p))
    /\ Goto(p, "pick_second")
    /\ UNCHANGED <<version, free, first, meals>>

PickSecond(p) ==
    /\ pc[p] = "pick_second"
    /\ version = "random" \/ free[second(p)]
    /\ free' = [free EXCEPT ![second(p)] = FALSE]
    /\ Goto(p, "eat")
    /\ UNCHANGED <<version, lock, first, meals>>

Eat(p) ==
    /\ pc[p] = "eat"
    /\ meals' = [meals EXCEPT ![p] = @ + 1]
    /\ Goto(p, "put_right")
    /\ UNCHANGED <<version, lock, free, first>>

PutRight(p) ==
    /\ pc[p] = "put_right"
    /\ Put(rightfork(p))
    /\ Goto(p, "put_left")
    /\ UNCHANGED <<version, first, meals>>

PutLeft(p) ==
    /\ pc[p] = "put_left"
    /\ Put(leftfork(p))
    /\ Goto(p, "think")
    /\ UNCHANGED <<version, first, meals>>

Phil(p) == \/ Think(p) \/ LockFirst(p) \/ PickFirst(p) \/ Look(p)
           \/ LockSecond(p) \/ PickSecond(p) \/ Eat(p) \/ PutRight(p) \/ PutLeft(p)

Next == \E p \in Phils : Phil(p)

Spec == Init /\ [][Next]_vars

-----------------------------------------------------------------------------
\* A philosopher that locked a fork finds it free, so that getfork never waits
\* on forfree, and one that eats has both forks to itself.
WhoLocksPicks ==
    \A p \in Phils :
        /\ pc[p] = "pick" => free[first[p]]
        /\ pc[p] = "pick_second" => free[second(p)]
        /\ pc[p] \in {"eat", "put_right"} =>
              \A f \in {leftfork(p), rightfork(p)} : lock[f] = p /\ ~free[f]

Blocked(p) == \/ pc[p] = "first" /\ lock[first[p]] # None
              \/ pc[p] = "second" /\ lock[second(p)] # None
Stuck == /\ \A p \in Phils : pc[p] = "done" \/ Blocked(p)
         /\ \E p \in Phils : Blocked(p)

\* Of the three programs only phil-rightfork can come to a stop, and only with
\* every right fork in the hand of its philosopher: phil-random cannot, because
\* of two neighbours in a circle one would have seen the other's flag down.
\* And nobody waits on forfree, or eats without both forks, on the way there.
OnlyRightForksDeadlock ==
    /\ WhoLocksPicks
    /\ Stuck => version = "rightfork" /\ \A p \in Phils : lock[rightfork(p)] = p

AllDone == \A p \in Phils : pc[p] = "done"
=============================================================================
