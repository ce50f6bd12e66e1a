------------------------------ MODULE RaceStack ----------------------------
(***************************************************************************)
(* examples/uthread/examples/racedemo.c: one thread pushes elements onto a *)
(* linked stack and another pops them: alone after each other, and at the  *)
(* same time with a spinlock, with a lock that tests and sets in two steps,*)
(* and with none.  malloc may give an address again that was freed.  A     *)
(* thread that uses an element that is not allocated ends the run.  The    *)
(* version that yields in push is left out: it runs before uthread_init.   *)
(***************************************************************************)
EXTENDS Integers, Sequences, FiniteSets

CONSTANTS
    n,              \* argv[2]
    Addresses       \* what malloc gives

NULL == 0

VARIABLES
    version,
    top, next, lock,
    allocated,
    pushes, pops,               \* how many are left
    push_pc, pop_pc, push_e, pop_e,
    crashed                     \* an element was used or freed that is not allocated
vars == <<version, top, next, lock, allocated, pushes, pops, push_pc, pop_pc, push_e, pop_e, crashed>>

Versions == {"single", "race", "broken spinlock", "synchronized"}
Locks == version \in {"broken spinlock", "synchronized"}

Init ==
    /\ version \in Versions
    /\ top = NULL /\ next = [a \in Addresses |-> NULL] /\ lock = 0
    /\ allocated = {} /\ pushes = n /\ pops = n
    /\ push_pc = "malloc" /\ pop_pc = "lock" /\ push_e = NULL /\ pop_e = NULL
    /\ crashed = FALSE

\* push_driver: malloc, then push.
Malloc ==
    /\ push_pc = "malloc" /\ pushes > 0
    /\ \E a \in Addresses \ allocated :
          /\ push_e' = a /\ allocated' = allocated \cup {a}
          /\ push_pc' = "lock"
    /\ UNCHANGED <<version, top, next, lock, pushes, pops, pop_pc, pop_e, crashed>>

\* Variant: spinlock_lock does not set what it tested.
LockTestedOnly == (Locks => lock = 0) /\ UNCHANGED lock

\* spinlock_lock, and broken_spinlock_lock, which sets the lock in a step of its own.
LockTested == (Locks => lock = 0) /\ lock' = (IF version = "synchronized" THEN 1 ELSE lock)
Behind(to) == IF version = "broken spinlock" THEN "set" ELSE to

LockPush ==
    /\ push_pc = "lock" /\ LockTested /\ push_pc' = Behind("link")
    /\ UNCHANGED <<version, top, next, allocated, pushes, pops, pop_pc, push_e, pop_e, crashed>>
SetPush ==
    /\ push_pc = "set" /\ lock' = 1 /\ push_pc' = "link"
    /\ UNCHANGED <<version, top, next, allocated, pushes, pops, pop_pc, push_e, pop_e, crashed>>

\* push_st: e->next = top, and then top = e; and the unlock.
Link ==
    /\ push_pc = "link" /\ next' = [next EXCEPT ![push_e] = top] /\ push_pc' = "top"
    /\ UNCHANGED <<version, top, lock, allocated, pushes, pops, pop_pc, push_e, pop_e, crashed>>
SetTop ==
    /\ push_pc = "top" /\ top' = push_e
    /\ push_pc' = IF Locks THEN "unlock" ELSE "malloc"
    /\ pushes' = pushes - 1
    /\ UNCHANGED <<version, next, lock, allocated, pops, pop_pc, push_e, pop_e, crashed>>
UnlockPush ==
    /\ push_pc = "unlock" /\ lock' = 0 /\ push_pc' = "malloc"
    /\ UNCHANGED <<version, top, next, allocated, pushes, pops, pop_pc, push_e, pop_e, crashed>>

\* single_threaded pops when it has pushed all.
MayPop == pops > 0 /\ (version = "single" => pushes = 0)

LockPop ==
    /\ pop_pc = "lock" /\ MayPop /\ LockTested /\ pop_pc' = Behind("top")
    /\ UNCHANGED <<version, top, next, allocated, pushes, pops, push_pc, push_e, pop_e, crashed>>
SetPop ==
    /\ pop_pc = "set" /\ lock' = 1 /\ pop_pc' = "top"
    /\ UNCHANGED <<version, top, next, allocated, pushes, pops, push_pc, push_e, pop_e, crashed>>

\* pop_st: e = top, and then top = top? top->next: 0, which looks at top again.
ReadTop ==
    /\ pop_pc = "top" /\ pop_e' = top /\ pop_pc' = "next"
    /\ UNCHANGED <<version, top, next, lock, allocated, pushes, pops, push_pc, push_e, crashed>>
TakeTop ==
    /\ pop_pc = "next"
    /\ top' = IF top = NULL THEN NULL ELSE next[top]
    /\ crashed' = (top # NULL /\ top \notin allocated)
    /\ pop_pc' = IF Locks THEN "unlock" ELSE "free"
    /\ UNCHANGED <<version, next, lock, allocated, pushes, pops, push_pc, push_e, pop_e>>
UnlockPop ==
    /\ pop_pc = "unlock" /\ lock' = 0 /\ pop_pc' = "free"
    /\ UNCHANGED <<version, top, next, allocated, pushes, pops, push_pc, push_e, pop_e, crashed>>

\* pop_driver: again if there was none, else free.
Free ==
    /\ pop_pc = "free" /\ pop_pc' = "lock"
    /\ IF pop_e = NULL THEN UNCHANGED <<allocated, pops, crashed>>
       ELSE /\ pops' = pops - 1
            /\ allocated' = allocated \ {pop_e}
            /\ crashed' = (pop_e \notin allocated)
    /\ UNCHANGED <<version, top, next, lock, pushes, push_pc, push_e, pop_e>>

Pusher == ~crashed /\ (Malloc \/ LockPush \/ SetPush \/ Link \/ SetTop \/ UnlockPush)
Popper == ~crashed /\ (LockPop \/ SetPop \/ ReadTop \/ TakeTop \/ UnlockPop \/ Free)
Next == Pusher \/ Popper

Spec == Init /\ [][Next]_vars

-----------------------------------------------------------------------------
AllDone == pushes = 0 /\ pops = 0

\* The elements from top on, as far as the links go.
Stacked ==
    LET from[k \in 0..Cardinality(Addresses)] ==
            IF k = 0 THEN top ELSE IF from[k - 1] = NULL THEN NULL ELSE next[from[k - 1]]
    IN  {from[k] : k \in DOMAIN from} \ {NULL}

\* Except without a lock, and with the lock that does not exclude, nothing is
\* popped twice or lost: when no thread is inside push or pop the stack holds
\* what is allocated, and in the end that is nothing, as the program asserts.
StackIntact ==
    version \notin {"race", "broken spinlock"} =>
        /\ ~crashed
        /\ push_pc = "malloc" /\ pop_pc = "lock" =>
              Stacked = allocated /\ Cardinality(allocated) = pops - pushes
        /\ AllDone => top = NULL
=============================================================================
