----------------------------- MODULE Semaphore -----------------------------
(***************************************************************************)
(* What uthread_sem.h promises: a wait takes a permit and waits until      *)
(* there is one, a signal adds one.  UthreadSem shows that both versions   *)
(* of uthread_sem.c implement this; the programs that use semaphores are   *)
(* modelled over it.                                                       *)
(***************************************************************************)
EXTENDS Naturals

CONSTANTS
    Sems,       \* the semaphores
    Initial     \* [Sems -> Nat]: initial_value of uthread_sem_create

VARIABLE permits

SemInit == permits = Initial

P(s) == /\ permits[s] > 0
        /\ permits' = [permits EXCEPT ![s] = @ - 1]

V(s) == permits' = [permits EXCEPT ![s] = @ + 1]

SemNext == \E s \in Sems : P(s) \/ V(s)

SemSpec == SemInit /\ [][SemNext]_permits
=============================================================================
