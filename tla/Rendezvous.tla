----------------------------- MODULE Rendezvous -----------------------------
(***************************************************************************)
(* a10/q3.c: NUM_THREADS threads wait for each other.  Each counts itself, *)
(* waits while somebody is missing, and broadcasts when it goes on.  A     *)
(* step runs under mx, from the lock or the return of uthread_cond_wait to *)
(* the next wait or the unlock.                                            *)
(***************************************************************************)
EXTENDS Naturals, FiniteSets, Waiting

CONSTANT Threads

NUM_THREADS == Cardinality(Threads)

VARIABLES
    count,
    waiters,    \* the queue of cond
    pc          \* where each thread is

vars == <<count, waiters, pc>>

TypeOK == /\ count \in 0..NUM_THREADS
          /\ waiters \in Seq(Threads)
          /\ pc \in [Threads -> {"a", "waits", "woken", "b"}]

Init == /\ count = 0
        /\ waiters = <<>>
        /\ pc = [t \in Threads |-> "a"]

\* Variant: the last thread goes on without the broadcast.
WaitOrGoSilently(t, n) ==
    IF n < NUM_THREADS
    THEN /\ waiters' = Append(waiters, t)
         /\ pc' = [pc EXCEPT ![t] = "waits"]
    ELSE UNCHANGED waiters /\ pc' = [pc EXCEPT ![t] = "b"]

\* waitForAllOtherThreads with n threads counted, and the broadcast after it.
WaitOrGo(t, n) ==
    IF n < NUM_THREADS
    THEN /\ waiters' = Append(waiters, t)
         /\ pc' = [pc EXCEPT ![t] = "waits"]
    ELSE /\ waiters' = <<>>
         /\ pc' = [u \in Threads |-> IF u = t THEN "b"
                                     ELSE IF u \in Signalled(waiters, Len(waiters)) THEN "woken" ELSE pc[u]]

Arrive(t) == /\ pc[t] = "a"
             /\ count' = count + 1
             /\ WaitOrGo(t, count + 1)

Retest(t) == /\ pc[t] = "woken"
             /\ WaitOrGo(t, count)
             /\ UNCHANGED count

Step(t) == Arrive(t) \/ Retest(t)

Next == \E t \in Threads : Step(t)

Spec == Init /\ [][Next]_vars

-----------------------------------------------------------------------------
\* The b of a thread comes after the a of every thread.
NobodyLeavesEarly == \A t \in Threads : pc[t] = "b" => \A u \in Threads : pc[u] # "a"

AllDone == \A t \in Threads : pc[t] = "b"
=============================================================================
