-------------------------------- MODULE Pool --------------------------------
(***************************************************************************)
(* examples/uthread/examples/pc_spinlock.c and pc_mutex_cond.c: producers  *)
(* and consumers of a counter, items.  With the spinlock a thread spins on *)
(* items without the lock, and tests it again once it has the lock; with   *)
(* the mutex it waits on a condition variable.  Histograms are left out.   *)
(***************************************************************************)
EXTENDS Integers, Waiting

CONSTANTS Producers, Consumers, MAX_ITEMS, NUM_ITERATIONS

VARIABLES
    version,        \* "spin" for pc_spinlock.c, "mutex" for pc_mutex_cond.c
    items,
    waiters,        \* the queues of p->notFull and p->notEmpty
    iterations,     \* i of producer and consumer
    pc              \* where each thread is

vars == <<version, items, waiters, iterations, pc>>

Versions == {"spin", "mutex"}
Threads == Producers \cup Consumers
Conds == {"notFull", "notEmpty"}

TypeOK ==
    /\ version \in Versions
    /\ items \in Int
    /\ waiters \in [Conds -> Seq(Threads)]
    /\ iterations \in [Threads -> 0..NUM_ITERATIONS]
    /\ pc \in [Threads -> {"runs", "saw", "waits"}]

Init ==
    /\ version \in Versions
    /\ items = 0
    /\ waiters = [c \in Conds |-> <<>>]
    /\ iterations = [t \in Threads |-> 0]
    /\ pc = [t \in Threads |-> "runs"]

\* t cannot go on: no room for a producer, nothing for a consumer.
Cannot(t) == items = (IF t \in Producers THEN MAX_ITEMS ELSE 0)
Change(t) == items' = items + (IF t \in Producers THEN 1 ELSE -1)
Own(t) == IF t \in Producers THEN "notFull" ELSE "notEmpty"
Other(t) == IF t \in Producers THEN "notEmpty" ELSE "notFull"

Counted(t) == iterations' = [iterations EXCEPT ![t] = @ + 1]

-----------------------------------------------------------------------------
(* produce and consume of pc_spinlock.c                                    *)

\* The loop over items without the lock ends.
SpinEnds(t) ==
    /\ version = "spin"
    /\ pc[t] = "runs" /\ iterations[t] < NUM_ITERATIONS
    /\ ~Cannot(t)
    /\ pc' = [pc EXCEPT ![t] = "saw"]
    /\ UNCHANGED <<version, items, waiters, iterations>>

\* Variant: what the loop saw is not tested again under the lock.
LockedNoTest(t) ==
    /\ version = "spin"
    /\ pc[t] = "saw"
    /\ Change(t) /\ Counted(t)
    /\ pc' = [pc EXCEPT ![t] = "runs"]
    /\ UNCHANGED <<version, waiters>>

\* The section under items_lock.
Locked(t) ==
    /\ version = "spin"
    /\ pc[t] = "saw"
    /\ IF Cannot(t) THEN UNCHANGED <<items, iterations>> ELSE Change(t) /\ Counted(t)
    /\ pc' = [pc EXCEPT ![t] = "runs"]
    /\ UNCHANGED <<version, waiters>>

-----------------------------------------------------------------------------
(* producer and consumer of pc_mutex_cond.c                                *)

\* Variant: a thread signals only when the pool was empty or full.
MonitorSignalsEdge(t) ==
    /\ version = "mutex"
    /\ pc[t] = "runs" /\ iterations[t] < NUM_ITERATIONS
    /\ IF Cannot(t)
       THEN /\ waiters' = [waiters EXCEPT ![Own(t)] = Append(@, t)]
            /\ pc' = [pc EXCEPT ![t] = "waits"]
            /\ UNCHANGED <<items, iterations>>
       ELSE LET n == IF items \in {0, MAX_ITEMS} THEN 1 ELSE 0 IN
            /\ Change(t) /\ Counted(t)
            /\ waiters' = [waiters EXCEPT ![Other(t)] = LeftAfter(@, n)]
            /\ pc' = [u \in Threads |-> IF u \in Signalled(waiters[Other(t)], n) THEN "runs" ELSE pc[u]]
    /\ UNCHANGED version

\* The section under p->mutex, up to uthread_cond_wait or to the unlock.
Monitor(t) ==
    /\ version = "mutex"
    /\ pc[t] = "runs" /\ iterations[t] < NUM_ITERATIONS
    /\ IF Cannot(t)
       THEN /\ waiters' = [waiters EXCEPT ![Own(t)] = Append(@, t)]
            /\ pc' = [pc EXCEPT ![t] = "waits"]
            /\ UNCHANGED <<items, iterations>>
       ELSE /\ Change(t) /\ Counted(t)
            /\ waiters' = [waiters EXCEPT ![Other(t)] = LeftAfter(@, 1)]
            /\ pc' = [u \in Threads |-> IF u \in Signalled(waiters[Other(t)], 1) THEN "runs" ELSE pc[u]]
    /\ UNCHANGED version

Step(t) == SpinEnds(t) \/ Locked(t) \/ Monitor(t)

Next == \E t \in Threads : Step(t)

Spec == Init /\ [][Next]_vars

-----------------------------------------------------------------------------
\* The asserts of both programs.
ItemsInRange == items \in 0..MAX_ITEMS

AllDone == \A t \in Threads : iterations[t] = NUM_ITERATIONS
=============================================================================
