----------------------------- MODULE UthreadSem -----------------------------
(***************************************************************************)
(* The two versions of uthread_sem.c over uthread_block and                *)
(* uthread_unblock.  In a10 and a11 uthread_sem_wait decrements first and  *)
(* a signal hands its permit to the thread it dequeues; in                 *)
(* examples/uthread the woken thread tests value again, and another thread *)
(* may have been faster.  A section under sem->spinlock is one step.       *)
(*                                                                         *)
(* The threads share permits: a thread that got one gives it back, and     *)
(* any thread may add permits, up to MaxPermits.                           *)
(***************************************************************************)
EXTENDS Integers, Sequences, FiniteSets

CONSTANTS
    Threads,
    InitialValue,   \* of uthread_sem_create
    MaxPermits      \* bound on the permits the threads add

ASSUME InitialAssumption == InitialValue \in Nat /\ MaxPermits \in Nat
ASSUME FiniteAssumption == IsFiniteSet(Threads)

VARIABLES
    version,        \* which uthread_sem.c the program is linked with
    value,          \* sem->value
    waiter_queue,   \* sem->waiter_queue
    woken,          \* threads unblocked that have not returned from uthread_block
    pc              \* where each thread is

vars == <<version, value, waiter_queue, woken, pc>>

Versions == {"handoff", "retest"}

TypeOK ==
    /\ version \in Versions
    /\ value \in Int
    /\ waiter_queue \in Seq(Threads)
    /\ woken \subseteq Threads
    /\ pc \in [Threads -> {"idle", "wait", "block", "holding"}]

Init ==
    /\ version \in Versions
    /\ value = InitialValue
    /\ waiter_queue = <<>>
    /\ woken = {}
    /\ pc = [t \in Threads |-> "idle"]

Goto(t, l) == pc' = [pc EXCEPT ![t] = l]

\* A thread calls uthread_sem_wait.
Call(t) == /\ pc[t] = "idle"
           /\ Goto(t, "wait")
           /\ UNCHANGED <<version, value, waiter_queue, woken>>

-----------------------------------------------------------------------------
(* a10 and a11.                                                            *)

WaitHandoff(t) ==
    /\ version = "handoff"
    /\ pc[t] = "wait"
    /\ value' = value - 1
    /\ IF value' < 0
       THEN waiter_queue' = Append(waiter_queue, t) /\ Goto(t, "block")
       ELSE UNCHANGED waiter_queue /\ Goto(t, "holding")
    /\ UNCHANGED <<version, woken>>

\* uthread_block returns with the permit.
UnblockedHandoff(t) ==
    /\ version = "handoff"
    /\ pc[t] = "block" /\ t \in woken
    /\ woken' = woken \ {t}
    /\ Goto(t, "holding")
    /\ UNCHANGED <<version, value, waiter_queue>>

-----------------------------------------------------------------------------
(* examples/uthread.                                                       *)

\* One turn of the loop.
WaitRetest(t) ==
    /\ version = "retest"
    /\ pc[t] = "wait"
    /\ IF value < 1
       THEN waiter_queue' = Append(waiter_queue, t) /\ Goto(t, "block") /\ UNCHANGED value
       ELSE value' = value - 1 /\ Goto(t, "holding") /\ UNCHANGED waiter_queue
    /\ UNCHANGED <<version, woken>>

\* Variant: the loop is an if.
UnblockedNoRetest(t) ==
    /\ version = "retest"
    /\ pc[t] = "block" /\ t \in woken
    /\ woken' = woken \ {t}
    /\ value' = value - 1
    /\ Goto(t, "holding")
    /\ UNCHANGED <<version, waiter_queue>>

\* uthread_block returns; value is tested again.
UnblockedRetest(t) ==
    /\ version = "retest"
    /\ pc[t] = "block" /\ t \in woken
    /\ woken' = woken \ {t}
    /\ Goto(t, "wait")
    /\ UNCHANGED <<version, value, waiter_queue>>

-----------------------------------------------------------------------------
(* Both.                                                                   *)

\* Variant: a waiter is unblocked only when value was zero or less.
PutWakesAtZero ==
    /\ value' = value + 1
    /\ IF waiter_queue # <<>> /\ value' = 1
       THEN woken' = woken \cup {Head(waiter_queue)} /\ waiter_queue' = Tail(waiter_queue)
       ELSE UNCHANGED <<waiter_queue, woken>>
    /\ UNCHANGED version

\* Variant: the thread that waited last is unblocked.
PutWakesLast ==
    /\ value' = value + 1
    /\ IF waiter_queue # <<>>
       THEN /\ woken' = woken \cup {waiter_queue[Len(waiter_queue)]}
            /\ waiter_queue' = SubSeq(waiter_queue, 1, Len(waiter_queue) - 1)
       ELSE UNCHANGED <<waiter_queue, woken>>
    /\ UNCHANGED version

\* uthread_sem_signal
Put ==
    /\ value' = value + 1
    /\ IF waiter_queue # <<>>
       THEN woken' = woken \cup {Head(waiter_queue)} /\ waiter_queue' = Tail(waiter_queue)
       ELSE UNCHANGED <<waiter_queue, woken>>
    /\ UNCHANGED version

\* The permits nobody has returned from uthread_sem_wait with.
Permits == IF version = "handoff"
           THEN (IF value > 0 THEN value ELSE 0) + Cardinality(woken)
           ELSE value

\* A thread that holds a permit signals, and so may any other.
Signal(t) == pc[t] = "holding" /\ Put /\ Goto(t, "idle")
Add(t) == pc[t] = "idle" /\ Permits < MaxPermits /\ Put /\ UNCHANGED pc

Progress(t) == \/ WaitHandoff(t) \/ UnblockedHandoff(t)
               \/ WaitRetest(t) \/ UnblockedRetest(t)
               \/ Signal(t)

Next == \E t \in Threads : Progress(t) \/ Call(t) \/ Add(t)

Spec == Init /\ [][Next]_vars

\* A runnable thread runs, and a thread that holds a permit signals in the end.
FairSpec == Spec /\ \A t \in Threads : WF_vars(Progress(t))

-----------------------------------------------------------------------------
PermitsOf == [s \in {"sem"} |-> Permits]

\* The semaphore this implements.
S == INSTANCE Semaphore WITH
        Sems <- {"sem"},
        Initial <- [s \in {"sem"} |-> InitialValue],
        permits <- PermitsOf

\* Both versions implement the semaphore of uthread_sem.h: no signal is lost or
\* counted twice, whoever gets the permit.
ImplementsSemaphore == S!SemSpec

\* With hand-off a negative value counts the waiters, and there are none
\* otherwise; with re-testing value never falls below zero.
ValueCountsWaiters ==
    IF version = "handoff"
    THEN Len(waiter_queue) = (IF value < 0 THEN -value ELSE 0)
    ELSE value >= 0

\* A permit is not left lying while threads wait: as many as there are permits,
\* or all of them, are on their way to it.
OnItsWay == {t \in Threads : pc[t] = "wait" \/ (pc[t] = "block" /\ t \in woken)}
NoLostWakeup == waiter_queue # <<>> => Cardinality(OnItsWay) >= Permits

\* With hand-off no thread waits for ever while permits come back; re-testing
\* promises this to no thread in particular.
WaiterServed ==
    \A t \in Threads :
        (version = "handoff" /\ pc[t] = "block") ~> (pc[t] = "holding")
=============================================================================
