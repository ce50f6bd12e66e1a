----------------------------- MODULE ReadyQueue -----------------------------
(***************************************************************************)
(* What the ready queue of a11/uthreads/uthread.c promises: a first-in     *)
(* first-out queue without duplicates whose operations are atomic, and     *)
(* processors that sleep when it is empty and are woken one per enqueue.   *)
(* ReadyQueueIdle shows that the spinlock, the pthread mutex and the       *)
(* condition variable implement this.                                      *)
(***************************************************************************)
EXTENDS Sequences

CONSTANTS
    Procs,      \* the kernel threads
    Threads     \* the uthreads that may be queued

VARIABLES
    ready,      \* ready_queue, head first
    sleeping    \* processors in pthread_cond_wait of ready_queue_dequeue

queueVars == <<ready, sleeping>>

Queued == {ready[i] : i \in DOMAIN ready}

QInit == ready = <<>> /\ sleeping = {}

\* uthread_enqueue ignores a thread that is queued already; ready_queue_enqueue
\* signals one sleeping processor, if there is one.
Enqueue(t) ==
    /\ ready' = IF t \in Queued THEN ready ELSE Append(ready, t)
    /\ \/ sleeping = {} /\ sleeping' = {}
       \/ \E q \in sleeping : sleeping' = sleeping \ {q}

\* uthread_dequeue of t, the head of the queue.
Take(t) == /\ ready # <<>>
           /\ t = Head(ready)
           /\ ready' = Tail(ready)
           /\ UNCHANGED sleeping

\* A processor that runs its base uthread finds the queue empty.
Sleep(p) == /\ ready = <<>>
            /\ p \notin sleeping
            /\ sleeping' = sleeping \cup {p}
            /\ UNCHANGED ready

\* pthread_cond_wait may return without a signal.
WakeUp(p) == /\ p \in sleeping
             /\ sleeping' = sleeping \ {p}
             /\ UNCHANGED ready

QNext == \/ \E t \in Threads : Enqueue(t) \/ Take(t)
         \/ \E p \in Procs : Sleep(p) \/ WakeUp(p)

QSpec == QInit /\ [][QNext]_queueVars
=============================================================================
