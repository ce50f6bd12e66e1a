--------------------------- MODULE ReadyQueueIdle ---------------------------
(***************************************************************************)
(* ready_queue_enqueue and ready_queue_dequeue of a11/uthreads/uthread.c,  *)
(* one step per access to ready_queue_spinlock, pthread_mutex,             *)
(* pthread_wakeup, pthread_num_sleeping and the queue itself.              *)
(*                                                                         *)
(* The environment is the scheduler: a processor runs a uthread or its     *)
(* base uthread; a uthread may start another one, which is stopped, and    *)
(* may stop itself; the base uthread stops at once.                        *)
(***************************************************************************)
EXTENDS Naturals, Sequences, FiniteSets

CONSTANTS
    Procs, Threads,
    None            \* no processor and no uthread

VARIABLES
    queue,      \* ready_queue, head first
    spinlock,   \* holder of ready_queue_spinlock, or None
    mutex,      \* holder of pthread_mutex, or None
    sleepers,   \* pthread_num_sleeping
    waiting,    \* processors blocked in pthread_cond_wait
    pc,         \* where each processor is
    running,    \* the uthread each processor runs; None for its base uthread
    arg         \* the uthread a processor enqueues or has dequeued

vars == <<queue, spinlock, mutex, sleepers, waiting, pc, running, arg>>
lockVars == <<spinlock, mutex>>
condVars == <<sleepers, waiting>>

InQueue == {queue[i] : i \in DOMAIN queue}

EnqueuePC == {"e_lock", "e_put", "e_mutex", "e_signal", "e_munlock", "e_unlock"}
DequeuePC == {"d_lock", "d_take", "d_unlock", "d_mutex", "d_sunlock", "d_wait",
              "waiting", "d_wake", "d_munlock"}

TypeOK ==
    /\ queue \in Seq(Threads)
    /\ spinlock \in Procs \cup {None}
    /\ mutex \in Procs \cup {None}
    /\ sleepers \in 0..Cardinality(Procs)
    /\ waiting \subseteq Procs
    /\ pc \in [Procs -> {"run", "stop"} \cup EnqueuePC \cup DequeuePC]
    /\ running \in [Procs -> Threads \cup {None}]
    /\ arg \in [Procs -> Threads \cup {None}]

Init ==
    /\ queue = <<>>
    /\ spinlock = None /\ mutex = None
    /\ sleepers = 0 /\ waiting = {}
    /\ running \in [Procs -> Threads \cup {None}]
    /\ \A p, q \in Procs : running[p] = running[q] /\ running[p] # None => p = q
    /\ pc = [p \in Procs |-> IF running[p] = None THEN "stop" ELSE "run"]
    /\ arg = [p \in Procs |-> None]

Goto(p, l) == pc' = [pc EXCEPT ![p] = l]

LockSpin(p) == spinlock = None /\ spinlock' = p
LockMutex(p) == mutex = None /\ mutex' = p

-----------------------------------------------------------------------------
(* The scheduler around the queue.                                         *)

\* uthread_start, uthread_create or uthread_yield: enqueue a uthread.
Start(p, t) ==
    /\ pc[p] = "run"
    /\ t \notin InQueue /\ \A q \in Procs : running[q] # t /\ arg[q] # t
    /\ arg' = [arg EXCEPT ![p] = t]
    /\ Goto(p, "e_lock")
    /\ UNCHANGED <<queue, lockVars, condVars, running>>

\* uthread_stop calls ready_queue_dequeue.
Stop(p) ==
    /\ pc[p] \in {"run", "stop"}
    /\ Goto(p, "d_lock")
    /\ UNCHANGED <<queue, lockVars, condVars, running, arg>>

-----------------------------------------------------------------------------
(* ready_queue_enqueue.                                                    *)

EnqueueLock(p) ==
    /\ pc[p] = "e_lock" /\ LockSpin(p)
    /\ Goto(p, "e_put")
    /\ UNCHANGED <<queue, mutex, condVars, running, arg>>

Put(p) ==
    /\ pc[p] = "e_put"
    /\ queue' = IF arg[p] \in InQueue THEN queue ELSE Append(queue, arg[p])
    /\ Goto(p, "e_mutex")
    /\ UNCHANGED <<lockVars, condVars, running, arg>>

\* Variant: pthread_num_sleeping is read without pthread_mutex.
EnqueueMutexSkipped(p) ==
    /\ pc[p] = "e_mutex"
    /\ Goto(p, IF sleepers > 0 THEN "e_signal" ELSE "e_unlock")
    /\ UNCHANGED <<queue, lockVars, condVars, running, arg>>

EnqueueMutex(p) ==
    /\ pc[p] = "e_mutex" /\ LockMutex(p)
    /\ Goto(p, "e_signal")
    /\ UNCHANGED <<queue, spinlock, condVars, running, arg>>

\* if (pthread_num_sleeping) pthread_cond_signal: it wakes a waiting processor.
Signal(p) ==
    /\ pc[p] = "e_signal"
    /\ IF sleepers > 0 /\ waiting # {}
       THEN \E q \in waiting : /\ waiting' = waiting \ {q}
                               /\ pc' = [pc EXCEPT ![p] = "e_munlock", ![q] = "d_wake"]
       ELSE Goto(p, "e_munlock") /\ UNCHANGED waiting
    /\ UNCHANGED <<queue, lockVars, sleepers, running, arg>>

EnqueueMutexUnlock(p) ==
    /\ pc[p] = "e_munlock"
    /\ mutex' = None
    /\ Goto(p, "e_unlock")
    /\ UNCHANGED <<queue, spinlock, condVars, running, arg>>

EnqueueUnlock(p) ==
    /\ pc[p] = "e_unlock"
    /\ spinlock' = None
    /\ arg' = [arg EXCEPT ![p] = None]
    /\ Goto(p, "run")
    /\ UNCHANGED <<queue, mutex, condVars, running>>

-----------------------------------------------------------------------------
(* ready_queue_dequeue.                                                    *)

DequeueLock(p) ==
    /\ pc[p] = "d_lock" /\ LockSpin(p)
    /\ Goto(p, "d_take")
    /\ UNCHANGED <<queue, mutex, condVars, running, arg>>

\* Variant: the last uthread on the queue is not seen.
TakeLeavesLast(p) ==
    /\ pc[p] = "d_take"
    /\ \/ /\ Len(queue) > 1
          /\ queue' = Tail(queue)
          /\ arg' = [arg EXCEPT ![p] = Head(queue)]
          /\ Goto(p, "d_unlock")
       \/ /\ Len(queue) <= 1
          /\ arg' = [arg EXCEPT ![p] = None]
          /\ Goto(p, IF running[p] = None THEN "d_mutex" ELSE "d_unlock")
          /\ UNCHANGED queue
    /\ UNCHANGED <<lockVars, condVars, running>>

\* A queued uthread, else the base uthread, else (it runs already) go to sleep.
Take(p) ==
    /\ pc[p] = "d_take"
    /\ \/ /\ queue # <<>>
          /\ queue' = Tail(queue)
          /\ arg' = [arg EXCEPT ![p] = Head(queue)]
          /\ Goto(p, "d_unlock")
       \/ /\ queue = <<>> /\ running[p] # None
          /\ arg' = [arg EXCEPT ![p] = None]
          /\ Goto(p, "d_unlock")
          /\ UNCHANGED queue
       \/ /\ queue = <<>> /\ running[p] = None
          /\ Goto(p, "d_mutex")
          /\ UNCHANGED <<queue, arg>>
    /\ UNCHANGED <<lockVars, condVars, running>>

\* The uthread found is switched to.
DequeueUnlock(p) ==
    /\ pc[p] = "d_unlock"
    /\ spinlock' = None
    /\ running' = [running EXCEPT ![p] = arg[p]]
    /\ arg' = [arg EXCEPT ![p] = None]
    /\ Goto(p, IF arg[p] = None THEN "stop" ELSE "run")
    /\ UNCHANGED <<queue, mutex, condVars>>

\* Variant: release the spinlock, and take the mutex later.
DequeueMutexLate(p) ==
    /\ pc[p] = "d_mutex"
    /\ spinlock' = None
    /\ Goto(p, "d_wait")
    /\ UNCHANGED <<queue, mutex, condVars, running, arg>>

DequeueMutex(p) ==
    /\ pc[p] = "d_mutex" /\ LockMutex(p)
    /\ Goto(p, "d_sunlock")
    /\ UNCHANGED <<queue, spinlock, condVars, running, arg>>

DequeueSpinUnlock(p) ==
    /\ pc[p] = "d_sunlock"
    /\ spinlock' = None
    /\ Goto(p, "d_wait")
    /\ UNCHANGED <<queue, mutex, condVars, running, arg>>

\* pthread_num_sleeping ++; pthread_cond_wait releases the mutex and waits.
Wait(p) ==
    /\ pc[p] = "d_wait"
    /\ sleepers' = sleepers + 1
    /\ waiting' = waiting \cup {p}
    /\ mutex' = None
    /\ Goto(p, "waiting")
    /\ UNCHANGED <<queue, spinlock, running, arg>>

\* pthread_cond_wait may return without a signal.
SpuriousWakeUp(p) ==
    /\ p \in waiting
    /\ waiting' = waiting \ {p}
    /\ Goto(p, "d_wake")
    /\ UNCHANGED <<queue, lockVars, sleepers, running, arg>>

\* pthread_cond_wait takes the mutex again; pthread_num_sleeping --.
Wake(p) ==
    /\ pc[p] = "d_wake" /\ LockMutex(p)
    /\ sleepers' = sleepers - 1
    /\ Goto(p, "d_munlock")
    /\ UNCHANGED <<queue, spinlock, waiting, running, arg>>

DequeueMutexUnlock(p) ==
    /\ pc[p] = "d_munlock"
    /\ mutex' = None
    /\ Goto(p, "d_lock")
    /\ UNCHANGED <<queue, spinlock, condVars, running, arg>>

-----------------------------------------------------------------------------
Acquire(p) == EnqueueLock(p) \/ EnqueueMutex(p) \/ DequeueLock(p) \/ DequeueMutex(p) \/ Wake(p)

Other(p) ==
    \/ Stop(p) \/ Put(p) \/ Signal(p) \/ EnqueueMutexUnlock(p) \/ EnqueueUnlock(p)
    \/ Take(p) \/ DequeueUnlock(p) \/ DequeueSpinUnlock(p) \/ Wait(p) \/ DequeueMutexUnlock(p)
    \/ \E t \in Threads : Start(p, t)

Next == \E p \in Procs : Acquire(p) \/ Other(p) \/ SpuriousWakeUp(p)

Spec == Init /\ [][Next]_vars

\* No processor is stopped for ever, and none loses every race for a lock.
FairSpec == Spec /\ \A p \in Procs : WF_vars(Other(p)) /\ SF_vars(Acquire(p))

-----------------------------------------------------------------------------
\* A processor that will look at the queue before it sleeps.
Looking(p) == pc[p] \in {"run", "stop", "d_lock", "d_take", "d_wake", "d_munlock"} \cup EnqueuePC

\* No wakeup is lost: while uthreads are queued and their signals have been
\* sent, a processor that will look at the queue exists for each of them, or no
\* processor sleeps.
NoLostWakeup ==
    (\E p \in Procs : pc[p] \in {"waiting", "d_wait", "d_sunlock", "d_mutex"})
    /\ (\A p \in Procs : pc[p] \notin {"e_mutex", "e_signal"})
    => Len(queue) <= Cardinality({p \in Procs : Looking(p)})

\* Every queued uthread is dequeued in the end, whatever else is queued.
QueueServed == \A t \in Threads : (t \in InQueue) ~> (t \notin InQueue)

\* The atomic queue that this implements: an enqueue takes effect when it
\* signals, and a processor sleeps from the moment it has found the queue empty.
Unsignalled == \E p \in Procs : pc[p] \in {"e_mutex", "e_signal"}
Settled == IF Unsignalled THEN SubSeq(queue, 1, Len(queue) - 1) ELSE queue
Asleep == {p \in Procs : pc[p] \in {"d_mutex", "d_sunlock", "d_wait", "waiting"}}

RQ == INSTANCE ReadyQueue WITH ready <- Settled, sleeping <- Asleep

\* The locks, the counter and the condition variable implement the atomic ready
\* queue: no uthread is queued without a sleeping processor having been woken
\* for it, and a processor falls asleep only when nothing is queued.
ImplementsReadyQueue == RQ!QSpec
=============================================================================
