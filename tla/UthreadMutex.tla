---------------------------- MODULE UthreadMutex ----------------------------
(***************************************************************************)
(* a11/uthreads/uthread_mutex_cond.c over uthread_block and                *)
(* uthread_unblock.  A section under mutex->spinlock is one step.  Between *)
(* spinlock_unlock and uthread_block a thread is on a queue and still      *)
(* runs; an unblock that comes then is remembered (UthreadUnblock), so     *)
(* block and unblock are a token per thread here.                          *)
(*                                                                         *)
(* The threads are any client that unlocks what it locks and that waits    *)
(* and signals only while it holds the mutex, as the asserts demand.       *)
(***************************************************************************)
EXTENDS Integers, Sequences, FiniteSets, SequencesExt

CONSTANTS Threads, Conds, None

ASSUME NoneAssumption == None \notin Threads
ASSUME FiniteAssumption == IsFiniteSet(Threads)

VARIABLES
    holder,                 \* mutex->holder
    reader_count,           \* mutex->reader_count
    waiter_queue,           \* mutex->waiter_queue
    reader_waiter_queue,    \* mutex->reader_waiter_queue
    cond_queue,             \* cond->waiter_queue of each condition variable
    woken,                  \* threads unblocked that have not returned from uthread_block
    pc                      \* where each thread is

mutexVars == <<holder, reader_count, waiter_queue, reader_waiter_queue>>
vars == <<mutexVars, cond_queue, woken, pc>>

Blocking == {"lock_block", "readonly_block", "wait_block"}

Places == {"idle", "lock", "readonly", "write", "read", "wait_unlock"} \cup Blocking

TypeOK ==
    /\ holder \in Threads \cup {None}
    /\ reader_count \in 0..Cardinality(Threads)
    /\ waiter_queue \in Seq(Threads)
    /\ reader_waiter_queue \in Seq(Threads)
    /\ cond_queue \in [Conds -> Seq(Threads)]
    /\ woken \subseteq Threads
    /\ pc \in [Threads -> Places]

\* uthread_mutex_create, uthread_cond_create
Init ==
    /\ holder = None
    /\ reader_count = 0
    /\ waiter_queue = <<>>
    /\ reader_waiter_queue = <<>>
    /\ cond_queue = [c \in Conds |-> <<>>]
    /\ woken = {}
    /\ pc = [t \in Threads |-> "idle"]

Goto(t, l) == pc' = [pc EXCEPT ![t] = l]

-----------------------------------------------------------------------------
\* A thread calls uthread_mutex_lock or uthread_mutex_lock_readonly.
Call(t) == /\ pc[t] = "idle"
           /\ Goto(t, "lock") \/ Goto(t, "readonly")
           /\ UNCHANGED <<mutexVars, cond_queue, woken>>

\* uthread_mutex_lock, one turn of its loop.
Lock(t) ==
    /\ pc[t] = "lock"
    /\ IF holder # None \/ reader_count > 0
       THEN /\ waiter_queue' = Append(waiter_queue, t)
            /\ Goto(t, "lock_block")
            /\ UNCHANGED holder
       ELSE /\ holder' = t
            /\ Goto(t, "write")
            /\ UNCHANGED waiter_queue
    /\ UNCHANGED <<reader_count, reader_waiter_queue, cond_queue, woken>>

\* uthread_mutex_lock_readonly, one turn of its loop.
LockReadonly(t) ==
    /\ pc[t] = "readonly"
    /\ IF holder # None \/ waiter_queue # <<>>
       THEN /\ reader_waiter_queue' = Append(reader_waiter_queue, t)
            /\ Goto(t, "readonly_block")
            /\ UNCHANGED reader_count
       ELSE /\ reader_count' = reader_count + 1
            /\ Goto(t, "read")
            /\ UNCHANGED reader_waiter_queue
    /\ UNCHANGED <<holder, waiter_queue, cond_queue, woken>>

\* Variant: a thread that was unblocked believes that it holds the mutex.
UnblockedHolds(t) ==
    /\ pc[t] \in Blocking /\ t \in woken
    /\ woken' = woken \ {t}
    /\ IF pc[t] = "readonly_block"
       THEN reader_count' = reader_count + 1 /\ Goto(t, "read") /\ UNCHANGED holder
       ELSE holder' = t /\ Goto(t, "write") /\ UNCHANGED reader_count
    /\ UNCHANGED <<waiter_queue, reader_waiter_queue, cond_queue>>

\* uthread_block returns: the loops test again, uthread_cond_wait locks.
Unblocked(t) ==
    /\ pc[t] \in Blocking /\ t \in woken
    /\ woken' = woken \ {t}
    /\ Goto(t, IF pc[t] = "readonly_block" THEN "readonly" ELSE "lock")
    /\ UNCHANGED <<mutexVars, cond_queue>>

-----------------------------------------------------------------------------
\* Variant: readers are woken first, and a writer only when no reader waits.
WakeReadersFirst ==
    IF reader_waiter_queue # <<>>
    THEN /\ woken' = woken \cup ToSet(reader_waiter_queue)
         /\ reader_waiter_queue' = <<>>
         /\ UNCHANGED waiter_queue
    ELSE /\ woken' = IF waiter_queue = <<>> THEN woken ELSE woken \cup {Head(waiter_queue)}
         /\ waiter_queue' = IF waiter_queue = <<>> THEN <<>> ELSE Tail(waiter_queue)
         /\ UNCHANGED reader_waiter_queue

\* Variant: only a writer is woken.
WakeWriterOnly ==
    /\ woken' = IF waiter_queue = <<>> THEN woken ELSE woken \cup {Head(waiter_queue)}
    /\ waiter_queue' = IF waiter_queue = <<>> THEN <<>> ELSE Tail(waiter_queue)
    /\ UNCHANGED reader_waiter_queue

\* The end of uthread_mutex_unlock: wake one writer, or else every reader.
WakeNext ==
    IF waiter_queue # <<>>
    THEN /\ woken' = woken \cup {Head(waiter_queue)}
         /\ waiter_queue' = Tail(waiter_queue)
         /\ UNCHANGED reader_waiter_queue
    ELSE /\ woken' = woken \cup ToSet(reader_waiter_queue)
         /\ reader_waiter_queue' = <<>>
         /\ UNCHANGED waiter_queue

\* Variant: a reader that unlocks is not counted.
ReleaseForgetsReader ==
    /\ holder' = None
    /\ UNCHANGED reader_count
    /\ IF reader_count' = 0 THEN WakeNext
       ELSE UNCHANGED <<waiter_queue, reader_waiter_queue, woken>>

\* The section of uthread_mutex_unlock under the spinlock.
ReleaseLock ==
    /\ holder' = None
    /\ reader_count' = IF holder # None THEN reader_count ELSE reader_count - 1
    /\ IF reader_count' = 0 THEN WakeNext
       ELSE UNCHANGED <<waiter_queue, reader_waiter_queue, woken>>

Unlock(t) ==
    /\ pc[t] \in {"write", "read"}
    /\ ReleaseLock
    /\ Goto(t, "idle")
    /\ UNCHANGED cond_queue

\* uthread_cond_wait: on the queue, then uthread_mutex_unlock, then block.
Wait(t, c) ==
    /\ pc[t] = "write"
    /\ cond_queue' = [cond_queue EXCEPT ![c] = Append(@, t)]
    /\ Goto(t, "wait_unlock")
    /\ UNCHANGED <<mutexVars, woken>>

WaitUnlock(t) ==
    /\ pc[t] = "wait_unlock"
    /\ ReleaseLock
    /\ Goto(t, "wait_block")
    /\ UNCHANGED cond_queue

\* Variant: the waiter is unblocked but left on the queue.
SignalLeavesWaiter(t, c) ==
    /\ pc[t] = "write"
    /\ cond_queue[c] # <<>>
    /\ woken' = woken \cup {Head(cond_queue[c])}
    /\ UNCHANGED <<mutexVars, cond_queue, pc>>

Signal(t, c) ==
    /\ pc[t] = "write"
    /\ cond_queue[c] # <<>>
    /\ woken' = woken \cup {Head(cond_queue[c])}
    /\ cond_queue' = [cond_queue EXCEPT ![c] = Tail(@)]
    /\ UNCHANGED <<mutexVars, pc>>

Broadcast(t, c) ==
    /\ pc[t] = "write"
    /\ cond_queue[c] # <<>>
    /\ woken' = woken \cup ToSet(cond_queue[c])
    /\ cond_queue' = [cond_queue EXCEPT ![c] = <<>>]
    /\ UNCHANGED <<mutexVars, pc>>

-----------------------------------------------------------------------------
\* What a thread does unless it is blocked, and what it need not do.
Progress(t) == Lock(t) \/ LockReadonly(t) \/ Unblocked(t) \/ Unlock(t) \/ WaitUnlock(t)
Choice(t) == Call(t) \/ \E c \in Conds : Wait(t, c) \/ Signal(t, c) \/ Broadcast(t, c)

Next == \E t \in Threads : Progress(t) \/ Choice(t)

Spec == Init /\ [][Next]_vars

\* A runnable thread runs, and a client unlocks in the end.
FairSpec == Spec /\ \A t \in Threads : WF_vars(Progress(t))

-----------------------------------------------------------------------------
Writers == {t \in Threads : pc[t] \in {"write", "wait_unlock"}}
Readers == {t \in Threads : pc[t] = "read"}

\* A thread that holds the mutex exclusively is alone, also against readers,
\* whoever barges in between an unlock and the woken thread's next test.
MutualExclusion ==
    /\ \A s, t \in Writers : s = t
    /\ Writers # {} => Readers = {}

\* mutex->holder and mutex->reader_count say who is inside; the asserts of
\* uthread_mutex_unlock, _wait, _signal and _broadcast cannot fail.
HolderAndCount ==
    /\ Writers = (IF holder = None THEN {} ELSE {holder})
    /\ reader_count = Cardinality(Readers)

\* Where t is queued: the queues linked through the next field of its TCB.
Positions(t) ==
    {<<"waiter_queue", i>> : i \in {j \in DOMAIN waiter_queue : waiter_queue[j] = t}}
    \cup {<<"reader_waiter_queue", i>> :
             i \in {j \in DOMAIN reader_waiter_queue : reader_waiter_queue[j] = t}}
    \cup (UNION {{<<c, i>> : i \in {j \in DOMAIN cond_queue[c] : cond_queue[c][j] = t}} : c \in Conds})
    \cup (IF t \in woken THEN {<<"ready_queue", 0>>} ELSE {})

\* A TCB has one next pointer: a thread is on at most one queue, the ready
\* queue included, it is about to block while it is on one, and a thread that is
\* about to block is on one (or its unblock would never come).
OnOneQueue ==
    \A t \in Threads : Cardinality(Positions(t))
                       = (IF pc[t] \in Blocking \cup {"wait_unlock"} THEN 1 ELSE 0)

\* A free mutex that writers wait for has a writer on its way, and one that
\* readers wait for has somebody on the way: no wakeup is lost.
OnItsWay(b, p) == {t \in Threads : pc[t] = p \/ (pc[t] \in b /\ t \in woken)}
NoLostWakeup ==
    holder = None /\ reader_count = 0 =>
        LET w == OnItsWay({"lock_block", "wait_block"}, "lock")
            r == OnItsWay({"readonly_block"}, "readonly")
        IN /\ waiter_queue # <<>> => w # {}
           /\ reader_waiter_queue # <<>> => w \cup r # {}

Trying == {t \in Threads : \/ pc[t] \in {"lock", "readonly", "lock_block", "readonly_block"}
                           \/ pc[t] = "wait_block" /\ t \in woken}

\* While threads try to lock the mutex, somebody gets it again and again.
SomebodyGetsIt == Trying # {} ~> Writers \cup Readers # {}

\* Who waits on c: a thread waits from the moment it has unlocked, and only the
\* last one on the queue may still have to.
WaitersOf(c) ==
    IF cond_queue[c] # <<>> /\ pc[Last(cond_queue[c])] = "wait_unlock"
    THEN Front(cond_queue[c])
    ELSE cond_queue[c]

\* The monitor this implements.
M == INSTANCE Monitor WITH
        NoThread <- None, owner <- holder, readers <- Readers,
        waiting <- [c \in Conds |-> WaitersOf(c)]

\* uthread_mutex_cond.c implements the monitor its header describes; waiting
\* and unlocking are one step to the other threads.
ImplementsMonitor == M!MonitorSpec
=============================================================================
