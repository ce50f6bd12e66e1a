----------------------------- MODULE DiskReads -----------------------------
(***************************************************************************)
(* a9: the programs that read blocks from a simulated disk, on the one     *)
(* kernel thread they have.  The disk completes reads in order and says so *)
(* with SIGALRM; the handler runs on the stack of whatever it interrupts,  *)
(* and it lets SIGALRM in again before it calls the program's interrupt    *)
(* service routine, so that a second handler may run on top of it.         *)
(* spinlock_lock masks SIGALRM, except in a uthread marked isInterrupt.    *)
(*                                                                         *)
(* sRead and treasureHunt poll a flag, aRead polls a count that callbacks  *)
(* take down, tRead blocks a uthread for every read.  A handler that finds *)
(* no read complete changes nothing and is left out.                       *)
(***************************************************************************)
EXTENDS Naturals, Sequences, FiniteSets, SequencesExt

CONSTANTS
    Blocks,         \* num_blocks
    MaxDepth        \* bound: handlers on the stack at once

Versions == {"sRead", "treasureHunt", "aRead", "tRead"}
Readers == 1..Blocks
main == 0
base == Blocks + 1
Uthreads == 0..base
Nobody == Blocks + 2
Free == MaxDepth + 1
Locks == {"prq", "queue", "ready", "pthread"}

VARIABLES
    version,        \* the program that runs
    cur,            \* the uthread that runs
    pc,             \* where each uthread is
    step,           \* the loop index of main
    next,           \* the uthread that uthread_stop switches to
    ready,          \* ready_queue
    dead,           \* uthreads that have stopped for good
    joining,        \* main is the joiner of the uthread number step
    sleeping,       \* pthread_num_sleeping
    signalled,      \* pthread_cond_wait may return
    reads,          \* all reads scheduled so far, by what they were scheduled for
    ripe,           \* how many of them have reached their completeTime
    completed,      \* how many of them the handler has taken off prq
    pending_read_queue,
    pending,        \* is_read_pending, or pending_reads
    sum,            \* the reads summed up
    lock,           \* by lock: the depth of its holder, or Free
    mask,           \* SIGALRM is blocked
    isInterrupt,    \* of the running uthread
    frames          \* the handlers on the stack, innermost last

uthreadVars == <<cur, pc, step, next, ready, dead, joining>>
idleVars == <<sleeping, signalled>>
diskVars == <<reads, ripe, completed>>
programVars == <<pending_read_queue, pending, sum>>
signalVars == <<lock, mask, isInterrupt>>
vars == <<version, uthreadVars, idleVars, diskVars, programVars, signalVars, frames>>

Init ==
    /\ version \in Versions
    /\ cur = main /\ step = 1 /\ next = Nobody
    /\ pc = [u \in Uthreads |->
                CASE u = base -> "stop"
                  [] u = main -> (CASE version = "tRead" -> "create" [] version = "aRead" -> "schedule" [] OTHER -> "set")
                  [] OTHER -> "schedule"]
    /\ ready = <<>> /\ dead = {} /\ joining = FALSE
    /\ sleeping = 0 /\ signalled = FALSE
    /\ reads = <<>> /\ ripe = 0 /\ completed = 0
    /\ pending_read_queue = <<>> /\ sum = {}
    /\ pending = IF version = "aRead" THEN Blocks ELSE 0
    /\ lock = [l \in Locks |-> Free] /\ mask = FALSE /\ isInterrupt = FALSE
    /\ frames = <<>>

-----------------------------------------------------------------------------
(* Locks and signals.                                                      *)

Depth == Len(frames)

\* Variant: SIGALRM is not masked.
SpinLockUnmasked(l) ==
    /\ lock[l] = Free
    /\ lock' = [lock EXCEPT ![l] = Depth]
    /\ UNCHANGED mask

SpinLock(l) ==
    /\ lock[l] = Free
    /\ lock' = [lock EXCEPT ![l] = Depth]
    /\ mask' = (mask \/ ~isInterrupt)

SpinUnlock(l) ==
    /\ lock' = [lock EXCEPT ![l] = Free]
    /\ mask' = (mask /\ isInterrupt)

\* pthread_mutex_lock and pthread_mutex_unlock.
PthreadLock == lock["pthread"] = Free /\ lock' = [lock EXCEPT !["pthread"] = Depth]
PthreadUnlock == lock' = [lock EXCEPT !["pthread"] = Free]

\* The running uthread is at l, and no handler runs on top of it.
At(l) == frames = <<>> /\ pc[cur] = l
Goto(l) == pc' = [pc EXCEPT ![cur] = l]

\* The innermost handler is at l.
Top == frames[Depth]
HandlerAt(l) == frames # <<>> /\ Top.pc = l
HandlerGoto(l) == frames' = [frames EXCEPT ![Depth].pc = l]

\* What a read is scheduled for: the uthread, or the turn of the loop.
Reading == IF version = "tRead" THEN cur ELSE step

-----------------------------------------------------------------------------
(* Scheduling a read and queueing its completion.                          *)

\* prq_enqueue takes prq_mutex.
ScheduleLock ==
    /\ At("schedule") /\ SpinLock("prq") /\ Goto("prq_enqueue")
    /\ UNCHANGED <<version, cur, step, next, ready, dead, joining, idleVars, diskVars, programVars, isInterrupt, frames>>

\* The read is the last of the pending ones.
prq_enqueue ==
    /\ At("prq_enqueue") /\ SpinUnlock("prq")
    /\ reads' = Append(reads, Reading)
    /\ Goto(IF version \in {"aRead", "tRead"} THEN "enqueue" ELSE "poll")
    /\ UNCHANGED <<version, cur, step, next, ready, dead, joining, idleVars, ripe, completed, programVars, isInterrupt, frames>>

EnqueueLock ==
    /\ At("enqueue") /\ SpinLock("queue") /\ Goto("queue_enqueue")
    /\ UNCHANGED <<version, cur, step, next, ready, dead, joining, idleVars, diskVars, programVars, isInterrupt, frames>>

\* The uthread, or the buffer and its callback; aRead goes on to its next read.
queue_enqueue ==
    /\ At("queue_enqueue") /\ SpinUnlock("queue")
    /\ pending_read_queue' = Append(pending_read_queue, Reading)
    /\ \/ version = "tRead" /\ Goto("stop") /\ UNCHANGED step
       \/ version = "aRead" /\ step < Blocks /\ Goto("schedule") /\ step' = step + 1
       \/ version = "aRead" /\ step = Blocks /\ Goto("poll") /\ UNCHANGED step
    /\ UNCHANGED <<version, cur, next, ready, dead, joining, idleVars, diskVars, pending, sum, isInterrupt, frames>>

-----------------------------------------------------------------------------
(* sRead, treasureHunt and aRead: main polls.                              *)

SetFlag ==
    /\ At("set")
    /\ pending' = 1
    /\ Goto("schedule")
    /\ UNCHANGED <<version, cur, step, next, ready, dead, joining, idleVars, diskVars, pending_read_queue, sum, signalVars, frames>>

\* The loop over the flag ends; the result is used.  treasureHunt reads as many
\* blocks as the first one says, the next one always where the last one says.
PollFlag ==
    /\ version \in {"sRead", "treasureHunt"}
    /\ At("poll") /\ pending = 0
    /\ sum' = sum \cup {step}
    /\ \/ step < Blocks /\ Goto("set") /\ step' = step + 1
       \/ (step = Blocks \/ version = "treasureHunt") /\ Goto("done") /\ UNCHANGED step
    /\ UNCHANGED <<version, cur, next, ready, dead, joining, idleVars, diskVars, pending_read_queue, pending, signalVars, frames>>

PollCount ==
    /\ version = "aRead"
    /\ At("poll") /\ pending = 0
    /\ Goto("done")
    /\ UNCHANGED <<version, cur, step, next, ready, dead, joining, idleVars, diskVars, programVars, signalVars, frames>>

-----------------------------------------------------------------------------
(* tRead: main creates the uthreads and joins them.                        *)

InReady == ToSet(ready)
Put(t) == ready' = IF t \in InReady THEN ready ELSE Append(ready, t)

\* ready_queue_enqueue by a uthread, from its spinlock on.
ReadyLock(from, to) ==
    /\ At(from) /\ SpinLock("ready") /\ Goto(to)
    /\ UNCHANGED <<version, cur, step, next, ready, dead, joining, idleVars, diskVars, programVars, isInterrupt, frames>>

uthread_create ==
    \/ ReadyLock("create", "created")
    \/ /\ At("created") /\ Put(step) /\ SpinUnlock("ready")
       /\ \/ step < Blocks /\ step' = step + 1 /\ Goto("create")
          \/ step = Blocks /\ step' = 1 /\ Goto("join")
       /\ UNCHANGED <<version, cur, next, dead, joining, idleVars, diskVars, programVars, isInterrupt, frames>>

\* The next turn of main's loop over uthread_join.
NextJoin == IF step < Blocks THEN step' = step + 1 /\ Goto("join") ELSE step' = step /\ Goto("done")

\* A dead uthread is freed together with its join lock, and SIGALRM stays
\* masked; for another one main stops.
uthread_join ==
    \/ /\ At("join") /\ step \notin dead
       /\ joining' = TRUE /\ mask' = FALSE
       /\ Goto("stop")
       /\ UNCHANGED <<version, cur, step, next, ready, dead, idleVars, diskVars, programVars, lock, isInterrupt, frames>>
    \/ /\ At("join") \/ At("joined")
       /\ step \in dead
       /\ joining' = FALSE /\ mask' = TRUE
       /\ NextJoin
       /\ UNCHANGED <<version, cur, next, ready, dead, idleVars, diskVars, programVars, lock, isInterrupt, frames>>

\* The uthread sums its result up and returns; under its join lock it starts
\* main, when main waits for it.
SumUp ==
    /\ At("sum")
    /\ sum' = sum \cup {cur}
    /\ mask' = TRUE
    /\ Goto(IF joining /\ cur = step THEN "start" ELSE "die")
    /\ UNCHANGED <<version, cur, step, next, ready, dead, joining, idleVars, diskVars, pending_read_queue, pending, lock, isInterrupt, frames>>

StartJoiner ==
    \/ ReadyLock("start", "started")
    \/ /\ At("started") /\ Put(main) /\ SpinUnlock("ready") /\ Goto("die")
       /\ UNCHANGED <<version, cur, step, next, dead, joining, idleVars, diskVars, programVars, isInterrupt, frames>>

\* The join lock is released, and the uthread stops for good.
Die ==
    /\ At("die")
    /\ mask' = FALSE
    /\ Goto("stop")
    /\ dead' = dead \cup {cur}
    /\ UNCHANGED <<version, cur, step, next, ready, joining, idleVars, diskVars, programVars, lock, isInterrupt, frames>>

-----------------------------------------------------------------------------
(* uthread_stop.                                                           *)

StopLock == ReadyLock("stop", "dequeue")

\* A ready uthread, else the base uthread; when that one runs already it takes
\* pthread_mutex and lets SIGALRM in.
ready_queue_dequeue ==
    /\ At("dequeue")
    /\ \/ /\ ready # <<>>
          /\ ready' = Tail(ready) /\ next' = Head(ready)
          /\ SpinUnlock("ready") /\ Goto("switch")
       \/ /\ ready = <<>> /\ cur # base
          /\ next' = base
          /\ SpinUnlock("ready") /\ Goto("switch")
          /\ UNCHANGED ready
       \/ /\ ready = <<>> /\ cur = base
          /\ lock' = [lock EXCEPT !["ready"] = Free, !["pthread"] = Depth]
          /\ mask' = (mask /\ isInterrupt)
          /\ Goto("falling_asleep")
          /\ UNCHANGED <<ready, next>>
    /\ UNCHANGED <<version, cur, step, dead, joining, idleVars, diskVars, programVars, isInterrupt, frames>>

\* pthread_num_sleeping ++, and pthread_cond_wait releases the mutex.
FallAsleep ==
    /\ At("falling_asleep")
    /\ sleeping' = sleeping + 1 /\ signalled' = FALSE
    /\ PthreadUnlock /\ Goto("asleep")
    /\ UNCHANGED <<version, cur, step, next, ready, dead, joining, diskVars, programVars, mask, isInterrupt, frames>>

\* pthread_cond_wait takes the mutex again.
WakeUp ==
    /\ At("asleep") /\ signalled
    /\ PthreadLock /\ Goto("waking")
    /\ UNCHANGED <<version, cur, step, next, ready, dead, joining, idleVars, diskVars, programVars, mask, isInterrupt, frames>>

\* It may return without a signal.
SpuriousWakeUp ==
    /\ At("asleep") /\ ~signalled
    /\ PthreadLock /\ Goto("waking")
    /\ UNCHANGED <<version, cur, step, next, ready, dead, joining, idleVars, diskVars, programVars, mask, isInterrupt, frames>>

Awake ==
    /\ At("waking")
    /\ sleeping' = sleeping - 1
    /\ PthreadUnlock /\ Goto("stop")
    /\ UNCHANGED <<version, cur, step, next, ready, dead, joining, signalled, diskVars, programVars, mask, isInterrupt, frames>>

\* Where a uthread goes on that is switched to.
Resumed(u) == CASE u = base -> "stop" [] u = main -> "joined" [] OTHER -> "sum"

\* A nascent uthread starts, another one returns from uthread_switch.
uthread_switch ==
    /\ At("switch")
    /\ cur' = next /\ next' = Nobody
    /\ pc' = [pc EXCEPT ![cur] = "stopped",
                        ![next] = IF pc[next] = "schedule" THEN "schedule" ELSE Resumed(next)]
    /\ UNCHANGED <<version, step, ready, dead, joining, idleVars, diskVars, programVars, signalVars, frames>>

-----------------------------------------------------------------------------
(* The disk and the handler of SIGALRM.                                    *)

\* The completeTime of the next read is reached.
TimePasses ==
    /\ ripe < Len(reads)
    /\ ripe' = ripe + 1
    /\ UNCHANGED <<version, uthreadVars, idleVars, reads, completed, programVars, signalVars, frames>>

\* The signal interrupts whatever runs; it is masked while its handler runs.
Interrupt ==
    /\ ~mask /\ Depth < MaxDepth
    /\ completed < ripe /\ pc[main] # "done"
    /\ frames' = Append(frames, [pc |-> "lock", now |-> ripe, val |-> Nobody, old |-> 0])
    /\ mask' = TRUE
    /\ UNCHANGED <<version, uthreadVars, idleVars, diskVars, programVars, lock, isInterrupt>>

HandlerLock ==
    /\ HandlerAt("lock") /\ SpinLock("prq") /\ HandlerGoto("test")
    /\ UNCHANGED <<version, uthreadVars, idleVars, diskVars, programVars, isInterrupt>>

\* Variant: the interrupt is delivered and the read is still to be done.
HandlerTakesLater ==
    /\ HandlerAt("test") /\ completed < Top.now
    /\ SpinUnlock("prq") /\ HandlerGoto("deliver")
    /\ UNCHANGED <<version, uthreadVars, idleVars, diskVars, programVars, isInterrupt>>

\* The first read is complete: performDMA, prq_dequeue_lock_held, and prq_mutex
\* is released, which unmasks SIGALRM.
HandlerTakes ==
    /\ HandlerAt("test") /\ completed < Top.now
    /\ completed' = completed + 1
    /\ SpinUnlock("prq") /\ HandlerGoto("deliver")
    /\ UNCHANGED <<version, uthreadVars, idleVars, reads, ripe, programVars, isInterrupt>>

\* No further read was complete when this handler began; its return unmasks.
HandlerReturns ==
    /\ HandlerAt("test") /\ completed >= Top.now
    /\ lock' = [lock EXCEPT !["prq"] = Free]
    /\ mask' = FALSE
    /\ frames' = Front(frames)
    /\ UNCHANGED <<version, uthreadVars, idleVars, diskVars, programVars, isInterrupt>>

\* uthread_setInterrupt (1), and the interrupt service routine is called.
Deliver ==
    /\ HandlerAt("deliver")
    /\ isInterrupt' = TRUE
    /\ HandlerGoto(IF version \in {"aRead", "tRead"} THEN "pop" ELSE "clear")
    /\ UNCHANGED <<version, uthreadVars, idleVars, diskVars, programVars, lock, mask>>

Delivered ==
    /\ HandlerAt("delivered")
    /\ isInterrupt' = FALSE
    /\ HandlerGoto("lock")
    /\ UNCHANGED <<version, uthreadVars, idleVars, diskVars, programVars, lock, mask>>

-----------------------------------------------------------------------------
(* The interrupt service routines.                                         *)

\* sRead and treasureHunt clear the flag.
ClearFlag ==
    /\ HandlerAt("clear")
    /\ pending' = 0
    /\ HandlerGoto("delivered")
    /\ UNCHANGED <<version, uthreadVars, idleVars, diskVars, pending_read_queue, sum, signalVars>>

PopLock ==
    /\ HandlerAt("pop") /\ SpinLock("queue") /\ HandlerGoto("queue_dequeue")
    /\ UNCHANGED <<version, uthreadVars, idleVars, diskVars, programVars, isInterrupt>>

\* An empty queue gives a null uthread or callback: the program crashes on it.
queue_dequeue ==
    /\ HandlerAt("queue_dequeue") /\ SpinUnlock("queue")
    /\ \/ /\ pending_read_queue = <<>>
          /\ HandlerGoto("crash")
          /\ UNCHANGED pending_read_queue
       \/ /\ pending_read_queue # <<>>
          /\ pending_read_queue' = Tail(pending_read_queue)
          /\ frames' = [frames EXCEPT ![Depth].pc = IF version = "tRead" THEN "unblock" ELSE "load_sum",
                                      ![Depth].val = Head(pending_read_queue)]
    /\ UNCHANGED <<version, uthreadVars, idleVars, diskVars, pending, sum, isInterrupt>>

\* uthread_unblock, with the spinlock and the mutex of ready_queue_enqueue.
uthread_unblock ==
    /\ HandlerAt("unblock") /\ SpinLock("ready") /\ Put(Top.val) /\ HandlerGoto("mutex")
    /\ UNCHANGED <<version, cur, pc, step, next, dead, joining, idleVars, diskVars, programVars, isInterrupt>>

WakeLock ==
    /\ HandlerAt("mutex") /\ PthreadLock /\ HandlerGoto("signal")
    /\ UNCHANGED <<version, uthreadVars, idleVars, diskVars, programVars, mask, isInterrupt>>

\* Variant: off by one in the test of pthread_num_sleeping.
WakeSignalOthers ==
    /\ HandlerAt("signal") /\ PthreadUnlock
    /\ signalled' = (signalled \/ sleeping > 1)
    /\ HandlerGoto("unlock")
    /\ UNCHANGED <<version, uthreadVars, sleeping, diskVars, programVars, mask, isInterrupt>>

WakeSignal ==
    /\ HandlerAt("signal") /\ PthreadUnlock
    /\ signalled' = (signalled \/ sleeping > 0)
    /\ HandlerGoto("unlock")
    /\ UNCHANGED <<version, uthreadVars, sleeping, diskVars, programVars, mask, isInterrupt>>

WakeUnlock ==
    /\ HandlerAt("unlock") /\ SpinUnlock("ready") /\ HandlerGoto("delivered")
    /\ UNCHANGED <<version, uthreadVars, idleVars, diskVars, programVars, isInterrupt>>

\* handle_read: sum += ..., and pending_reads--, each a load and a store.
handle_read ==
    \/ /\ HandlerAt("load_sum")
       /\ frames' = [frames EXCEPT ![Depth].pc = "store_sum", ![Depth].old = sum]
       /\ UNCHANGED <<sum, pending>>
    \/ /\ HandlerAt("store_sum")
       /\ sum' = Top.old \cup {Top.val}
       /\ HandlerGoto("load_count")
       /\ UNCHANGED pending
    \/ /\ HandlerAt("load_count")
       /\ frames' = [frames EXCEPT ![Depth].pc = "store_count", ![Depth].old = pending]
       /\ UNCHANGED <<sum, pending>>
    \/ /\ HandlerAt("store_count")
       /\ pending' = Top.old - 1
       /\ HandlerGoto("delivered")
       /\ UNCHANGED sum

HandleRead ==
    /\ handle_read
    /\ UNCHANGED <<version, uthreadVars, idleVars, diskVars, pending_read_queue, signalVars>>

-----------------------------------------------------------------------------
UthreadStep ==
    \/ ScheduleLock \/ prq_enqueue \/ EnqueueLock \/ queue_enqueue
    \/ SetFlag \/ PollFlag \/ PollCount
    \/ uthread_create \/ uthread_join \/ SumUp \/ StartJoiner \/ Die
    \/ StopLock \/ ready_queue_dequeue \/ FallAsleep \/ WakeUp \/ Awake \/ uthread_switch

HandlerStep ==
    \/ HandlerLock \/ HandlerTakes \/ HandlerReturns \/ Deliver \/ Delivered
    \/ ClearFlag \/ PopLock \/ queue_dequeue
    \/ uthread_unblock \/ WakeLock \/ WakeSignal \/ WakeUnlock \/ HandleRead

Next == UthreadStep \/ HandlerStep \/ SpuriousWakeUp \/ TimePasses \/ Interrupt

Spec == Init /\ [][Next]_vars

\* The processor goes on, time passes, and a signal that came while it was
\* masked is delivered when it is unmasked.
FairSpec == Spec /\ WF_vars(UthreadStep) /\ WF_vars(HandlerStep) /\ WF_vars(TimePasses) /\ SF_vars(Interrupt)

-----------------------------------------------------------------------------
\* The disk has written the result of this read.
HasResult(r) == \E i \in 1..completed : reads[i] = r

\* Whoever goes on to use a result has it, also when handlers overtake each
\* other; and an interrupt service routine finds no entry only when it comes
\* between disk_schedule_read and queue_enqueue.
ResultsDelivered ==
    /\ \A r \in sum : HasResult(r)
    /\ \A r \in Readers : pc[r] = "sum" => HasResult(r)
    /\ \A i \in DOMAIN frames :
          /\ frames[i].pc \in {"unblock", "load_sum"} => HasResult(frames[i].val)
          /\ frames[i].pc = "crash" => pc[cur] = "enqueue"

\* The lock the innermost handler is about to take.
Wanted == CASE Top.pc = "lock" -> "prq" [] Top.pc = "pop" -> "queue"
            [] Top.pc = "unblock" -> "ready" [] Top.pc = "mutex" -> "pthread" [] OTHER -> "none"

\* It waits for a lock that something below it on the same stack holds.
Hangs == frames # <<>> /\ Wanted # "none" /\ lock[Wanted] # Free

\* That is never prq_mutex and never a spinlock of the program: SIGALRM has hit
\* another interrupt service routine, or the base uthread where it has
\* pthread_mutex without the mask.
OnlyKnownHangs ==
    Hangs => \/ /\ Wanted \in {"queue", "ready"}
                /\ lock[Wanted] > 0
             \/ /\ Wanted = "pthread" /\ lock["pthread"] = 0
                /\ cur = base /\ pc[base] \in {"falling_asleep", "waking"}

\* pending_reads is larger than the number of reads still to be handled.
DecrementLost ==
    version = "aRead" /\ frames = <<>> /\ completed = Blocks /\ pending > 0

\* The program is at its end, or one of these or a crash has ended it.
Over == pc[main] = "done" \/ Hangs \/ DecrementLost \/ (frames # <<>> /\ Top.pc = "crash")

\* No completion and no wakeup is lost otherwise.
ReadsComplete == <>Over
=============================================================================
