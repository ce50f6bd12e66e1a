-------------------------- MODULE DiskReads_proofs --------------------------
(***************************************************************************)
(* The programs of a9 that read from the simulated disk, for any number of *)
(* blocks and any number of handlers on top of each other: nobody uses the *)
(* result of a read that the disk has not done, and a handler of SIGALRM   *)
(* waits for ever only where another one, or the base uthread, holds what  *)
(* it wants.                                                               *)
(*                                                                         *)
(* The argument has three parts.                                           *)
(*                                                                         *)
(*   Locks.  A uthread that holds a spinlock has SIGALRM masked and no     *)
(*   handler on top of it; so does a handler that holds prq_mutex, since   *)
(*   only interrupt service routines are exempt from the mask (Signals,    *)
(*   Holders).  What the innermost handler finds taken is therefore held   *)
(*   by an interrupt service routine below it, or is pthread_mutex, which  *)
(*   the base uthread takes without the mask.                              *)
(*                                                                         *)
(*   The queue.  A handler takes reads in the order of the disk, and its   *)
(*   interrupt service routine takes the first entry of the program's      *)
(*   queue, not the entry of that read.  Handlers that overtake each other *)
(*   exchange entries, but the entries taken are always a beginning of the *)
(*   reads that are done: as many as there are, less the handlers that     *)
(*   have a read and no entry yet (Queued).                                *)
(*                                                                         *)
(*   The uses.  sRead and treasureHunt have one read on its way, so that   *)
(*   the flag is clear only when all are done (Flag).  In tRead a uthread  *)
(*   is ready once before its read, and again only by the entry of its     *)
(*   read (Started, Results).                                              *)
(***************************************************************************)
EXTENDS DiskReads, Integers, FiniteSetTheorems, SequenceTheorems, TLAPS

\* Of a program with no block to read nothing is said.
Limits == Blocks \in Nat \ {0} /\ MaxDepth \in Nat

\* A read is scheduled and not on the program's queue yet.
QueueingPC == {"enqueue", "queue_enqueue"}
ReadingPC == {"schedule", "prq_enqueue"} \cup QueueingPC
StoppingPC == {"stop", "dequeue", "switch", "stopped"}
SleepPC == {"falling_asleep", "asleep", "waking"}
MainPC == {"create", "created", "join", "joined", "done"}
UthreadPC == ReadingPC \cup StoppingPC \cup SleepPC \cup MainPC \cup
             {"set", "poll", "sum", "start", "started", "die"}

\* The interrupt service routine runs.
IsrPC == {"clear", "pop", "queue_dequeue", "unblock", "mutex", "signal", "unlock",
          "load_sum", "store_sum", "load_count", "store_count", "delivered", "crash"}
HandlerPC == {"lock", "test", "deliver"} \cup IsrPC

\* A handler: its place and the local variables of handleTimerInterrupt and of
\* the interrupt service routine.
Frame == [pc : HandlerPC, now : Nat, val : 0..Nobody, old : (SUBSET Readers) \cup Int]

\* uthread_switch knows where it switches to, and nobody else does.
Control ==
    /\ cur \in Uthreads /\ pc \in [Uthreads -> UthreadPC]
    /\ next \in Uthreads \cup {Nobody} /\ (next # Nobody <=> pc[cur] = "switch")

Types ==
    /\ Limits
    /\ version \in Versions
    /\ Control
    /\ step \in Readers
    /\ ready \in Seq(0..Blocks)
    /\ dead \subseteq Uthreads /\ joining \in BOOLEAN
    /\ reads \in Seq(Readers) /\ ripe \in 0..Len(reads) /\ completed \in 0..ripe
    /\ pending_read_queue \in Seq(Readers)
    /\ pending \in Int /\ sum \subseteq Readers
    /\ lock \in [Locks -> 0..Free] /\ mask \in BOOLEAN /\ isInterrupt \in BOOLEAN
    /\ frames \in Seq(Frame) /\ Depth <= MaxDepth

\* Which uthread runs which part of the program.
Places ==
    /\ version # "tRead" => cur = main
    /\ pc[main] \in IF version = "tRead" THEN MainPC \cup StoppingPC
                    ELSE ReadingPC \cup {"set", "poll", "done"}
    /\ version \in {"sRead", "treasureHunt"} => pc[main] \notin QueueingPC
    /\ pc[base] \in StoppingPC \cup SleepPC
    /\ \A r \in Readers : pc[r] \in ReadingPC \cup StoppingPC \cup {"sum", "start", "started", "die"}

\* A uthread holds a spinlock.
HoldsPC == {"prq_enqueue", "queue_enqueue", "created", "started", "dequeue"}

\* The handler i is inside uthread_setInterrupt (1) and (0).
Serving(i) == frames[i].pc \in IsrPC

\* Who is exempt from the mask, and what has it.
Signals ==
    /\ pc[cur] \in HoldsPC => frames = <<>> /\ mask
    /\ isInterrupt => \E i \in DOMAIN frames : Serving(i)
    /\ \A i \in DOMAIN frames :
          /\ frames[i].pc = "test" => i = Depth /\ mask
          /\ frames[i].pc = "lock" /\ isInterrupt =>
                (i = Depth /\ mask) \/ \E j \in (i + 1)..Depth : Serving(j)

\* ready_queue_enqueue by a handler, after its spinlock.
WakingPC == {"mutex", "signal", "unlock"}

\* Who holds which lock.
Holders ==
    /\ lock["prq"] # Free => pc[cur] = "prq_enqueue" \/ HandlerAt("test")
    /\ lock["queue"] = 0 => pc[cur] = "queue_enqueue"
    /\ lock["ready"] = 0 => pc[cur] \in {"created", "started", "dequeue"}
    /\ \A i \in DOMAIN frames : frames[i].pc \in WakingPC => lock["ready"] = i
    /\ lock["pthread"] = 0 => cur = base /\ pc[base] \in {"falling_asleep", "waking"}
    /\ lock["pthread"] \in {0, Free} \/ \E i \in DOMAIN frames : i = lock["pthread"] /\ frames[i].pc = "signal"

\* Handlers that have taken a read and no entry yet.
TakenPC == {"deliver", "pop", "queue_dequeue", "crash"}
Taken == {i \in DOMAIN frames : frames[i].pc \in TakenPC}

\* k entries have been taken: they are the first k reads, and the queue has the
\* others in their order, except one that is on its way into it.
Queued(k) ==
    /\ k + Cardinality(Taken) = completed
    /\ k + Len(pending_read_queue) = IF pc[cur] \in QueueingPC THEN Len(reads) - 1 ELSE Len(reads)
    /\ \A i \in DOMAIN pending_read_queue : pending_read_queue[i] = reads[k + i]

\* aRead and tRead.
Queue ==
    version \in {"aRead", "tRead"} =>
        /\ \E k \in Nat : Queued(k)
        /\ pc[cur] \in QueueingPC => reads # <<>> /\ reads[Len(reads)] = Reading
        /\ \A i \in DOMAIN frames : frames[i].pc = "crash" => pc[cur] = "enqueue"
        /\ \A i \in DOMAIN frames : frames[i].pc # "clear"

\* sRead and treasureHunt: the read number i is that of block i, and the next
\* one is scheduled when all are done.
Flag ==
    version \in {"sRead", "treasureHunt"} =>
        /\ \A i \in DOMAIN reads : reads[i] = i
        /\ pc[main] \in {"set", "schedule", "prq_enqueue"} => Len(reads) + 1 = step
        /\ pc[main] \in {"schedule", "prq_enqueue"} => pending = 1
        /\ pc[main] # "poll" => completed = Len(reads) /\ frames = <<>>
        /\ pc[main] = "poll" => Len(reads) = step /\ completed + 1 >= step /\ (pending = 0 => completed = step)
        /\ \A i \in DOMAIN frames : /\ frames[i].pc \in {"lock", "test", "deliver", "clear", "delivered"}
                                    /\ frames[i].pc \notin {"lock", "test"} => completed = Len(reads)

\* tRead: a uthread is ready, or switched to, before it has started or when its
\* result is there.
Started ==
    /\ pc[main] \in {"create", "created"} => cur = main /\ \A r \in Readers : pc[r] = "schedule"
    /\ \A i, j \in DOMAIN ready : ready[i] = ready[j] => i = j
    /\ \A r \in Readers :
          (r \in InReady \/ next = r) =>
              \/ HasResult(r)
              \/ pc[r] = "schedule" /\ cur # r /\ ~(r \in InReady /\ next = r)
    /\ \A r \in Readers : pc[r] = "sum" => HasResult(r)

\* The results that have been used, and those the handlers are about to use.
Results ==
    /\ \A r \in sum : HasResult(r)
    /\ \A i \in DOMAIN frames :
          /\ frames[i].now <= ripe
          /\ frames[i].pc \in {"unblock", "load_sum", "store_sum"} =>
                frames[i].val \in Readers /\ HasResult(frames[i].val)
          /\ frames[i].pc = "store_sum" =>
                frames[i].old \in SUBSET Readers /\ \A r \in frames[i].old : HasResult(r)
          /\ frames[i].pc = "store_count" => frames[i].old \in Int

DInv == Types /\ Places /\ Signals /\ Holders /\ Queue /\ Flag /\ Started /\ Results

-----------------------------------------------------------------------------
\* The innermost handler goes on to l, with v and o as its local variables.
Moved(l, v, o) ==
    /\ frames \in Seq(Frame) /\ frames' \in Seq(Frame)
    /\ Depth \in Nat \ {0} /\ Depth' = Depth
    /\ DOMAIN frames = 1..Depth /\ DOMAIN frames' = 1..Depth
    /\ \A i \in 1..Depth :
          /\ frames'[i].pc = IF i = Depth THEN l ELSE frames[i].pc
          /\ frames'[i].now = frames[i].now
          /\ frames'[i].val = IF i = Depth THEN v ELSE frames[i].val
          /\ frames'[i].old = IF i = Depth THEN o ELSE frames[i].old

\* A handler moves by one new record in its place.
LEMMA FrameMoves ==
    ASSUME frames \in Seq(Frame), frames # <<>>,
           NEW l \in HandlerPC, NEW v \in 0..Nobody, NEW o \in (SUBSET Readers) \cup Int,
           frames' = [frames EXCEPT ![Depth] = [pc |-> l, now |-> Top.now, val |-> v, old |-> o]]
    PROVE  Moved(l, v, o)
<1>1. Depth \in Nat \ {0} /\ DOMAIN frames = 1..Depth
  BY DEF Depth
<1>2. \A i \in 1..Depth : frames[i] \in Frame
  BY <1>1
<1>3. [pc |-> l, now |-> Top.now, val |-> v, old |-> o] \in Frame
  BY <1>1, <1>2 DEF Top, Frame
<1>4. frames' \in Seq(Frame) /\ Len(frames') = Len(frames)
  BY <1>1, <1>3 DEF Depth
<1>5. \A i \in 1..Depth : frames'[i] = IF i = Depth THEN [pc |-> l, now |-> Top.now, val |-> v, old |-> o]
                                        ELSE frames[i]
  BY <1>1, <1>3 DEF Depth
<1> QED  BY <1>1, <1>2, <1>4, <1>5 DEF Moved, Depth, Top, Frame

\* [fr EXCEPT !.pc = l] spelt out.
LEMMA FrameExcept ==
    ASSUME NEW fr \in Frame, NEW l \in HandlerPC
    PROVE  [fr EXCEPT !.pc = l] = [pc |-> l, now |-> fr.now, val |-> fr.val, old |-> fr.old]
BY DEF Frame

\* A handler that only goes on keeps its local variables.
LEMMA GotoMoves ==
    ASSUME frames \in Seq(Frame), frames # <<>>, NEW l \in HandlerPC, HandlerGoto(l)
    PROVE  Moved(l, Top.val, Top.old)
<1>1. Depth \in Nat \ {0} /\ DOMAIN frames = 1..Depth
  BY DEF Depth
<1>2. Top \in Frame
  BY <1>1 DEF Top
<1>4. [Top EXCEPT !.pc = l] = [pc |-> l, now |-> Top.now, val |-> Top.val, old |-> Top.old]
  BY <1>2, FrameExcept
<1>5. frames' = [frames EXCEPT ![Depth] = [Top EXCEPT !.pc = l]]
  BY DEF HandlerGoto, Top
<1>3. frames' = [frames EXCEPT ![Depth] = [pc |-> l, now |-> Top.now, val |-> Top.val, old |-> Top.old]]
  BY <1>4, <1>5
<1> QED  BY <1>2, <1>3, FrameMoves DEF Frame

-----------------------------------------------------------------------------
\* The constants as numbers.
Numbers ==
    /\ Blocks \in Nat \ {0} /\ MaxDepth \in Nat
    /\ base = Blocks + 1 /\ Nobody = Blocks + 2 /\ Free = MaxDepth + 1 /\ main = 0
    /\ Readers = 1..Blocks /\ Uthreads = 0..Blocks + 1

\* The constants are what Numbers says.
LEMMA TheNumbers == ASSUME Limits PROVE Numbers
BY DEF Limits, Numbers, base, Nobody, Free, main, Readers, Uthreads

\* What a uthread's step leaves alone.
LEMMA UthreadAlone ==
    ASSUME Types, UthreadStep \/ SpuriousWakeUp
    PROVE  /\ frames = <<>> /\ frames' = <<>> /\ Depth = 0 /\ Depth' = 0
           /\ DOMAIN frames = {} /\ DOMAIN frames' = {}
           /\ UNCHANGED <<version, isInterrupt, ripe, completed>>
<1>1. frames = <<>> /\ UNCHANGED <<frames, version, isInterrupt, ripe, completed>>
  BY DEF UthreadStep, SpuriousWakeUp, ScheduleLock, prq_enqueue, EnqueueLock, queue_enqueue, SetFlag, PollFlag,
         PollCount, uthread_create, ReadyLock, uthread_join, SumUp, StartJoiner, Die, StopLock,
         ready_queue_dequeue, FallAsleep, WakeUp, Awake, uthread_switch, At, programVars, diskVars, signalVars
<1> QED  BY <1>1 DEF Depth

\* spinlock_lock takes one lock and masks SIGALRM outside interrupt service routines.
LEMMA LockTaken ==
    ASSUME Types, NEW l \in Locks, SpinLock(l)
    PROVE  /\ lock[l] = Free /\ lock' \in [Locks -> 0..Free] /\ mask' \in BOOLEAN
           /\ lock'[l] = Depth /\ \A k \in Locks \ {l} : lock'[k] = lock[k]
           /\ mask' = (mask \/ ~isInterrupt)
<1> USE TheNumbers DEF Numbers
<1>1. Depth \in 0..Free
  BY DEF Types, Depth
<1> QED BY <1>1 DEF Types, SpinLock

\* spinlock_unlock frees one lock.
LEMMA LockFreed ==
    ASSUME Types, NEW l \in Locks, SpinUnlock(l)
    PROVE  /\ lock' \in [Locks -> 0..Free] /\ mask' \in BOOLEAN
           /\ lock'[l] = Free /\ \A k \in Locks \ {l} : lock'[k] = lock[k]
           /\ mask' = (mask /\ isInterrupt)
<1> USE TheNumbers DEF Numbers
<1> QED BY DEF Types, SpinUnlock

\* pthread_mutex_lock takes one lock and leaves the mask alone.
LEMMA PthreadTaken ==
    ASSUME Types, PthreadLock
    PROVE  /\ lock["pthread"] = Free /\ lock' \in [Locks -> 0..Free]
           /\ lock'["pthread"] = Depth /\ \A k \in Locks \ {"pthread"} : lock'[k] = lock[k]
<1> USE TheNumbers DEF Numbers
<1>1. Depth \in 0..Free /\ "pthread" \in Locks
  BY DEF Types, Depth, Locks
<1> QED BY <1>1 DEF Types, PthreadLock

\* pthread_mutex_unlock frees one lock.
LEMMA PthreadFreed ==
    ASSUME Types, PthreadUnlock
    PROVE  /\ lock' \in [Locks -> 0..Free]
           /\ lock'["pthread"] = Free /\ \A k \in Locks \ {"pthread"} : lock'[k] = lock[k]
<1> USE TheNumbers DEF Numbers
<1>1. "pthread" \in Locks
  BY DEF Locks
<1> QED BY <1>1 DEF Types, PthreadUnlock

\* Where a uthread goes.
LEMMA Gone ==
    ASSUME Numbers, Control, NEW l \in UthreadPC, l # "switch", pc[cur] # "switch", Goto(l),
           cur' = cur, next' = next
    PROVE  /\ Control' /\ pc'[cur] = l
           /\ \A u \in Uthreads \ {cur} : pc'[u] = pc[u]
BY DEF Control, Goto

\* uthread_enqueue.
LEMMA IsPut ==
    ASSUME NEW S, ready \in Seq(S), NEW t \in S, Put(t)
    PROVE  /\ ready' \in Seq(S) /\ InReady' = InReady \cup {t}
           /\ (\A i, j \in DOMAIN ready : ready[i] = ready[j] => i = j) =>
                  (\A i, j \in DOMAIN ready' : ready'[i] = ready'[j] => i = j)
<1>1. CASE t \in InReady
  BY <1>1 DEF Put, InReady, ToSet
<1>2. CASE t \notin InReady
  <2>1. ready' = Append(ready, t) /\ ready' \in Seq(S)
    BY <1>2 DEF Put
  <2>2. DOMAIN ready' = 1..(Len(ready) + 1) /\ DOMAIN ready = 1..Len(ready) /\ Len(ready) \in Nat
    BY <2>1
  <2>3. \A i \in DOMAIN ready' : ready'[i] = IF i <= Len(ready) THEN ready[i] ELSE t
    BY <2>1
  <2>4. \A i \in DOMAIN ready : ready[i] # t
    BY <1>2 DEF InReady, ToSet
  <2>5. InReady' = InReady \cup {t}
    BY <2>2, <2>3 DEF InReady, ToSet
  <2> QED  BY <2>1, <2>2, <2>3, <2>4, <2>5
<1> QED  BY <1>1, <1>2

\* uthread_dequeue.
LEMMA IsTaken ==
    ASSUME NEW S, ready \in Seq(S), ready # <<>>, ready' = Tail(ready)
    PROVE  /\ ready' \in Seq(S) /\ InReady = InReady' \cup {Head(ready)} /\ Head(ready) \in S
           /\ (\A i, j \in DOMAIN ready : ready[i] = ready[j] => i = j) =>
                  /\ \A i, j \in DOMAIN ready' : ready'[i] = ready'[j] => i = j
                  /\ Head(ready) \notin InReady'
<1>1. /\ ready' \in Seq(S) /\ Head(ready) = ready[1] /\ Head(ready) \in S
      /\ Len(ready) \in Nat \ {0}
      /\ DOMAIN ready = 1..Len(ready) /\ DOMAIN ready' = 1..(Len(ready) - 1)
      /\ \A i \in DOMAIN ready' : ready'[i] = ready[i + 1]
  OBVIOUS
<1>2. \A i \in DOMAIN ready : i = 1 \/ i - 1 \in DOMAIN ready'
  BY <1>1
<1>3. InReady = InReady' \cup {Head(ready)}
  <2>1. ASSUME NEW x \in InReady  PROVE x \in InReady' \cup {Head(ready)}
    <3>1. PICK i \in DOMAIN ready : x = ready[i]
      BY DEF InReady, ToSet
    <3>2. i = 1 \/ x = ready'[i - 1]
      BY <1>1, <1>2, <3>1
    <3> QED BY <1>1, <1>2, <3>1, <3>2 DEF InReady, ToSet
  <2>2. ASSUME NEW x \in InReady' \cup {Head(ready)}  PROVE x \in InReady
    BY <1>1, <2>2 DEF InReady, ToSet
  <2> QED BY <2>1, <2>2
<1>4. ASSUME \A i, j \in DOMAIN ready : ready[i] = ready[j] => i = j
      PROVE  /\ \A i, j \in DOMAIN ready' : ready'[i] = ready'[j] => i = j
             /\ Head(ready) \notin InReady'
  BY <1>1, <1>4 DEF InReady, ToSet
<1> QED BY <1>1, <1>3, <1>4

-----------------------------------------------------------------------------
(* Types.                                                                  *)

\* Who runs, told by its place.
LEMMA WhoRuns ==
    ASSUME Numbers, Control, Places
    PROVE  /\ cur = main \/ cur = base \/ cur \in Readers
           /\ pc[cur] \in ReadingPC => IF version = "tRead" THEN cur \in Readers ELSE cur = main
           /\ pc[cur] \in QueueingPC => version \notin {"sRead", "treasureHunt"}
           /\ pc[cur] \in MainPC \cup {"set", "poll"} => cur = main
           /\ pc[cur] \in {"set", "poll"} => version # "tRead"
           /\ pc[cur] \in {"create", "created", "join", "joined"} => version = "tRead"
           /\ pc[cur] \in SleepPC => cur = base /\ version = "tRead"
           /\ pc[cur] \in {"sum", "start", "started", "die"} => cur \in Readers /\ version = "tRead"
           /\ pc[cur] \in StoppingPC => version = "tRead"
<1>1. cur = main \/ cur = base \/ cur \in Readers
  BY DEF Numbers, Control
<1>2. CASE cur = main
  BY <1>2 DEF Places, MainPC, ReadingPC, QueueingPC, StoppingPC, SleepPC
<1>3. CASE cur = base
  BY <1>3 DEF Numbers, Places, MainPC, ReadingPC, QueueingPC, StoppingPC, SleepPC
<1>4. CASE cur \in Readers
  BY <1>4 DEF Numbers, Places, MainPC, ReadingPC, QueueingPC, StoppingPC, SleepPC
<1> QED  BY <1>1, <1>2, <1>3, <1>4

\* Steps of uthreads keep the types.
LEMMA TypesU ==
    ASSUME Types, Places, UthreadStep \/ SpuriousWakeUp
    PROVE  Types'
<1>n. Numbers
  BY TheNumbers DEF Types
<1>p. {"prq", "queue", "ready", "pthread"} = Locks
  BY DEF Locks
<1>a. /\ Limits /\ version' = version /\ frames' = frames /\ isInterrupt' = isInterrupt /\ ripe' = ripe
      /\ completed' = completed /\ Depth' = Depth
  BY UthreadAlone DEF Types
<1>1. CASE ScheduleLock
  <2>1. Control'
    BY <1>n, <1>1, Gone DEF Types, ScheduleLock, At, UthreadPC, ReadingPC, QueueingPC, StoppingPC, SleepPC, MainPC
  <2> QED  BY <1>n, <1>p, <1>a, <1>1, <2>1, LockTaken DEF Types, ScheduleLock, At, idleVars, diskVars, programVars
<1>2. CASE prq_enqueue
  <2>1. Control'
    BY <1>n, <1>2, Gone DEF Types, prq_enqueue, At, UthreadPC, ReadingPC, QueueingPC, StoppingPC, SleepPC, MainPC
  <2>2. Reading \in Readers
    BY <1>n, <1>2, WhoRuns DEF Types, Reading, At, prq_enqueue, ReadingPC, QueueingPC
  <2>3. reads' \in Seq(Readers) /\ Len(reads') = Len(reads) + 1
    BY <1>2, <2>2 DEF Types, prq_enqueue
  <2>4. ripe \in 0..Len(reads')
    BY <2>3 DEF Types
  <2> QED  BY <1>n, <1>p, <1>a, <1>2, <2>1, <2>3, <2>4, LockFreed DEF Types, prq_enqueue, idleVars, programVars
<1>3. CASE EnqueueLock
  <2>1. Control'
    BY <1>n, <1>3, Gone DEF Types, EnqueueLock, At, UthreadPC, ReadingPC, QueueingPC, StoppingPC, SleepPC, MainPC
  <2> QED  BY <1>n, <1>p, <1>a, <1>3, <2>1, LockTaken DEF Types, EnqueueLock, At, idleVars, diskVars, programVars
<1>4. CASE queue_enqueue
  <2>1. Control'
    BY <1>n, <1>4, Gone DEF Types, queue_enqueue, At, UthreadPC, ReadingPC, QueueingPC, StoppingPC, SleepPC, MainPC
  <2>2. Reading \in Readers
    BY <1>n, <1>4, WhoRuns DEF Types, Reading, At, queue_enqueue, ReadingPC, QueueingPC
  <2>3. pending_read_queue' \in Seq(Readers)
    BY <1>4, <2>2 DEF Types, queue_enqueue
  <2>4. step' \in Readers
    BY <1>n, <1>4 DEF Types, queue_enqueue, Numbers
  <2> QED  BY <1>n, <1>p, <1>a, <1>4, <2>1, <2>3, <2>4, LockFreed DEF Types, queue_enqueue, idleVars, diskVars
<1>5. CASE SetFlag
  <2>1. Control'
    BY <1>n, <1>5, Gone DEF Types, SetFlag, At, UthreadPC, ReadingPC, QueueingPC, StoppingPC, SleepPC, MainPC
  <2> QED  BY <1>n, <1>p, <1>a, <1>5, <2>1 DEF Types, SetFlag, At, idleVars, diskVars, signalVars
<1>6. CASE PollFlag
  <2>1. Control'
    BY <1>n, <1>6, Gone DEF Types, PollFlag, At, UthreadPC, ReadingPC, QueueingPC, StoppingPC, SleepPC, MainPC
  <2>2. step' \in Readers /\ sum' \subseteq Readers
    BY <1>n, <1>6 DEF Types, PollFlag, Numbers
  <2> QED  BY <1>n, <1>p, <1>a, <1>6, <2>1, <2>2 DEF Types, PollFlag, idleVars, diskVars, signalVars
<1>7. CASE PollCount
  <2>1. Control'
    BY <1>n, <1>7, Gone DEF Types, PollCount, At, UthreadPC, ReadingPC, QueueingPC, StoppingPC, SleepPC, MainPC
  <2> QED  BY <1>n, <1>p, <1>a, <1>7, <2>1 DEF Types, PollCount, At, idleVars, diskVars, programVars, signalVars
<1>8. CASE uthread_create
  <2>1. Control'
    BY <1>n, <1>8, Gone DEF Types, uthread_create, At, UthreadPC, ReadingPC, QueueingPC, StoppingPC, SleepPC, MainPC, ReadyLock
  <2>2. step' \in Readers
    BY <1>n, <1>8 DEF Types, uthread_create, ReadyLock, Numbers
  <2>3. ready' \in Seq(0..Blocks)
    <3>1. step \in 0..Blocks
      BY <1>n DEF Types, Numbers
    <3> QED  BY <1>8, <3>1, IsPut DEF Types, uthread_create, ReadyLock
  <2>4. lock' \in [Locks -> 0..Free] /\ mask' \in BOOLEAN
    BY <1>8, <1>p, LockTaken, LockFreed DEF uthread_create, ReadyLock
  <2> QED  BY <1>n, <1>p, <1>a, <1>8, <2>1, <2>2, <2>3, <2>4 DEF Types, uthread_create, ReadyLock, idleVars, diskVars, programVars
<1>9. CASE uthread_join
  <2>1. Control'
    BY <1>n, <1>9, Gone DEF Types, uthread_join, At, UthreadPC, ReadingPC, QueueingPC, StoppingPC, SleepPC, MainPC, NextJoin
  <2>2. step' \in Readers
    BY <1>n, <1>9 DEF Types, uthread_join, NextJoin, Numbers
  <2> QED  BY <1>n, <1>p, <1>a, <1>9, <2>1, <2>2 DEF Types, uthread_join, idleVars, diskVars, programVars
<1>10. CASE SumUp
  <2>1. Control'
    BY <1>n, <1>10, Gone DEF Types, SumUp, At, UthreadPC, ReadingPC, QueueingPC, StoppingPC, SleepPC, MainPC
  <2>2. cur \in Readers
    BY <1>n, <1>10, WhoRuns DEF Types, At, SumUp
  <2> QED  BY <1>n, <1>p, <1>a, <1>10, <2>1, <2>2 DEF Types, SumUp, idleVars, diskVars, programVars
<1>11. CASE StartJoiner
  <2>1. Control'
    BY <1>n, <1>11, Gone DEF Types, StartJoiner, At, UthreadPC, ReadingPC, QueueingPC, StoppingPC, SleepPC, MainPC, ReadyLock
  <2>3. ready' \in Seq(0..Blocks)
    <3>1. main \in 0..Blocks
      BY <1>n DEF Types, Numbers
    <3> QED  BY <1>11, <3>1, IsPut DEF Types, StartJoiner, ReadyLock
  <2>4. lock' \in [Locks -> 0..Free] /\ mask' \in BOOLEAN
    BY <1>11, <1>p, LockTaken, LockFreed DEF StartJoiner, ReadyLock
  <2> QED  BY <1>n, <1>p, <1>a, <1>11, <2>1, <2>3, <2>4 DEF Types, StartJoiner, ReadyLock, idleVars, diskVars, programVars
<1>12. CASE Die
  <2>1. Control'
    BY <1>n, <1>12, Gone DEF Types, Die, At, UthreadPC, ReadingPC, QueueingPC, StoppingPC, SleepPC, MainPC
  <2>2. dead' \subseteq Uthreads
    BY <1>12 DEF Types, Control, Die
  <2> QED  BY <1>n, <1>p, <1>a, <1>12, <2>1, <2>2 DEF Types, Die, At, idleVars, diskVars, programVars
<1>13. CASE StopLock
  <2>1. Control'
    BY <1>n, <1>13, Gone DEF Types, StopLock, At, UthreadPC, ReadingPC, QueueingPC, StoppingPC, SleepPC, MainPC, ReadyLock
  <2> QED  BY <1>n, <1>p, <1>a, <1>13, <2>1, LockTaken DEF Types, StopLock, ReadyLock, At, idleVars, diskVars, programVars
<1>14. CASE ready_queue_dequeue
  <2>0. pc[cur] = "dequeue" /\ cur' = cur
    BY <1>14 DEF ready_queue_dequeue, At
  <2>1. CASE ready # <<>>
    <3>1. ready' = Tail(ready) /\ next' = Head(ready) /\ SpinUnlock("ready") /\ Goto("switch")
      BY <1>14, <2>1 DEF ready_queue_dequeue
    <3>2. ready' \in Seq(0..Blocks) /\ next' \in 0..Blocks
      BY <2>1, <3>1, IsTaken DEF Types
    <3>3. Control'
      <4>1. next' \in Uthreads /\ next' # Nobody
        BY <1>n, <3>1, <3>2 DEF Types, Control, Numbers
      <4>2. pc' \in [Uthreads -> UthreadPC] /\ pc'[cur] = "switch"
        BY <3>1 DEF Types, Control, Goto, UthreadPC, StoppingPC
      <4> QED  BY <2>0, <4>1, <4>2 DEF Types, Control
    <3> QED  BY <1>a, <1>p, <1>14, <3>1, <3>2, <3>3, LockFreed DEF Types, ready_queue_dequeue, idleVars, diskVars, programVars
  <2>2. CASE ready = <<>> /\ cur # base
    <3>1. ready' = ready /\ next' = base /\ SpinUnlock("ready") /\ Goto("switch")
      BY <1>14, <2>2 DEF ready_queue_dequeue
    <3>2. Control'
      <4>1. next' \in Uthreads /\ next' # Nobody
        BY <1>n, <3>1 DEF Types, Control, Numbers
      <4>2. pc' \in [Uthreads -> UthreadPC] /\ pc'[cur] = "switch"
        BY <3>1 DEF Types, Control, Goto, UthreadPC, StoppingPC
      <4> QED  BY <2>0, <4>1, <4>2 DEF Types, Control
    <3> QED  BY <1>a, <1>p, <1>14, <3>1, <3>2, LockFreed DEF Types, ready_queue_dequeue, idleVars, diskVars, programVars
  <2>3. CASE ready = <<>> /\ cur = base
    <3>1. /\ UNCHANGED <<ready, next>> /\ Goto("falling_asleep") /\ mask' = (mask /\ isInterrupt)
          /\ lock' = [lock EXCEPT !["ready"] = Free, !["pthread"] = Depth]
      BY <1>14, <2>3 DEF ready_queue_dequeue
    <3>2. Control'
      BY <1>n, <2>0, <3>1, Gone DEF Types, UthreadPC, SleepPC
    <3>3. Depth \in 0..Free /\ Free \in 0..Free
      BY <1>n DEF Types, Numbers, Depth
    <3>4. lock' \in [Locks -> 0..Free] /\ mask' \in BOOLEAN
      BY <1>p, <3>1, <3>3 DEF Types
    <3> QED  BY <1>a, <1>14, <3>1, <3>2, <3>4 DEF Types, ready_queue_dequeue, idleVars, diskVars, programVars
  <2> QED  BY <2>1, <2>2, <2>3
<1>15. CASE FallAsleep
  <2>1. Control'
    BY <1>n, <1>15, Gone DEF Types, FallAsleep, At, UthreadPC, ReadingPC, QueueingPC, StoppingPC, SleepPC, MainPC
  <2> QED  BY <1>n, <1>p, <1>a, <1>15, <2>1, PthreadFreed DEF Types, FallAsleep, At, diskVars, programVars
<1>16. CASE WakeUp
  <2>1. Control'
    BY <1>n, <1>16, Gone DEF Types, WakeUp, At, UthreadPC, ReadingPC, QueueingPC, StoppingPC, SleepPC, MainPC
  <2> QED  BY <1>n, <1>p, <1>a, <1>16, <2>1, PthreadTaken DEF Types, WakeUp, At, idleVars, diskVars, programVars
<1>17. CASE SpuriousWakeUp
  <2>1. Control'
    BY <1>n, <1>17, Gone DEF Types, SpuriousWakeUp, At, UthreadPC, ReadingPC, QueueingPC, StoppingPC, SleepPC, MainPC
  <2> QED  BY <1>n, <1>p, <1>a, <1>17, <2>1, PthreadTaken DEF Types, SpuriousWakeUp, At, idleVars, diskVars, programVars
<1>18. CASE Awake
  <2>1. Control'
    BY <1>n, <1>18, Gone DEF Types, Awake, At, UthreadPC, ReadingPC, QueueingPC, StoppingPC, SleepPC, MainPC
  <2> QED  BY <1>n, <1>p, <1>a, <1>18, <2>1, PthreadFreed DEF Types, Awake, At, diskVars, programVars
<1>19. CASE uthread_switch
  <2>1. Control'
    BY <1>n, <1>19 DEF Types, Control, uthread_switch, At, Resumed, UthreadPC, ReadingPC, QueueingPC, StoppingPC, SleepPC, MainPC
  <2> QED  BY <1>n, <1>a, <1>19, <2>1 DEF Types, uthread_switch, At, idleVars, diskVars, programVars, signalVars, Resumed
<1> QED  BY <1>1, <1>2, <1>3, <1>4, <1>5, <1>6, <1>7, <1>8, <1>9, <1>10, <1>11, <1>12, <1>13, <1>14, <1>15, <1>16, <1>17, <1>18, <1>19 DEF UthreadStep

\* What a step of a handler leaves alone.
LEMMA HandlerAlone ==
    ASSUME Types, HandlerStep
    PROVE  /\ frames # <<>> /\ Depth \in 1..MaxDepth /\ DOMAIN frames = 1..Depth
           /\ \A i \in 1..Depth : frames[i] \in Frame
           /\ UNCHANGED <<version, cur, pc, step, next, dead, joining, reads, ripe>>
<1>1. frames # <<>> /\ UNCHANGED <<version, cur, pc, step, next, dead, joining, reads, ripe>>
  BY DEF HandlerStep, HandlerLock, HandlerTakes, HandlerReturns, Deliver, Delivered, ClearFlag, PopLock,
         queue_dequeue, uthread_unblock, WakeLock, WakeSignal, WakeUnlock, HandleRead, handle_read,
         HandlerAt, uthreadVars, diskVars
<1>2. Depth \in 1..MaxDepth /\ DOMAIN frames = 1..Depth
  BY <1>1 DEF Types, Depth
<1> QED  BY <1>1, <1>2 DEF Types

\* The handler that takes the step, and the number that stands for a free lock.
LEMMA InnermostHandler ==
    ASSUME Types, HandlerStep
    PROVE  /\ frames # <<>> /\ Depth \in 1..MaxDepth /\ DOMAIN frames = 1..Depth
           /\ Depth \in 1..Depth /\ Depth \in Nat /\ Top = frames[Depth]
           /\ Free \notin 1..Depth /\ Depth # 0 /\ Depth # Free /\ 0 # Free
           /\ UNCHANGED <<version, cur, pc, step, reads, ripe>>
<1>1. /\ frames # <<>> /\ Depth \in 1..MaxDepth /\ DOMAIN frames = 1..Depth
      /\ UNCHANGED <<version, cur, pc, step, reads, ripe>>
  BY HandlerAlone
<1>2. MaxDepth \in Nat /\ Free = MaxDepth + 1
  BY TheNumbers DEF Types, Numbers
<1>3. /\ Depth \in 1..Depth /\ Depth \in Nat
      /\ Free \notin 1..Depth /\ Depth # 0 /\ Depth # Free /\ 0 # Free
  BY <1>1, <1>2
<1> QED  BY <1>1, <1>3 DEF Top

\* The innermost handler returns.
LEMMA FrameReturns ==
    ASSUME frames \in Seq(Frame), frames # <<>>, frames' = Front(frames)
    PROVE  /\ frames' \in Seq(Frame) /\ Depth \in Nat \ {0} /\ Depth' = Depth - 1
           /\ DOMAIN frames' = 1..(Depth - 1) /\ DOMAIN frames = 1..Depth
           /\ \A i \in 1..(Depth - 1) : frames'[i] = frames[i]
<1>1. Len(frames) \in Nat \ {0} /\ DOMAIN frames = 1..Len(frames)
  OBVIOUS
<1> QED  BY <1>1 DEF Front, Depth

\* A handler starts on top of what runs.
LEMMA FramePushed ==
    ASSUME frames \in Seq(Frame), NEW fr \in Frame, frames' = Append(frames, fr)
    PROVE  /\ frames' \in Seq(Frame) /\ Depth \in Nat /\ Depth' = Depth + 1
           /\ DOMAIN frames' = 1..(Depth + 1) /\ DOMAIN frames = 1..Depth
           /\ \A i \in 1..Depth : frames'[i] = frames[i]
           /\ frames'[Depth + 1] = fr
BY DEF Depth

\* The handler takes an entry.
LEMMA EntryMoves ==
    ASSUME frames \in Seq(Frame), frames # <<>>, NEW l \in HandlerPC, NEW v \in 0..Nobody,
           frames' = [frames EXCEPT ![Depth].pc = l, ![Depth].val = v]
    PROVE  Moved(l, v, Top.old)
<1>1. Depth \in Nat \ {0} /\ DOMAIN frames = 1..Depth
  BY DEF Depth
<1>2. Top \in Frame
  BY <1>1 DEF Top
<1>3. [[Top EXCEPT !.pc = l] EXCEPT !.val = v] = [pc |-> l, now |-> Top.now, val |-> v, old |-> Top.old]
  <2>1. PICK fr \in Frame : fr = [Top EXCEPT !.pc = l]
    BY <1>2, FrameExcept DEF Frame
  <2>2. fr = [pc |-> l, now |-> Top.now, val |-> Top.val, old |-> Top.old]
    BY <1>2, <2>1, FrameExcept
  <2>3. [fr EXCEPT !.val = v] = [pc |-> fr.pc, now |-> fr.now, val |-> v, old |-> fr.old]
    <3>1. fr = [pc |-> fr.pc, now |-> fr.now, val |-> fr.val, old |-> fr.old]
      BY DEF Frame
    <3> QED  BY <3>1
  <2> QED  BY <2>1, <2>2, <2>3
<1>4. frames' = [frames EXCEPT ![Depth] = [[Top EXCEPT !.pc = l] EXCEPT !.val = v]]
  BY <1>1 DEF Top
<1>5. frames' = [frames EXCEPT ![Depth] = [pc |-> l, now |-> Top.now, val |-> v, old |-> Top.old]]
  BY <1>3, <1>4
<1> QED  BY <1>2, <1>5, FrameMoves DEF Frame

\* [fr EXCEPT !.old = o] spelt out.
LEMMA OldExcept ==
    ASSUME NEW fr \in Frame, NEW o
    PROVE  [fr EXCEPT !.old = o] = [pc |-> fr.pc, now |-> fr.now, val |-> fr.val, old |-> o]
BY DEF Frame

\* The handler loads a variable.
LEMMA LoadMoves ==
    ASSUME frames \in Seq(Frame), frames # <<>>, NEW l \in HandlerPC, NEW o \in (SUBSET Readers) \cup Int,
           frames' = [frames EXCEPT ![Depth].pc = l, ![Depth].old = o]
    PROVE  Moved(l, Top.val, o)
<1>1. Depth \in Nat \ {0} /\ DOMAIN frames = 1..Depth
  BY DEF Depth
<1>2. Top \in Frame
  BY <1>1 DEF Top
<1>3. [[Top EXCEPT !.pc = l] EXCEPT !.old = o] = [pc |-> l, now |-> Top.now, val |-> Top.val, old |-> o]
  <2>1. PICK fr \in Frame : fr = [Top EXCEPT !.pc = l]
    BY <1>2, FrameExcept DEF Frame
  <2>2. fr = [pc |-> l, now |-> Top.now, val |-> Top.val, old |-> Top.old]
    BY <1>2, <2>1, FrameExcept
  <2>3. [fr EXCEPT !.old = o] = [pc |-> fr.pc, now |-> fr.now, val |-> fr.val, old |-> o]
    BY OldExcept
  <2> QED  BY <2>1, <2>2, <2>3
<1>4. frames' = [frames EXCEPT ![Depth] = [[Top EXCEPT !.pc = l] EXCEPT !.old = o]]
  BY <1>1 DEF Top
<1>5. frames' = [frames EXCEPT ![Depth] = [pc |-> l, now |-> Top.now, val |-> Top.val, old |-> o]]
  BY <1>3, <1>4
<1> QED  BY <1>2, <1>5, FrameMoves DEF Frame

\* Where the handlers go.
LEMMA HandlerGoes ==
    ASSUME Types, HandlerStep
    PROVE  /\ HandlerLock => Top.pc = "lock" /\ Moved("test", Top.val, Top.old)
           /\ HandlerTakes => Top.pc = "test" /\ Moved("deliver", Top.val, Top.old)
           /\ Deliver => /\ Top.pc = "deliver"
                         /\ Moved(IF version \in {"aRead", "tRead"} THEN "pop" ELSE "clear", Top.val, Top.old)
           /\ Delivered => Top.pc = "delivered" /\ Moved("lock", Top.val, Top.old)
           /\ ClearFlag => Top.pc = "clear" /\ Moved("delivered", Top.val, Top.old)
           /\ PopLock => Top.pc = "pop" /\ Moved("queue_dequeue", Top.val, Top.old)
           /\ uthread_unblock => Top.pc = "unblock" /\ Moved("mutex", Top.val, Top.old)
           /\ WakeLock => Top.pc = "mutex" /\ Moved("signal", Top.val, Top.old)
           /\ WakeSignal => Top.pc = "signal" /\ Moved("unlock", Top.val, Top.old)
           /\ WakeUnlock => Top.pc = "unlock" /\ Moved("delivered", Top.val, Top.old)
<1>a. frames # <<>> /\ frames \in Seq(Frame)
  BY HandlerAlone DEF Types
<1>b. {"test", "deliver", "pop", "clear", "lock", "delivered", "queue_dequeue", "mutex", "signal", "unlock"} \subseteq HandlerPC
  BY DEF HandlerPC, IsrPC
<1>c. \A l \in HandlerPC : HandlerGoto(l) => Moved(l, Top.val, Top.old)
  BY <1>a, GotoMoves
<1> QED
  BY <1>b, <1>c DEF HandlerLock, HandlerTakes, Deliver, Delivered, ClearFlag, PopLock, uthread_unblock, WakeLock,
                    WakeSignal, WakeUnlock, HandlerAt

\* Where a handler goes with the entry it has taken, or without one.
LEMMA DequeueGoes ==
    ASSUME Types, queue_dequeue
    PROVE  /\ frames # <<>> /\ Top.pc = "queue_dequeue"
           /\ \/ pending_read_queue = <<>> /\ pending_read_queue' = <<>> /\ Moved("crash", Top.val, Top.old)
              \/ /\ pending_read_queue # <<>> /\ pending_read_queue' = Tail(pending_read_queue)
                 /\ Head(pending_read_queue) \in Readers
                 /\ Moved(IF version = "tRead" THEN "unblock" ELSE "load_sum", Head(pending_read_queue), Top.old)
<1>a. frames # <<>> /\ frames \in Seq(Frame) /\ Top.pc = "queue_dequeue"
  BY DEF Types, queue_dequeue, HandlerAt
<1>b. {"crash", "unblock", "load_sum"} \subseteq HandlerPC
  BY DEF HandlerPC, IsrPC
<1>1. CASE pending_read_queue = <<>>
  BY <1>a, <1>b, <1>1, GotoMoves DEF queue_dequeue
<1>2. CASE pending_read_queue # <<>>
  <2>1. Head(pending_read_queue) \in Readers
    BY <1>2 DEF Types
  <2>2. Readers \subseteq 0..Nobody
    BY TheNumbers DEF Types, Numbers
  <2>3. PICK v \in 0..Nobody, l \in HandlerPC :
           v = Head(pending_read_queue) /\ l = IF version = "tRead" THEN "unblock" ELSE "load_sum"
    BY <1>b, <2>1, <2>2
  <2>4. /\ frames' = [frames EXCEPT ![Depth].pc = l, ![Depth].val = v]
        /\ pending_read_queue' = Tail(pending_read_queue)
    BY <1>2, <2>3 DEF queue_dequeue
  <2> QED  BY <1>a, <1>2, <2>1, <2>3, <2>4, EntryMoves
<1> QED  BY <1>1, <1>2

\* The four steps of handle_read.
LEMMA HandleReadGoes ==
    ASSUME Types, HandleRead
    PROVE  \/ /\ Top.pc = "load_sum" /\ Moved("store_sum", Top.val, sum) /\ UNCHANGED <<sum, pending>>
           \/ /\ Top.pc = "store_sum" /\ Moved("load_count", Top.val, Top.old)
              /\ sum' = Top.old \cup {Top.val} /\ UNCHANGED pending
           \/ /\ Top.pc = "load_count" /\ Moved("store_count", Top.val, pending) /\ UNCHANGED <<sum, pending>>
           \/ /\ Top.pc = "store_count" /\ Moved("delivered", Top.val, Top.old)
              /\ pending' = Top.old - 1 /\ UNCHANGED sum
<1>a. frames # <<>> /\ frames \in Seq(Frame)
  BY DEF Types, HandleRead, handle_read, HandlerAt
<1>b. {"store_sum", "load_count", "store_count", "delivered"} \subseteq HandlerPC
  BY DEF HandlerPC, IsrPC
<1>c. \A l \in HandlerPC : HandlerGoto(l) => Moved(l, Top.val, Top.old)
  BY <1>a, GotoMoves
<1>d. \A l \in HandlerPC, o \in (SUBSET Readers) \cup Int :
         frames' = [frames EXCEPT ![Depth].pc = l, ![Depth].old = o] => Moved(l, Top.val, o)
  BY <1>a, LoadMoves
<1>e. sum \in (SUBSET Readers) \cup Int /\ pending \in (SUBSET Readers) \cup Int
  BY DEF Types
<1>1. ASSUME HandlerAt("load_sum"), frames' = [frames EXCEPT ![Depth].pc = "store_sum", ![Depth].old = sum]
      PROVE  Top.pc = "load_sum" /\ Moved("store_sum", Top.val, sum)
  BY <1>b, <1>d, <1>e, <1>1 DEF HandlerAt
<1>2. ASSUME HandlerAt("load_count"), frames' = [frames EXCEPT ![Depth].pc = "store_count", ![Depth].old = pending]
      PROVE  Top.pc = "load_count" /\ Moved("store_count", Top.val, pending)
  BY <1>b, <1>d, <1>e, <1>2 DEF HandlerAt
<1> QED  BY <1>b, <1>c, <1>1, <1>2 DEF HandleRead, handle_read, HandlerAt

\* Steps of handlers keep the types: a handler takes no more reads than are ripe.
LEMMA TypesH ==
    ASSUME Types, Results, HandlerStep
    PROVE  Types'
<1>n. Numbers
  BY TheNumbers DEF Types
<1>p. {"prq", "queue", "ready", "pthread"} = Locks
  BY DEF Locks
<1>a. frames # <<>> /\ Depth \in 1..MaxDepth /\ DOMAIN frames = 1..Depth /\ Limits
  BY HandlerAlone DEF Types
<1>b. /\ UNCHANGED <<version, cur, pc, step, next, dead, joining, reads, ripe>>
      /\ version' \in Versions /\ Control' /\ step' \in Readers /\ dead' \subseteq Uthreads /\ joining' \in BOOLEAN
      /\ reads' \in Seq(Readers) /\ ripe' \in 0..Len(reads')
  BY HandlerAlone DEF Types, Control
<1>t. /\ Top.now \in Nat /\ Top.now <= ripe
      /\ Top.pc \in {"unblock", "load_sum", "store_sum"} => Top.val \in Readers
      /\ Top.pc = "store_sum" => Top.old \in SUBSET Readers
      /\ Top.pc = "store_count" => Top.old \in Int
  <2>1. PICK i \in DOMAIN frames : i = Depth /\ frames[i] = Top /\ frames[i] \in Frame
    BY <1>a, HandlerAlone DEF Top
  <2> QED  BY <2>1 DEF Results, Frame
<1>c. ASSUME NEW l, NEW v, NEW o, Moved(l, v, o)  PROVE frames' \in Seq(Frame) /\ Depth' <= MaxDepth
  BY <1>c DEF Moved, Types
<1>1. CASE HandlerLock
  BY <1>b, <1>c, <1>p, <1>1, HandlerGoes, LockTaken DEF Types, HandlerLock, uthreadVars, idleVars, diskVars, programVars
<1>2. CASE HandlerTakes
  <2>1. completed' \in 0..ripe'
    <3>1. completed \in Nat /\ ripe \in Nat /\ completed < Top.now /\ completed' = completed + 1 /\ ripe' = ripe
      BY <1>b, <1>2 DEF Types, HandlerTakes
    <3>2. PICK n \in Nat : n = Top.now
      BY <1>t
    <3>3. n <= ripe /\ completed < n
      BY <1>t, <3>1, <3>2
    <3> QED  BY <3>1, <3>3
  <2> QED  BY <1>b, <1>c, <1>p, <1>2, <2>1, HandlerGoes, LockFreed DEF Types, HandlerTakes, uthreadVars, idleVars, programVars
<1>3. CASE HandlerReturns
  <2>1. frames' \in Seq(Frame) /\ Depth' <= MaxDepth
    <3>1. frames' \in Seq(Frame) /\ Depth' = Depth - 1
      BY <1>a, <1>3, FrameReturns DEF Types, HandlerReturns
    <3> QED  BY <1>a, <1>n, <3>1 DEF Numbers
  <2>2. lock' \in [Locks -> 0..Free]
    <3>1. Free \in 0..Free
      BY <1>n DEF Numbers
    <3> QED  BY <1>3, <3>1 DEF Types, HandlerReturns
  <2> QED  BY <1>b, <1>3, <2>1, <2>2 DEF Types, HandlerReturns, uthreadVars, idleVars, diskVars, programVars
<1>4. CASE Deliver
  BY <1>b, <1>c, <1>4, HandlerGoes DEF Types, Deliver, uthreadVars, idleVars, diskVars, programVars
<1>5. CASE Delivered
  BY <1>b, <1>c, <1>5, HandlerGoes DEF Types, Delivered, uthreadVars, idleVars, diskVars, programVars
<1>6. CASE ClearFlag
  BY <1>b, <1>c, <1>6, HandlerGoes DEF Types, ClearFlag, uthreadVars, idleVars, diskVars, signalVars
<1>7. CASE PopLock
  BY <1>b, <1>c, <1>p, <1>7, HandlerGoes, LockTaken DEF Types, PopLock, uthreadVars, idleVars, diskVars, programVars
<1>8. CASE queue_dequeue
  <2>1. pending_read_queue' \in Seq(Readers)
    <3>1. pending_read_queue # <<>> => Tail(pending_read_queue) \in Seq(Readers)
      BY DEF Types
    <3> QED  BY <1>8, <3>1, DequeueGoes DEF Types
  <2>2. frames' \in Seq(Frame) /\ Depth' <= MaxDepth
    BY <1>8, <1>c, DequeueGoes
  <2> QED  BY <1>b, <1>p, <1>8, <2>1, <2>2, LockFreed DEF Types, queue_dequeue, uthreadVars, idleVars, diskVars
<1>9. CASE uthread_unblock
  <2>1. Top.val \in Readers /\ Readers \subseteq 0..Blocks
    BY <1>n, <1>t, <1>9 DEF uthread_unblock, HandlerAt, Numbers
  <2>2. ready' \in Seq(0..Blocks)
    BY <1>9, <2>1, IsPut DEF Types, uthread_unblock
  <2> QED  BY <1>b, <1>c, <1>p, <1>9, <2>2, HandlerGoes, LockTaken
           DEF Types, uthread_unblock, idleVars, diskVars, programVars
<1>10. CASE WakeLock
  BY <1>b, <1>c, <1>10, HandlerGoes, PthreadTaken DEF Types, WakeLock, uthreadVars, idleVars, diskVars, programVars
<1>11. CASE WakeSignal
  BY <1>b, <1>c, <1>11, HandlerGoes, PthreadFreed DEF Types, WakeSignal, uthreadVars, diskVars, programVars
<1>12. CASE WakeUnlock
  BY <1>b, <1>c, <1>p, <1>12, HandlerGoes, LockFreed DEF Types, WakeUnlock, uthreadVars, idleVars, diskVars, programVars
<1>13. CASE HandleRead
  <2>1. sum' \subseteq Readers /\ pending' \in Int
    <3>1. sum \subseteq Readers /\ pending \in Int
      BY DEF Types
    <3>2. CASE sum' = sum /\ pending' = pending
      BY <3>1, <3>2
    <3>3. CASE Top.pc = "store_sum" /\ sum' = Top.old \cup {Top.val} /\ pending' = pending
      BY <1>t, <3>1, <3>3
    <3>4. CASE Top.pc = "store_count" /\ sum' = sum /\ pending' = Top.old - 1
      <4>1. PICK k \in Int : k = Top.old
        BY <1>t, <3>4
      <4>2. pending' = k - 1
        BY <3>4, <4>1
      <4>3. pending' \in Int
        BY <4>2
      <4> QED  BY <3>1, <3>4, <4>3
    <3> QED  BY <1>13, <3>2, <3>3, <3>4, HandleReadGoes
  <2>2. frames' \in Seq(Frame) /\ Depth' <= MaxDepth
    BY <1>c, <1>13, HandleReadGoes
  <2> QED  BY <1>b, <1>13, <2>1, <2>2 DEF Types, HandleRead, uthreadVars, idleVars, diskVars, signalVars
<1> QED  BY <1>1, <1>2, <1>3, <1>4, <1>5, <1>6, <1>7, <1>8, <1>9, <1>10, <1>11, <1>12, <1>13 DEF HandlerStep

\* Time and signals keep the types.
LEMMA TypesD ==
    ASSUME Types, TimePasses \/ Interrupt
    PROVE  Types'
<1>1. CASE TimePasses
  BY <1>1 DEF Types, Control, TimePasses, uthreadVars, idleVars, programVars, signalVars, Depth
<1>2. CASE Interrupt
  <2>1. [pc |-> "lock", now |-> ripe, val |-> Nobody, old |-> 0] \in Frame
    BY TheNumbers DEF Types, Frame, HandlerPC, Numbers
  <2>2. frames' \in Seq(Frame) /\ Depth' <= MaxDepth
    <3>1. frames' \in Seq(Frame) /\ Depth' = Depth + 1 /\ Depth \in Nat
      BY <1>2, <2>1, FramePushed DEF Types, Interrupt
    <3> QED  BY <1>2, <3>1, TheNumbers DEF Types, Interrupt, Numbers
  <2> QED  BY <1>2, <2>2 DEF Types, Control, Interrupt, uthreadVars, idleVars, diskVars, programVars
<1> QED  BY <1>1, <1>2

-----------------------------------------------------------------------------
(* Places.                                                                 *)

\* A uthread goes to a place of its own part of the program.
LEMMA GoneInPlace ==
    ASSUME Numbers, Control, Places, NEW l, Goto(l), UNCHANGED <<version, cur>>,
           cur = main => l \in IF version = "tRead" THEN MainPC \cup StoppingPC
                              ELSE ReadingPC \cup {"set", "poll", "done"},
           version \in {"sRead", "treasureHunt"} => l \notin QueueingPC,
           cur = base => l \in StoppingPC \cup SleepPC,
           cur \in Readers => l \in ReadingPC \cup StoppingPC \cup {"sum", "start", "started", "die"}
    PROVE  Places'
BY DEF Numbers, Control, Places, Goto

\* Steps of uthreads keep everyone in his part of the program.
LEMMA PlacesU ==
    ASSUME Types, Places, Started, UthreadStep \/ SpuriousWakeUp
    PROVE  Places'
<1>n. Numbers /\ Control /\ version' = version
  BY TheNumbers, UthreadAlone DEF Types
<1>m. main # base /\ main \notin Readers /\ base \notin Readers
  BY <1>n DEF Numbers
<1> USE <1>n, <1>m, WhoRuns
<1>1. CASE ScheduleLock
  BY <1>1, GoneInPlace DEF ScheduleLock, At, StoppingPC, MainPC, ReadingPC, QueueingPC, SleepPC
<1>2. CASE prq_enqueue
  <2>1. PICK l : Goto(l) /\ l = IF version \in {"aRead", "tRead"} THEN "enqueue" ELSE "poll"
    BY <1>2 DEF prq_enqueue
  <2> QED  BY <1>2, <2>1, GoneInPlace DEF prq_enqueue, At, ReadingPC, QueueingPC
<1>3. CASE EnqueueLock
  BY <1>3, GoneInPlace DEF EnqueueLock, At, StoppingPC, MainPC, ReadingPC, QueueingPC, SleepPC
<1>4. CASE queue_enqueue
  BY <1>4, GoneInPlace DEF queue_enqueue, At, StoppingPC, MainPC, ReadingPC, QueueingPC, SleepPC
<1>5. CASE SetFlag
  BY <1>5, GoneInPlace DEF SetFlag, At, StoppingPC, MainPC, ReadingPC, QueueingPC, SleepPC
<1>6. CASE PollFlag
  BY <1>6, GoneInPlace DEF PollFlag, At, StoppingPC, MainPC, ReadingPC, QueueingPC, SleepPC
<1>7. CASE PollCount
  BY <1>7, GoneInPlace DEF PollCount, At, StoppingPC, MainPC, ReadingPC, QueueingPC, SleepPC
<1>8. CASE uthread_create
  BY <1>8, GoneInPlace DEF uthread_create, At, ReadyLock, StoppingPC, MainPC, ReadingPC, QueueingPC, SleepPC
<1>9. CASE uthread_join
  BY <1>9, GoneInPlace DEF uthread_join, At, NextJoin, StoppingPC, MainPC, ReadingPC, QueueingPC, SleepPC
<1>10. CASE SumUp
  BY <1>10, GoneInPlace DEF SumUp, At, StoppingPC, MainPC, ReadingPC, QueueingPC, SleepPC
<1>11. CASE StartJoiner
  BY <1>11, GoneInPlace DEF StartJoiner, At, ReadyLock, StoppingPC, MainPC, ReadingPC, QueueingPC, SleepPC
<1>12. CASE Die
  BY <1>12, GoneInPlace DEF Die, At, StoppingPC, MainPC, ReadingPC, QueueingPC, SleepPC
<1>13. CASE StopLock
  BY <1>13, GoneInPlace DEF StopLock, At, ReadyLock, StoppingPC, MainPC, ReadingPC, QueueingPC, SleepPC
<1>14. CASE ready_queue_dequeue
  BY <1>14, GoneInPlace DEF ready_queue_dequeue, At, StoppingPC, MainPC, ReadingPC, QueueingPC, SleepPC
<1>15. CASE FallAsleep
  BY <1>15, GoneInPlace DEF FallAsleep, At, StoppingPC, MainPC, ReadingPC, QueueingPC, SleepPC
<1>16. CASE WakeUp
  BY <1>16, GoneInPlace DEF WakeUp, At, StoppingPC, MainPC, ReadingPC, QueueingPC, SleepPC
<1>17. CASE SpuriousWakeUp
  BY <1>17, GoneInPlace DEF SpuriousWakeUp, At, StoppingPC, MainPC, ReadingPC, QueueingPC, SleepPC
<1>18. CASE Awake
  BY <1>18, GoneInPlace DEF Awake, At, StoppingPC, MainPC, ReadingPC, QueueingPC, SleepPC
<1>19. CASE uthread_switch
  BY <1>19 DEF uthread_switch, Resumed, At, Control, Places, StoppingPC, MainPC, ReadingPC, QueueingPC, Numbers
<1> QED  BY <1>1, <1>2, <1>3, <1>4, <1>5, <1>6, <1>7, <1>8, <1>9, <1>10, <1>11, <1>12, <1>13, <1>14, <1>15, <1>16, <1>17, <1>18, <1>19 DEF UthreadStep

\* Handlers move no uthread.
LEMMA PlacesKept ==
    ASSUME Types, Places, Started, Next
    PROVE  Places'
<1>1. CASE HandlerStep \/ TimePasses \/ Interrupt
  <2>1. UNCHANGED <<version, cur, pc>>
    BY <1>1, HandlerAlone DEF TimePasses, Interrupt, uthreadVars
  <2> QED  BY <2>1 DEF Places
<1> QED  BY <1>1, PlacesU DEF Next

-----------------------------------------------------------------------------
(* Signals.                                                                *)

\* A uthread takes spinlocks with SIGALRM masked.
LEMMA SignalsU ==
    ASSUME Types, Signals, UthreadStep \/ SpuriousWakeUp
    PROVE  Signals'
<1>n. Numbers /\ Control
  BY TheNumbers DEF Types
<1>f. frames = <<>> /\ frames' = <<>> /\ DOMAIN frames = {} /\ DOMAIN frames' = {} /\ isInterrupt' = isInterrupt
  BY UthreadAlone
<1>i. ~isInterrupt
  BY <1>f DEF Signals
<1>p. {"prq", "queue", "ready", "pthread"} = Locks
  BY DEF Locks
<1> SUFFICES pc'[cur'] \in HoldsPC => mask'
  BY <1>f, <1>i DEF Signals
<1>l. ASSUME NEW k \in Locks, SpinLock(k)  PROVE mask'
  BY <1>i, <1>l, LockTaken
<1>g. ASSUME NEW l, Goto(l), cur' = cur  PROVE pc'[cur'] = l
  BY <1>n, <1>g DEF Control, Goto
<1>1. CASE ScheduleLock
  BY <1>p, <1>l, <1>g, <1>1 DEF ScheduleLock, HoldsPC
<1>2. CASE prq_enqueue
  BY <1>p, <1>l, <1>g, <1>2 DEF prq_enqueue, HoldsPC
<1>3. CASE EnqueueLock
  BY <1>p, <1>l, <1>g, <1>3 DEF EnqueueLock, HoldsPC
<1>4. CASE queue_enqueue
  BY <1>p, <1>l, <1>g, <1>4 DEF queue_enqueue, HoldsPC
<1>5. CASE SetFlag
  BY <1>p, <1>l, <1>g, <1>5 DEF SetFlag, HoldsPC
<1>6. CASE PollFlag
  BY <1>p, <1>l, <1>g, <1>6 DEF PollFlag, HoldsPC
<1>7. CASE PollCount
  BY <1>p, <1>l, <1>g, <1>7 DEF PollCount, HoldsPC
<1>8. CASE uthread_create
  BY <1>p, <1>l, <1>g, <1>8 DEF uthread_create, HoldsPC, ReadyLock
<1>9. CASE uthread_join
  BY <1>p, <1>l, <1>g, <1>9 DEF uthread_join, HoldsPC, NextJoin
<1>10. CASE SumUp
  BY <1>p, <1>l, <1>g, <1>10 DEF SumUp, HoldsPC
<1>11. CASE StartJoiner
  BY <1>p, <1>l, <1>g, <1>11 DEF StartJoiner, HoldsPC, ReadyLock
<1>12. CASE Die
  BY <1>p, <1>l, <1>g, <1>12 DEF Die, HoldsPC
<1>13. CASE StopLock
  BY <1>p, <1>l, <1>g, <1>13 DEF StopLock, HoldsPC, ReadyLock
<1>14. CASE ready_queue_dequeue
  BY <1>p, <1>l, <1>g, <1>14 DEF ready_queue_dequeue, HoldsPC
<1>15. CASE FallAsleep
  BY <1>p, <1>l, <1>g, <1>15 DEF FallAsleep, HoldsPC
<1>16. CASE WakeUp
  BY <1>p, <1>l, <1>g, <1>16 DEF WakeUp, HoldsPC
<1>17. CASE SpuriousWakeUp
  BY <1>p, <1>l, <1>g, <1>17 DEF SpuriousWakeUp, HoldsPC
<1>18. CASE Awake
  BY <1>p, <1>l, <1>g, <1>18 DEF Awake, HoldsPC
<1>19. CASE uthread_switch
  BY <1>n, <1>19 DEF uthread_switch, Resumed, At, Control, HoldsPC
<1> QED  BY <1>1, <1>2, <1>3, <1>4, <1>5, <1>6, <1>7, <1>8, <1>9, <1>10, <1>11, <1>12, <1>13, <1>14, <1>15, <1>16, <1>17, <1>18, <1>19 DEF UthreadStep

\* A step within the interrupt service routine.
LEMMA SignalsServing ==
    ASSUME Signals, frames # <<>>, Top.pc \in IsrPC, NEW l \in IsrPC, NEW v, NEW o, Moved(l, v, o),
           UNCHANGED <<cur, pc, isInterrupt>>
    PROVE  Signals'
<1>1. \A i \in 1..Depth : Serving(i)' <=> Serving(i)
  BY DEF Moved, Serving, Top
<1>2. Serving(Depth) /\ Depth \in 1..Depth
  BY DEF Moved, Serving, Top
<1>3. \A i \in 1..Depth : frames'[i].pc \in {"test", "lock"} => frames[i].pc = frames'[i].pc /\ i < Depth
  <2>1. l # "test" /\ l # "lock"
    BY DEF IsrPC
  <2> QED  BY <2>1 DEF Moved
<1>4. pc'[cur'] \notin HoldsPC
  BY DEF Signals
<1>5. \A i \in 1..Depth : frames'[i].pc # "test"
  BY <1>3 DEF Signals, Moved
<1>6. ASSUME NEW i \in 1..Depth, frames'[i].pc = "lock"  PROVE \E j \in (i + 1)..Depth : Serving(j)'
  <2>1. i < Depth
    BY <1>3, <1>6
  <2> QED  BY <1>1, <1>2, <2>1 DEF Moved
<1>7. DOMAIN frames' = 1..Depth /\ Depth' = Depth
  BY DEF Moved
<1> QED  BY <1>1, <1>2, <1>4, <1>5, <1>6, <1>7 DEF Signals

\* A handler outside an interrupt service routine has SIGALRM masked, and it is
\* the innermost one.
LEMMA SignalsH ==
    ASSUME Types, Signals, HandlerStep
    PROVE  Signals'
<1>f. /\ frames # <<>> /\ Depth \in 1..MaxDepth /\ DOMAIN frames = 1..Depth /\ UNCHANGED <<cur, pc>>
      /\ Depth \in 1..Depth /\ Depth \in Nat
  BY InnermostHandler
<1>h. pc'[cur'] \notin HoldsPC
  BY <1>f DEF Signals
<1>p. {"prq", "queue", "ready", "pthread"} = Locks
  BY DEF Locks
\* Below the innermost handler.
<1>b. \A i \in 1..(Depth - 1) :
         /\ frames[i].pc # "test"
         /\ frames[i].pc = "lock" /\ isInterrupt => \E j \in (i + 1)..Depth : Serving(j)
  BY <1>f DEF Signals
<1>k. ASSUME NEW l, NEW v, NEW o, Moved(l, v, o)
      PROVE  /\ DOMAIN frames' = 1..Depth /\ Depth' = Depth
             /\ Serving(Depth)' = (l \in IsrPC) /\ frames'[Depth].pc = l
             /\ \A i \in 1..(Depth - 1) : (Serving(i)' <=> Serving(i)) /\ frames'[i].pc = frames[i].pc
             /\ \A i \in 1..Depth : i = Depth \/ i \in 1..(Depth - 1)
  BY <1>k, <1>f DEF Moved, Serving
<1>1. CASE HandlerLock
  <2>1. Moved("test", Top.val, Top.old) /\ Top.pc = "lock" /\ isInterrupt' = isInterrupt
    BY <1>1, HandlerGoes DEF HandlerLock
  <2>2. isInterrupt => mask
    BY <1>f, <2>1 DEF Signals, Top
  <2>3. mask'
    BY <1>1, <1>p, <2>2, LockTaken DEF HandlerLock, Types
  <2>4. ~Serving(Depth)
    BY <2>1 DEF Serving, Top, IsrPC
  <2>5. "test" \notin IsrPC
    BY DEF IsrPC
  <2>6. /\ DOMAIN frames' = 1..Depth /\ Depth' = Depth /\ ~Serving(Depth)' /\ frames'[Depth].pc = "test"
        /\ \A i \in 1..(Depth - 1) : (Serving(i)' <=> Serving(i)) /\ frames'[i].pc = frames[i].pc
        /\ \A i \in 1..Depth : i = Depth \/ i \in 1..(Depth - 1)
    BY <1>k, <2>1, <2>5
  <2>7. isInterrupt' => \E i \in DOMAIN frames' : Serving(i)'
    <3>1. isInterrupt => \E i \in 1..(Depth - 1) : Serving(i)
      BY <1>f, <2>4, <2>6 DEF Signals
    <3>2. ASSUME isInterrupt  PROVE \E i \in DOMAIN frames' : Serving(i)'
      <4>1. PICK i \in 1..(Depth - 1) : Serving(i)
        BY <3>1, <3>2
      <4>2. i \in 1..Depth
        BY <1>f
      <4>3. Serving(i)'
        BY <2>6, <4>1
      <4>4. i \in DOMAIN frames'
        BY <2>6, <4>2
      <4> QED  BY <4>3, <4>4
    <3> QED  BY <2>1, <3>2
  <2>8. ASSUME NEW i \in DOMAIN frames'
        PROVE  /\ frames'[i].pc = "test" => i = Depth' /\ mask'
               /\ frames'[i].pc = "lock" /\ isInterrupt' =>
                     (i = Depth' /\ mask') \/ \E j \in (i + 1)..Depth' : Serving(j)'
    <3>1. CASE i = Depth
      BY <2>3, <2>6, <3>1
    <3>2. CASE i \in 1..(Depth - 1)
      <4>1. frames'[i].pc # "test"
        BY <1>b, <2>6, <3>2
      <4>2. ASSUME frames'[i].pc = "lock", isInterrupt'  PROVE \E j \in (i + 1)..Depth' : Serving(j)'
        <5>1. PICK j \in (i + 1)..Depth : Serving(j)
          BY <1>b, <2>1, <2>6, <3>2, <4>2
        <5>2. j \in 1..(Depth - 1)
          BY <1>f, <2>4, <3>2, <5>1
        <5> QED  BY <2>6, <5>1, <5>2
      <4> QED  BY <4>1, <4>2
    <3> QED  BY <2>6, <3>1, <3>2
  <2> QED  BY <1>h, <2>7, <2>8 DEF Signals
<1>2. CASE HandlerTakes
  <2>1. Moved("deliver", Top.val, Top.old) /\ Top.pc = "test" /\ isInterrupt' = isInterrupt
    BY <1>2, HandlerGoes DEF HandlerTakes
  <2>2. ~Serving(Depth)
    BY <2>1 DEF Serving, Top, IsrPC
  <2>3. "deliver" \notin IsrPC
    BY DEF IsrPC
  <2>4. /\ DOMAIN frames' = 1..Depth /\ Depth' = Depth /\ ~Serving(Depth)' /\ frames'[Depth].pc = "deliver"
        /\ \A i \in 1..(Depth - 1) : (Serving(i)' <=> Serving(i)) /\ frames'[i].pc = frames[i].pc
        /\ \A i \in 1..Depth : i = Depth \/ i \in 1..(Depth - 1)
    BY <1>k, <2>1, <2>3
  <2>5. ASSUME isInterrupt'  PROVE \E i \in DOMAIN frames' : Serving(i)'
    <3>1. PICK i \in 1..Depth : Serving(i)
      BY <1>f, <2>1, <2>5 DEF Signals
    <3>2. i \in 1..(Depth - 1)
      BY <2>2, <2>4, <3>1
    <3> QED  BY <2>4, <3>1, <3>2
  <2>6. ASSUME NEW i \in DOMAIN frames'
        PROVE  /\ frames'[i].pc # "test"
               /\ frames'[i].pc = "lock" /\ isInterrupt' => \E j \in (i + 1)..Depth' : Serving(j)'
    <3>1. CASE i = Depth
      BY <2>4, <3>1
    <3>2. CASE i \in 1..(Depth - 1)
      <4>1. frames'[i].pc # "test"
        BY <1>b, <2>4, <3>2
      <4>2. ASSUME frames'[i].pc = "lock", isInterrupt'  PROVE \E j \in (i + 1)..Depth' : Serving(j)'
        <5>1. PICK j \in (i + 1)..Depth : Serving(j)
          BY <1>b, <2>1, <2>4, <3>2, <4>2
        <5>2. j \in 1..(Depth - 1)
          BY <1>f, <2>2, <3>2, <5>1
        <5> QED  BY <2>4, <5>1, <5>2
      <4> QED  BY <4>1, <4>2
    <3> QED  BY <2>4, <3>1, <3>2
  <2> QED  BY <1>h, <2>5, <2>6 DEF Signals
<1>3. CASE HandlerReturns
  <2>1. /\ Depth' = Depth - 1 /\ DOMAIN frames' = 1..(Depth - 1) /\ isInterrupt' = isInterrupt
        /\ \A i \in 1..(Depth - 1) : (Serving(i)' <=> Serving(i)) /\ frames'[i].pc = frames[i].pc
    BY <1>3, FrameReturns DEF HandlerReturns, HandlerAt, Types, Serving
  <2>2. ~Serving(Depth)
    BY <1>3 DEF HandlerReturns, HandlerAt, Serving, Top, IsrPC
  <2> QED  BY <1>f, <1>h, <1>b, <2>1, <2>2 DEF Signals
<1>4. CASE Deliver
  <2>1. PICK l \in IsrPC : Moved(l, Top.val, Top.old)
    BY <1>4, HandlerGoes DEF IsrPC
  <2>2. Top.pc = "deliver"
    BY <1>4, HandlerGoes
  <2>3. l # "test" /\ l # "lock"
    BY DEF IsrPC
  <2>4. Serving(Depth)' /\ DOMAIN frames' = 1..Depth /\ Depth' = Depth /\ frames'[Depth].pc = l
    BY <1>k, <2>1
  <2>5. ASSUME NEW i \in 1..Depth, frames'[i].pc \in {"test", "lock"}  PROVE i < Depth /\ frames[i].pc # "test"
    BY <1>f, <1>b, <1>k, <2>1, <2>3, <2>5
  <2>6. \A i \in 1..Depth : i < Depth => Depth \in (i + 1)..Depth
    BY <1>f
  <2>7. \A i \in 1..Depth : frames'[i].pc # "test"
    BY <1>k, <2>1, <2>5, <1>b
  <2> QED  BY <1>f, <1>h, <2>4, <2>5, <2>6, <2>7 DEF Signals
<1>5. CASE Delivered
  <2>1. Moved("lock", Top.val, Top.old) /\ ~isInterrupt'
    BY <1>5, HandlerGoes DEF Delivered
  <2> QED  BY <1>f, <1>h, <1>b, <1>k, <2>1 DEF Signals
<1>6. CASE \/ ClearFlag \/ PopLock \/ uthread_unblock \/ WakeLock \/ WakeSignal \/ WakeUnlock
  <2>1. /\ isInterrupt' = isInterrupt /\ Top.pc \in IsrPC
        /\ \E l \in IsrPC : Moved(l, Top.val, Top.old)
    BY <1>6, HandlerGoes DEF ClearFlag, PopLock, uthread_unblock, WakeLock, WakeSignal, WakeUnlock, signalVars, IsrPC
  <2> QED  BY <1>f, <2>1, SignalsServing
<1>7. CASE queue_dequeue
  <2>1. isInterrupt' = isInterrupt /\ Top.pc \in IsrPC
    BY <1>7, DequeueGoes DEF queue_dequeue, IsrPC
  <2>2. PICK l \in IsrPC, v \in {Top.val, Head(pending_read_queue)} : Moved(l, v, Top.old)
    BY <1>7, DequeueGoes DEF IsrPC
  <2> QED  BY <1>f, <2>1, <2>2, SignalsServing
<1>8. CASE HandleRead
  <2>1. isInterrupt' = isInterrupt /\ Top.pc \in IsrPC
    BY <1>8, HandleReadGoes DEF HandleRead, IsrPC, signalVars
  <2>2. PICK l \in IsrPC, o \in {Top.old, sum, pending} : Moved(l, Top.val, o)
    BY <1>8, HandleReadGoes DEF IsrPC
  <2> QED  BY <1>f, <2>1, <2>2, SignalsServing
<1> QED  BY <1>1, <1>2, <1>3, <1>4, <1>5, <1>6, <1>7, <1>8 DEF HandlerStep

\* A signal comes only where SIGALRM is not masked.
LEMMA SignalsKept ==
    ASSUME Types, Signals, Next
    PROVE  Signals'
<1>1. CASE TimePasses
  BY <1>1 DEF TimePasses, Signals, Serving, uthreadVars, signalVars, Depth
<1>2. CASE Interrupt
  <2>1. [pc |-> "lock", now |-> ripe, val |-> Nobody, old |-> 0] \in Frame
    BY TheNumbers DEF Types, Frame, HandlerPC, Numbers
  <2>2. /\ Depth \in Nat /\ Depth' = Depth + 1 /\ DOMAIN frames' = 1..(Depth + 1) /\ DOMAIN frames = 1..Depth
        /\ \A i \in 1..Depth : (Serving(i)' <=> Serving(i)) /\ frames'[i] = frames[i]
        /\ frames'[Depth + 1].pc = "lock"
    BY <1>2, <2>1, FramePushed DEF Types, Interrupt, Serving
  <2>3. UNCHANGED <<cur, pc, isInterrupt>> /\ ~mask /\ mask'
    BY <1>2 DEF Interrupt, uthreadVars
  <2>4. \A i \in 1..Depth :
           /\ frames[i].pc # "test"
           /\ frames[i].pc = "lock" /\ isInterrupt => \E j \in (i + 1)..Depth : Serving(j)
    BY <2>2, <2>3 DEF Signals
  <2>5. pc'[cur'] \notin HoldsPC
    BY <2>3 DEF Signals
  <2>6. \A i \in 1..(Depth + 1) : i = Depth + 1 \/ i \in 1..Depth
    BY <2>2
  <2> QED  BY <2>2, <2>3, <2>4, <2>5, <2>6 DEF Signals
<1> QED  BY <1>1, <1>2, SignalsU, SignalsH DEF Next

-----------------------------------------------------------------------------
(* Who holds the locks.                                                    *)

\* Uthreads take and free locks where Holders says.
LEMMA HoldersU ==
    ASSUME Types, Places, Holders, UthreadStep \/ SpuriousWakeUp
    PROVE  Holders'
<1>n. Numbers /\ Control
  BY TheNumbers DEF Types
<1>f. /\ frames = <<>> /\ frames' = <<>> /\ DOMAIN frames = {} /\ DOMAIN frames' = {} /\ Depth = 0
  BY UthreadAlone
<1>z. 0 # Free /\ 0 \in 0..Free
  BY <1>n DEF Numbers
<1>p. {"prq", "queue", "ready", "pthread"} = Locks
  BY DEF Locks
\* What the invariant says while no handler runs.
<1>h. /\ lock["prq"] # Free => pc[cur] = "prq_enqueue"
      /\ lock["queue"] = 0 => pc[cur] = "queue_enqueue"
      /\ lock["ready"] = 0 => pc[cur] \in {"created", "started", "dequeue"}
      /\ lock["pthread"] = 0 => cur = base /\ pc[cur] \in {"falling_asleep", "waking"}
      /\ lock["pthread"] \in {0, Free}
  BY <1>f DEF Holders, HandlerAt
<1> SUFFICES /\ (lock["prq"] # Free => pc[cur] = "prq_enqueue")'
             /\ (lock["queue"] = 0 => pc[cur] = "queue_enqueue")'
             /\ (lock["ready"] = 0 => pc[cur] \in {"created", "started", "dequeue"})'
             /\ (lock["pthread"] = 0 => cur = base /\ pc[cur] \in {"falling_asleep", "waking"})'
             /\ (lock["pthread"] \in {0, Free})'
  BY <1>f DEF Holders, HandlerAt
<1>g. ASSUME NEW l, Goto(l), cur' = cur  PROVE pc'[cur'] = l
  BY <1>n, <1>g DEF Control, Goto
<1>1. CASE ScheduleLock
  BY <1>f, <1>g, <1>h, <1>n, <1>p, <1>z, <1>1, LockTaken DEF ScheduleLock, At
<1>2. CASE prq_enqueue
  BY <1>f, <1>g, <1>h, <1>n, <1>p, <1>z, <1>2, LockFreed DEF prq_enqueue, At
<1>3. CASE EnqueueLock
  BY <1>f, <1>g, <1>h, <1>n, <1>p, <1>z, <1>3, LockTaken DEF EnqueueLock, At
<1>4. CASE queue_enqueue
  BY <1>f, <1>g, <1>h, <1>n, <1>p, <1>z, <1>4, LockFreed DEF queue_enqueue, At
<1>5. CASE SetFlag
  BY <1>f, <1>g, <1>h, <1>n, <1>p, <1>z, <1>5 DEF SetFlag, At, signalVars
<1>6. CASE PollFlag
  BY <1>f, <1>g, <1>h, <1>n, <1>p, <1>z, <1>6 DEF PollFlag, At, signalVars
<1>7. CASE PollCount
  BY <1>f, <1>g, <1>h, <1>n, <1>p, <1>z, <1>7 DEF PollCount, At, signalVars
<1>8. CASE uthread_create
  BY <1>f, <1>g, <1>h, <1>n, <1>p, <1>z, <1>8, LockTaken, LockFreed DEF uthread_create, At, ReadyLock
<1>9. CASE uthread_join
  BY <1>f, <1>g, <1>h, <1>n, <1>p, <1>z, <1>9 DEF uthread_join, At, NextJoin
<1>10. CASE SumUp
  BY <1>f, <1>g, <1>h, <1>n, <1>p, <1>z, <1>10 DEF SumUp, At
<1>11. CASE StartJoiner
  BY <1>f, <1>g, <1>h, <1>n, <1>p, <1>z, <1>11, LockTaken, LockFreed DEF StartJoiner, At, ReadyLock
<1>12. CASE Die
  BY <1>f, <1>g, <1>h, <1>n, <1>p, <1>z, <1>12 DEF Die, At
<1>13. CASE StopLock
  BY <1>f, <1>g, <1>h, <1>n, <1>p, <1>z, <1>13, LockTaken DEF StopLock, At, ReadyLock
<1>14. CASE ready_queue_dequeue
  <2>1. CASE SpinUnlock("ready") /\ Goto("switch")
    BY <1>g, <1>h, <1>p, <1>z, <1>14, <2>1, LockFreed DEF ready_queue_dequeue, At
  <2>2. CASE cur = base /\ lock' = [lock EXCEPT !["ready"] = Free, !["pthread"] = Depth] /\ Goto("falling_asleep")
    BY <1>f, <1>g, <1>h, <1>p, <1>z, <1>14, <2>2 DEF ready_queue_dequeue, At, Types
  <2> QED  BY <1>14, <2>1, <2>2 DEF ready_queue_dequeue
<1>15. CASE FallAsleep
  BY <1>f, <1>g, <1>h, <1>n, <1>p, <1>z, <1>15, PthreadFreed DEF FallAsleep, At
<1>16. CASE WakeUp
  BY <1>f, <1>g, <1>h, <1>n, <1>p, <1>z, <1>16, PthreadTaken, WhoRuns DEF WakeUp, At, SleepPC
<1>17. CASE SpuriousWakeUp
  BY <1>f, <1>g, <1>h, <1>n, <1>p, <1>z, <1>17, PthreadTaken, WhoRuns DEF SpuriousWakeUp, At, SleepPC
<1>18. CASE Awake
  BY <1>f, <1>g, <1>h, <1>n, <1>p, <1>z, <1>18, PthreadFreed DEF Awake, At
<1>19. CASE uthread_switch
  BY <1>n, <1>h, <1>z, <1>19 DEF uthread_switch, Resumed, At, Control, signalVars
<1> QED  BY <1>1, <1>2, <1>3, <1>4, <1>5, <1>6, <1>7, <1>8, <1>9, <1>10, <1>11, <1>12, <1>13, <1>14, <1>15, <1>16, <1>17, <1>18, <1>19 DEF UthreadStep

\* So do handlers, whatever is below them.
LEMMA HoldersH ==
    ASSUME Types, Holders, HandlerStep
    PROVE  Holders'
<1>f. /\ frames # <<>> /\ Depth \in 1..MaxDepth /\ DOMAIN frames = 1..Depth /\ UNCHANGED <<cur, pc>>
      /\ Depth \in 1..Depth /\ Depth \in Nat /\ Free \notin 1..Depth /\ Depth # 0 /\ Depth # Free /\ 0 # Free
  BY InnermostHandler
<1>p. {"prq", "queue", "ready", "pthread"} = Locks
  BY DEF Locks
<1>k. ASSUME NEW l, NEW v, NEW o, Moved(l, v, o)
      PROVE  /\ DOMAIN frames' = 1..Depth /\ Depth' = Depth /\ frames' # <<>>
             /\ frames'[Depth].pc = l /\ Top'.pc = l
             /\ \A i \in 1..Depth : i # Depth => frames'[i].pc = frames[i].pc
  BY <1>k, <1>f DEF Moved, Top
<1>1. CASE HandlerLock
  <2>1. Top.pc = "lock" /\ Moved("test", Top.val, Top.old) /\ UNCHANGED <<cur, pc>>
    BY <1>1, <1>f, HandlerGoes
  <2>2. lock["prq"] = Free /\ lock'["prq"] = Depth /\ \A k \in Locks \ {"prq"} : lock'[k] = lock[k]
    BY <1>1, <1>p, LockTaken DEF HandlerLock
  <2>3. /\ Top.pc = frames[Depth].pc /\ DOMAIN frames' = 1..Depth /\ frames' # <<>>
        /\ frames'[Depth].pc = "test" /\ Top'.pc = "test"
        /\ \A i \in 1..Depth : i # Depth => frames'[i].pc = frames[i].pc
    BY <1>f, <1>k, <2>1 DEF Top
  <2> QED  BY <1>f, <1>p, <2>1, <2>2, <2>3 DEF Holders, HandlerAt, WakingPC
<1>2. CASE HandlerTakes
  <2>1. Top.pc = "test" /\ Moved("deliver", Top.val, Top.old) /\ UNCHANGED <<cur, pc>>
    BY <1>2, <1>f, HandlerGoes
  <2>2. lock'["prq"] = Free /\ \A k \in Locks \ {"prq"} : lock'[k] = lock[k]
    BY <1>2, <1>p, LockFreed DEF HandlerTakes
  <2>3. /\ Top.pc = frames[Depth].pc /\ DOMAIN frames' = 1..Depth /\ frames' # <<>>
        /\ frames'[Depth].pc = "deliver" /\ Top'.pc = "deliver"
        /\ \A i \in 1..Depth : i # Depth => frames'[i].pc = frames[i].pc
    BY <1>f, <1>k, <2>1 DEF Top
  <2> QED  BY <1>f, <1>p, <2>1, <2>2, <2>3 DEF Holders, HandlerAt, WakingPC
<1>3. CASE HandlerReturns
  <2>1. /\ DOMAIN frames' = 1..(Depth - 1) /\ \A i \in 1..(Depth - 1) : frames'[i].pc = frames[i].pc /\ i \in 1..Depth
        /\ \A i \in 1..Depth : i = Depth \/ i \in 1..(Depth - 1)
    BY <1>3, <1>f, FrameReturns DEF HandlerReturns, HandlerAt, Types
  <2>2. lock'["prq"] = Free /\ \A k \in Locks \ {"prq"} : lock'[k] = lock[k]
    BY <1>3, <1>p DEF HandlerReturns, Types
  <2>3. frames[Depth].pc = "test" /\ UNCHANGED <<cur, pc>>
    BY <1>3, <1>f DEF HandlerReturns, HandlerAt, Top
  <2>4. \A i \in DOMAIN frames' : frames'[i].pc \in WakingPC => lock'["ready"] = i
    BY <1>f, <1>p, <2>1, <2>2 DEF Holders
  <2>5. lock'["pthread"] \in {0, Free} \/ \E i \in DOMAIN frames' : i = lock'["pthread"] /\ frames'[i].pc = "signal"
    BY <1>f, <1>p, <2>1, <2>2, <2>3 DEF Holders
  <2> QED  BY <1>p, <2>2, <2>3, <2>4, <2>5 DEF Holders
<1>4. CASE Deliver \/ Delivered \/ ClearFlag
  <2>1. /\ lock' = lock /\ Top.pc \notin WakingPC \cup {"test"}
        /\ \E l \in {"pop", "clear", "lock", "delivered"} : Moved(l, Top.val, Top.old)
    BY <1>4, HandlerGoes DEF Deliver, Delivered, ClearFlag, signalVars, WakingPC
  <2> QED  BY <1>f, <1>k, <2>1 DEF Holders, HandlerAt, WakingPC, Top
<1>5. CASE PopLock
  <2>1. Top.pc = "pop" /\ Moved("queue_dequeue", Top.val, Top.old) /\ UNCHANGED <<cur, pc>>
    BY <1>5, <1>f, HandlerGoes
  <2>2. lock["queue"] = Free /\ lock'["queue"] = Depth /\ \A k \in Locks \ {"queue"} : lock'[k] = lock[k]
    BY <1>5, <1>p, LockTaken DEF PopLock
  <2>3. /\ Top.pc = frames[Depth].pc /\ DOMAIN frames' = 1..Depth /\ frames' # <<>>
        /\ frames'[Depth].pc = "queue_dequeue" /\ Top'.pc = "queue_dequeue"
        /\ \A i \in 1..Depth : i # Depth => frames'[i].pc = frames[i].pc
    BY <1>f, <1>k, <2>1 DEF Top
  <2> QED  BY <1>f, <1>p, <2>1, <2>2, <2>3 DEF Holders, HandlerAt, WakingPC
<1>6. CASE queue_dequeue
  <2>1. /\ Top.pc = "queue_dequeue" /\ SpinUnlock("queue")
        /\ \E l \in {"crash", "unblock", "load_sum"}, v \in {Top.val, Head(pending_read_queue)} : Moved(l, v, Top.old)
    BY <1>6, DequeueGoes DEF queue_dequeue
  <2>2. lock'["queue"] = Free /\ \A k \in Locks \ {"queue"} : lock'[k] = lock[k]
    BY <1>p, <2>1, LockFreed
  <2>3. PICK l \in {"crash", "unblock", "load_sum"} :
           /\ Top.pc = frames[Depth].pc /\ DOMAIN frames' = 1..Depth /\ frames' # <<>>
           /\ frames'[Depth].pc = l /\ Top'.pc = l
           /\ \A i \in 1..Depth : i # Depth => frames'[i].pc = frames[i].pc
    BY <1>k, <2>1 DEF Top
  <2>4. Top.pc = "queue_dequeue" /\ UNCHANGED <<cur, pc>>
    BY <1>f, <2>1
  <2>5. l \notin WakingPC \cup {"signal"}
    BY <2>3 DEF WakingPC
  <2> QED  BY <1>f, <1>p, <2>2, <2>3, <2>4, <2>5 DEF Holders, HandlerAt, WakingPC
<1>7. CASE uthread_unblock
  <2>1. Top.pc = "unblock" /\ Moved("mutex", Top.val, Top.old) /\ UNCHANGED <<cur, pc>>
    BY <1>7, <1>f, HandlerGoes
  <2>2. lock["ready"] = Free /\ lock'["ready"] = Depth /\ \A k \in Locks \ {"ready"} : lock'[k] = lock[k]
    BY <1>7, <1>p, LockTaken DEF uthread_unblock
  <2>3. /\ Top.pc = frames[Depth].pc /\ DOMAIN frames' = 1..Depth /\ frames' # <<>>
        /\ frames'[Depth].pc = "mutex" /\ Top'.pc = "mutex"
        /\ \A i \in 1..Depth : i # Depth => frames'[i].pc = frames[i].pc
    BY <1>f, <1>k, <2>1 DEF Top
  <2> QED  BY <1>f, <1>p, <2>1, <2>2, <2>3 DEF Holders, HandlerAt, WakingPC
<1>8. CASE WakeLock
  BY <1>8, <1>f, <1>k, <1>p, HandlerGoes, PthreadTaken DEF Holders, WakeLock, HandlerAt, WakingPC, Top
<1>9. CASE WakeSignal
  BY <1>9, <1>f, <1>k, <1>p, HandlerGoes, PthreadFreed DEF Holders, WakeSignal, HandlerAt, WakingPC, Top
<1>10. CASE WakeUnlock
  <2>1. Top.pc = "unlock" /\ Moved("delivered", Top.val, Top.old) /\ UNCHANGED <<cur, pc>>
    BY <1>10, <1>f, HandlerGoes
  <2>2. lock'["ready"] = Free /\ \A k \in Locks \ {"ready"} : lock'[k] = lock[k]
    BY <1>10, <1>p, LockFreed DEF WakeUnlock
  <2>3. /\ Top.pc = frames[Depth].pc /\ DOMAIN frames' = 1..Depth /\ frames' # <<>>
        /\ frames'[Depth].pc = "delivered" /\ Top'.pc = "delivered"
        /\ \A i \in 1..Depth : i # Depth => frames'[i].pc = frames[i].pc
    BY <1>f, <1>k, <2>1 DEF Top
  <2> QED  BY <1>f, <1>p, <2>1, <2>2, <2>3 DEF Holders, HandlerAt, WakingPC
<1>11. CASE HandleRead
  <2>1. /\ lock' = lock /\ Top.pc \notin WakingPC \cup {"test"}
        /\ \E l \in {"store_sum", "load_count", "store_count", "delivered"}, o \in {Top.old, sum, pending} :
              Moved(l, Top.val, o)
    BY <1>11, HandleReadGoes DEF HandleRead, signalVars, WakingPC
  <2> QED  BY <1>f, <1>k, <2>1 DEF Holders, HandlerAt, WakingPC, Top
<1> QED  BY <1>1, <1>2, <1>3, <1>4, <1>5, <1>6, <1>7, <1>8, <1>9, <1>10, <1>11 DEF HandlerStep

\* A handler that starts holds nothing.
LEMMA HoldersKept ==
    ASSUME Types, Places, Signals, Holders, Next
    PROVE  Holders'
<1>1. CASE TimePasses
  BY <1>1 DEF TimePasses, Holders, HandlerAt, uthreadVars, signalVars, Depth, Top
<1>2. CASE Interrupt
  <2>1. [pc |-> "lock", now |-> ripe, val |-> Nobody, old |-> 0] \in Frame
    BY TheNumbers DEF Types, Frame, HandlerPC, Numbers
  <2>2. /\ Depth \in Nat /\ DOMAIN frames' = 1..(Depth + 1) /\ DOMAIN frames = 1..Depth
        /\ \A i \in 1..Depth : frames'[i] = frames[i] /\ i \in 1..(Depth + 1)
        /\ frames'[Depth + 1].pc = "lock"
        /\ \A i \in 1..(Depth + 1) : i = Depth + 1 \/ i \in 1..Depth
    BY <1>2, <2>1, FramePushed DEF Types, Interrupt
  <2>3. UNCHANGED <<cur, pc, lock>> /\ ~mask
    BY <1>2 DEF Interrupt, uthreadVars
  <2>4. pc[cur] # "prq_enqueue" /\ ~HandlerAt("test")
    <3>1. frames # <<>> => Depth \in DOMAIN frames
      BY <2>2 DEF Types, Depth
    <3> QED  BY <2>2, <2>3, <3>1 DEF Signals, HoldsPC, HandlerAt, Top
  <2> QED  BY <2>2, <2>3, <2>4 DEF Holders, WakingPC
<1> QED  BY <1>1, <1>2, HoldersU, HoldersH DEF Next

\* A handler waits for ever only in the two ways that are known.
LEMMA KnownHangs ==
    ASSUME Types, Signals, Holders
    PROVE  OnlyKnownHangs
<1> SUFFICES ASSUME Hangs
             PROVE  \/ Wanted \in {"queue", "ready"} /\ lock[Wanted] > 0
                    \/ /\ Wanted = "pthread" /\ lock["pthread"] = 0
                       /\ cur = base /\ pc[base] \in {"falling_asleep", "waking"}
  BY DEF OnlyKnownHangs
<1>1. /\ frames # <<>> /\ Depth \in DOMAIN frames /\ Top = frames[Depth] /\ lock[Wanted] # Free
      /\ Depth # Free
  BY TheNumbers DEF Hangs, Types, Depth, Top, Numbers
<1>2. pc[cur] \notin HoldsPC
  BY <1>1 DEF Signals
<1>3. CASE Top.pc = "lock"
  BY <1>1, <1>2, <1>3 DEF Wanted, Holders, HoldsPC, HandlerAt
<1>4. CASE Top.pc = "pop" \/ Top.pc = "unblock"
  <2>1. Wanted \in {"queue", "ready"} /\ lock[Wanted] \in 0..Free
    BY <1>4 DEF Wanted, Types, Locks
  <2>2. lock[Wanted] # 0
    BY <1>2, <2>1 DEF Holders, HoldsPC
  <2>3. PICK d \in Nat : d = lock[Wanted]
    BY <2>1, TheNumbers DEF Types, Numbers
  <2>4. d > 0
    BY <2>2, <2>3
  <2> QED  BY <2>1, <2>3, <2>4
<1>5. CASE Top.pc = "mutex"
  <2>1. lock["ready"] = Depth
    BY <1>1, <1>5 DEF Holders, WakingPC
  <2>2. Wanted = "pthread"
    BY <1>5 DEF Wanted
  <2>3. ASSUME NEW i \in DOMAIN frames, frames[i].pc = "signal"  PROVE FALSE
    BY <1>1, <1>5, <2>1, <2>3 DEF Holders, WakingPC
  <2> QED  BY <1>1, <2>2, <2>3 DEF Holders
<1> QED  BY <1>3, <1>4, <1>5 DEF Hangs, Wanted

-----------------------------------------------------------------------------
(* Uthreads that have been started, and results.                           *)

\* What the disk has written stays.
LEMMA ResultsStay ==
    ASSUME Types, Next
    PROVE  \A r : HasResult(r) => HasResult(r)'
<1>1. completed' \in Nat /\ completed' >= completed
  <2>1. CASE HandlerTakes
    BY <2>1 DEF Types, HandlerTakes
  <2>2. CASE HandlerStep /\ ~HandlerTakes
    <3>1. completed' = completed
      BY <2>2 DEF HandlerStep, HandlerLock, HandlerReturns, Deliver, Delivered, ClearFlag, PopLock, queue_dequeue,
                  uthread_unblock, WakeLock, WakeSignal, WakeUnlock, HandleRead, diskVars
    <3> QED  BY <3>1 DEF Types
  <2> QED  BY <2>1, <2>2, UthreadAlone DEF Types, Next, TimePasses, Interrupt, diskVars
<1>2. reads' = reads \/ reads' = Append(reads, Reading)
  BY HandlerAlone DEF Next, TimePasses, Interrupt, diskVars, UthreadStep, SpuriousWakeUp, ScheduleLock, prq_enqueue,
     EnqueueLock, queue_enqueue, SetFlag, PollFlag, PollCount, uthread_create, ReadyLock, uthread_join, SumUp,
     StartJoiner, Die, StopLock, ready_queue_dequeue, FallAsleep, WakeUp, Awake, uthread_switch
<1>3. \A i \in 1..completed : i \in 1..completed' /\ reads'[i] = reads[i]
  <2>1. \A i \in 1..completed : i \in 1..Len(reads)
    BY DEF Types
  <2> QED  BY <1>1, <1>2, <2>1 DEF Types
<1> QED  BY <1>3 DEF HasResult

\* A step of a uthread that is not about starting any.
LEMMA StartedGoes ==
    ASSUME Types, Places, Started, Next, NEW l, Goto(l), UNCHANGED <<cur, ready, next>>,
           l \notin {"create", "created", "sum"}, pc[cur] \notin {"create", "created"}
    PROVE  Started'
<1>n. Numbers /\ Control
  BY TheNumbers DEF Types
<1>1. /\ \A u \in Uthreads \ {cur} : pc'[u] = pc[u]
      /\ pc'[cur] = l /\ main \in Uthreads /\ \A r \in Readers : r \in Uthreads
  BY <1>n DEF Control, Goto, Numbers
<1>2. InReady' = InReady
  BY DEF InReady
<1> QED  BY <1>1, <1>2, ResultsStay DEF Started

\* A uthread starts once, and is made ready again only with its result.
LEMMA StartedU ==
    ASSUME Types, Places, Started, UthreadStep \/ SpuriousWakeUp
    PROVE  Started'
<1>n. Numbers /\ Control /\ Next
  BY TheNumbers DEF Types, Next
<1>m. /\ main \notin Readers /\ main \in Uthreads /\ \A r \in Readers : r \in Uthreads /\ r # main
      /\ Nobody \notin Readers /\ main \in 0..Blocks /\ Readers \subseteq 0..Blocks
  BY <1>n DEF Numbers
\* Who creates runs alone.
<1>c. pc[cur] \notin {"create", "created"} => pc[main] \notin {"create", "created"}
  BY DEF Started
<1>g. ASSUME NEW l, Goto(l), UNCHANGED <<cur, ready, next>>,
             l \notin {"create", "created", "sum"}, pc[cur] \notin {"create", "created"}
      PROVE  Started'
  BY <1>n, <1>g, StartedGoes
<1>1. CASE ScheduleLock
  BY <1>g, <1>1 DEF ScheduleLock, At
<1>2. CASE prq_enqueue
  BY <1>g, <1>2 DEF prq_enqueue, At
<1>3. CASE EnqueueLock
  BY <1>g, <1>3 DEF EnqueueLock, At
<1>4. CASE queue_enqueue
  BY <1>g, <1>4 DEF queue_enqueue, At
<1>5. CASE SetFlag
  BY <1>g, <1>5 DEF SetFlag, At
<1>6. CASE PollFlag
  BY <1>g, <1>6 DEF PollFlag, At
<1>7. CASE PollCount
  BY <1>g, <1>7 DEF PollCount, At
<1>8. CASE uthread_join
  BY <1>g, <1>8 DEF uthread_join, At, NextJoin
<1>9. CASE SumUp
  BY <1>g, <1>9 DEF SumUp, At
<1>10. CASE Die
  BY <1>g, <1>10 DEF Die, At
<1>11. CASE StopLock
  BY <1>g, <1>11 DEF StopLock, At, ReadyLock
<1>12. CASE FallAsleep
  BY <1>g, <1>12 DEF FallAsleep, At
<1>13. CASE WakeUp
  BY <1>g, <1>13 DEF WakeUp, At
<1>14. CASE SpuriousWakeUp
  BY <1>g, <1>14 DEF SpuriousWakeUp, At
<1>15. CASE Awake
  BY <1>g, <1>15 DEF Awake, At
<1>16. CASE StartJoiner
  <2>1. CASE ReadyLock("start", "started")
    BY <1>g, <2>1 DEF ReadyLock, At
  <2>2. CASE pc[cur] = "started" /\ Put(main) /\ Goto("die") /\ UNCHANGED <<cur, next>>
    <3>1. /\ InReady' = InReady \cup {main}
          /\ \A i, j \in DOMAIN ready' : ready'[i] = ready'[j] => i = j
      BY <1>m, <2>2, IsPut DEF Types, Started
    <3>2. pc'[cur] = "die" /\ \A u \in Uthreads \ {cur} : pc'[u] = pc[u]
      BY <1>n, <2>2 DEF Control, Goto
    <3> QED  BY <1>n, <1>m, <1>c, <2>2, <3>1, <3>2, ResultsStay DEF Started
  <2> QED  BY <1>16, <2>1, <2>2 DEF StartJoiner, At
<1>17. CASE uthread_create
  <2>c. cur = main /\ pc[main] \in {"create", "created"} /\ next = Nobody /\ \A r \in Readers : pc[r] = "schedule"
    BY <1>n, <1>17, WhoRuns DEF uthread_create, ReadyLock, At, MainPC, Started, Control
  <2>g. ASSUME NEW l, Goto(l)  PROVE \A r \in Readers : pc'[r] = "schedule"
    BY <1>n, <1>m, <2>c, <2>g DEF Control, Goto
  <2>1. CASE ReadyLock("create", "created")
    <3>1. InReady' = InReady /\ UNCHANGED <<ready, cur, next>>
      BY <2>1 DEF ReadyLock, InReady
    <3>2. \A r \in Readers : pc'[r] = "schedule"
      BY <2>1, <2>g DEF ReadyLock
    <3> QED  BY <1>m, <2>c, <3>1, <3>2 DEF Started
  <2>2. CASE Put(step) /\ UNCHANGED <<cur, next>> /\ (Goto("create") \/ Goto("join"))
    <3>1. \A i, j \in DOMAIN ready' : ready'[i] = ready'[j] => i = j
      BY <1>m, <2>2, IsPut DEF Types, Started
    <3>2. \A r \in Readers : pc'[r] = "schedule"
      BY <2>2, <2>g
    <3> QED  BY <1>m, <2>c, <2>2, <3>1, <3>2 DEF Started
  <2> QED  BY <1>17, <2>1, <2>2 DEF uthread_create
<1>18. CASE ready_queue_dequeue
  <2>0. pc[cur] = "dequeue" /\ cur' = cur /\ next = Nobody
    BY <1>n, <1>18 DEF ready_queue_dequeue, At, Control
  <2>g. ASSUME NEW l, Goto(l)  PROVE pc'[cur] = l /\ \A u \in Uthreads \ {cur} : pc'[u] = pc[u]
    BY <1>n, <2>g DEF Control, Goto
  <2>1. CASE ready # <<>> /\ ready' = Tail(ready) /\ next' = Head(ready) /\ Goto("switch")
    <3>1. /\ InReady = InReady' \cup {next'} /\ next' \notin InReady'
          /\ \A i, j \in DOMAIN ready' : ready'[i] = ready'[j] => i = j
      BY <2>1, IsTaken DEF Types, Started
    <3>2. pc'[cur] = "switch" /\ \A u \in Uthreads \ {cur} : pc'[u] = pc[u]
      BY <2>1, <2>g
    <3>3. pc'[main] \notin {"create", "created"}
      BY <1>c, <1>m, <2>0, <3>2
    <3>4. ASSUME NEW r \in Readers, r \in InReady' \/ next' = r
          PROVE  HasResult(r)' \/ (pc'[r] = "schedule" /\ cur # r /\ ~(r \in InReady' /\ next' = r))
      BY <1>m, <2>0, <3>1, <3>2, <3>4, <1>n, ResultsStay DEF Started
    <3>5. ASSUME NEW r \in Readers, pc'[r] = "sum"  PROVE HasResult(r)'
      BY <1>m, <1>n, <3>2, <3>5, ResultsStay DEF Started
    <3> QED  BY <2>0, <3>1, <3>3, <3>4, <3>5 DEF Started
  <2>2. CASE ready' = ready /\ next' = base /\ Goto("switch")
    <3>1. InReady' = InReady /\ base \notin Readers
      BY <1>n, <2>2 DEF InReady, Numbers
    <3>2. pc'[cur] = "switch" /\ \A u \in Uthreads \ {cur} : pc'[u] = pc[u]
      BY <2>2, <2>g
    <3>3. pc'[main] \notin {"create", "created"}
      BY <1>c, <1>m, <2>0, <3>2
    <3>4. ASSUME NEW r \in Readers, r \in InReady'
          PROVE  HasResult(r)' \/ (pc'[r] = "schedule" /\ cur # r /\ next' # r)
      BY <1>m, <1>n, <2>2, <3>1, <3>2, <3>4, ResultsStay DEF Started
    <3>5. ASSUME NEW r \in Readers, pc'[r] = "sum"  PROVE HasResult(r)'
      BY <1>m, <1>n, <3>2, <3>5, ResultsStay DEF Started
    <3> QED  BY <2>0, <2>2, <3>1, <3>3, <3>4, <3>5 DEF Started
  <2>3. CASE UNCHANGED <<ready, next>> /\ Goto("falling_asleep")
    BY <1>g, <2>0, <2>3
  <2> QED  BY <1>18, <2>1, <2>2, <2>3 DEF ready_queue_dequeue
<1>19. CASE uthread_switch
  <2>1. /\ pc[cur] = "switch" /\ next \in Uthreads /\ cur' = next /\ next' = Nobody /\ ready' = ready
        /\ pc' = [pc EXCEPT ![cur] = "stopped", ![next] = IF pc[next] = "schedule" THEN "schedule" ELSE Resumed(next)]
    BY <1>n, <1>19 DEF uthread_switch, At, Control
  <2>2. /\ pc'[next] = IF pc[next] = "schedule" THEN "schedule" ELSE Resumed(next)
        /\ \A u \in Uthreads \ {next} : pc'[u] = IF u = cur THEN "stopped" ELSE pc[u]
    BY <1>n, <2>1 DEF Control
  <2>3. InReady' = InReady
    BY <2>1 DEF InReady
  <2>4. pc'[main] \notin {"create", "created"}
    <3>1. main # base
      BY <1>n DEF Numbers
    <3>2. CASE next = main
      BY <2>2, <3>1, <3>2 DEF Resumed
    <3>3. CASE next # main
      <4>1. pc[main] \notin {"create", "created"}
        BY <1>c, <2>1
      <4> QED  BY <1>m, <2>2, <3>3, <4>1
    <3> QED  BY <3>2, <3>3
  <2>5. ASSUME NEW r \in Readers, r \in InReady'
        PROVE  HasResult(r)' \/ (pc'[r] = "schedule" /\ next # r)
    BY <1>m, <1>n, <2>1, <2>2, <2>3, <2>5, ResultsStay DEF Started
  <2>6. ASSUME NEW r \in Readers, pc'[r] = "sum"  PROVE HasResult(r)'
    <3>1. CASE r = next
      BY <1>n, <2>1, <2>2, <2>6, <3>1, ResultsStay DEF Started
    <3>2. CASE r # next
      BY <1>m, <1>n, <2>1, <2>2, <2>6, <3>2, ResultsStay DEF Started
    <3> QED  BY <3>1, <3>2
  <2> QED  BY <1>m, <2>1, <2>4, <2>5, <2>6 DEF Started
<1> QED  BY <1>1, <1>2, <1>3, <1>4, <1>5, <1>6, <1>7, <1>8, <1>9, <1>10, <1>11, <1>12, <1>13, <1>14, <1>15, <1>16, <1>17, <1>18, <1>19 DEF UthreadStep

\* So do handlers, which make ready whom the entry names.
LEMMA StartedKept ==
    ASSUME Types, Places, Started, Results, Next
    PROVE  Started'
<1>1. CASE uthread_unblock
  <2>0. HandlerStep
    BY <1>1 DEF HandlerStep
  <2>1. UNCHANGED <<cur, pc, next>> /\ frames # <<>> /\ Depth \in DOMAIN frames
    BY <2>0, HandlerAlone
  <2>2. Top.val \in Readers /\ HasResult(Top.val)
    BY <1>1, <2>1 DEF uthread_unblock, HandlerAt, Results, Top
  <2>3. Readers \subseteq 0..Blocks
    BY TheNumbers DEF Types, Numbers
  <2>4. InReady' = InReady \cup {Top.val} /\ \A i, j \in DOMAIN ready' : ready'[i] = ready'[j] => i = j
    BY <1>1, <2>2, <2>3, IsPut DEF Types, Started, uthread_unblock
  <2> QED  BY <2>1, <2>2, <2>4, ResultsStay DEF Started
<1>2. CASE (HandlerStep /\ ~uthread_unblock) \/ TimePasses \/ Interrupt
  <2>1. UNCHANGED <<cur, pc, next, ready>>
    BY <1>2, HandlerAlone DEF TimePasses, Interrupt, uthreadVars, HandlerStep, HandlerLock, HandlerTakes, HandlerReturns,
       Deliver, Delivered, ClearFlag, PopLock, queue_dequeue, WakeLock, WakeSignal, WakeUnlock, HandleRead
  <2> QED  BY <2>1, ResultsStay DEF Started, InReady
<1> QED  BY <1>1, <1>2, StartedU DEF Next

-----------------------------------------------------------------------------
(* Reads that are delivered and entries of the queue.                      *)

\* The handlers that have taken a read and no entry can be counted.
LEMMA TakenFinite ==
    ASSUME Types
    PROVE  IsFiniteSet(Taken) /\ Cardinality(Taken) \in Nat /\ (Taken # {} => Cardinality(Taken) >= 1)
<1>1. DOMAIN frames = 1..Len(frames) /\ Len(frames) \in Nat
  BY DEF Types
<1>2. IsFiniteSet(Taken)
  <2>1. IsFiniteSet(1..Len(frames))
    <3>1. 1 \in Int /\ Len(frames) \in Int
      BY <1>1
    <3> QED  BY <3>1, FS_Interval
  <2>2. Taken \subseteq 1..Len(frames)
    BY <1>1 DEF Taken
  <2> QED  BY <2>1, <2>2, FS_Subset
<1>3. Cardinality(Taken) \in Nat /\ (Cardinality(Taken) = 0 <=> Taken = {})
  BY <1>2, FS_CardinalityType, FS_EmptySet
<1> QED  BY <1>2, <1>3

\* How many handlers have taken a read and no entry, after one has gone on.
LEMMA TakenMoves ==
    ASSUME Types, NEW l, NEW v, NEW o, frames # <<>>, Moved(l, v, o)
    PROVE  /\ (l \in TakenPC <=> Top.pc \in TakenPC) => Taken' = Taken
           /\ l \in TakenPC /\ Top.pc \notin TakenPC => Cardinality(Taken') = Cardinality(Taken) + 1
           /\ l \notin TakenPC /\ Top.pc \in TakenPC => Cardinality(Taken') + 1 = Cardinality(Taken)
<1>1. Depth \in DOMAIN frames /\ DOMAIN frames' = DOMAIN frames
  BY DEF Moved
<1>2. \A i \in DOMAIN frames : frames'[i].pc = IF i = Depth THEN l ELSE frames[i].pc
  BY DEF Moved
<1>3. ASSUME l \in TakenPC <=> Top.pc \in TakenPC  PROVE Taken' = Taken
  BY <1>1, <1>2, <1>3 DEF Taken, Top
<1>4. ASSUME l \in TakenPC, Top.pc \notin TakenPC  PROVE Cardinality(Taken') = Cardinality(Taken) + 1
  <2>1. Taken' = Taken \cup {Depth} /\ Depth \notin Taken
    BY <1>1, <1>2, <1>4 DEF Taken, Top
  <2> QED  BY <2>1, TakenFinite, FS_AddElement
<1>5. ASSUME l \notin TakenPC, Top.pc \in TakenPC  PROVE Cardinality(Taken') + 1 = Cardinality(Taken)
  <2>1. Taken' = Taken \ {Depth} /\ Depth \in Taken
    BY <1>1, <1>2, <1>5 DEF Taken, Top
  <2>2. Cardinality(Taken') = Cardinality(Taken) - 1
    BY <2>1, TakenFinite, FS_RemoveElement
  <2>3. Cardinality(Taken) \in Nat
    BY TakenFinite
  <2> QED  BY <2>2, <2>3
<1> QED  BY <1>3, <1>4, <1>5

\* A uthread puts its entry where its read is: last.
LEMMA QueueU ==
    ASSUME Types, Places, Queue, UthreadStep \/ SpuriousWakeUp
    PROVE  Queue'
<1>n. Numbers /\ Control
  BY TheNumbers DEF Types
<1>f. /\ frames = <<>> /\ frames' = <<>> /\ DOMAIN frames = {} /\ DOMAIN frames' = {}
      /\ UNCHANGED <<version, completed>> /\ Taken = {} /\ Taken' = {} /\ Cardinality({}) = 0
  BY UthreadAlone, FS_EmptySet DEF Taken
<1> SUFFICES ASSUME version \in {"aRead", "tRead"}
             PROVE  /\ \E k \in Nat : Queued(k)'
                    /\ pc'[cur'] \in QueueingPC => reads' # <<>> /\ reads'[Len(reads')] = Reading'
  BY <1>f DEF Queue
<1>q. /\ completed \in Nat /\ Queued(completed)
      /\ pc[cur] \in QueueingPC => reads # <<>> /\ reads[Len(reads)] = Reading
  <2>1. PICK k \in Nat : Queued(k)
    BY <1>f DEF Queue
  <2>2. k = completed
    BY <1>f, <2>1 DEF Queued, Types
  <2> QED  BY <1>f, <2>1, <2>2 DEF Queue
<1>g. ASSUME NEW l, Goto(l), cur' = cur  PROVE pc'[cur'] = l
  BY <1>n, <1>g DEF Control, Goto
\* A step from elsewhere to elsewhere.
<1>o. ASSUME pc[cur] \notin QueueingPC, pc'[cur'] \notin QueueingPC, UNCHANGED <<reads, pending_read_queue>>
      PROVE  /\ \E k \in Nat : Queued(k)'
             /\ pc'[cur'] \in QueueingPC => reads' # <<>> /\ reads'[Len(reads')] = Reading'
  BY <1>f, <1>o, <1>q DEF Queued
<1>1. CASE prq_enqueue
  <2>1. pc[cur] = "prq_enqueue" /\ reads' = Append(reads, Reading) /\ Goto("enqueue")
        /\ UNCHANGED <<version, cur, step, pending_read_queue>>
    BY <1>1 DEF prq_enqueue, At, programVars
  <2>2. pc'[cur'] = "enqueue" /\ Reading' = Reading
    BY <1>g, <2>1 DEF Reading
  <2>3. completed + Len(pending_read_queue) = Len(reads) /\ \A i \in DOMAIN pending_read_queue : pending_read_queue[i] = reads[completed + i]
    BY <1>q, <2>1 DEF Queued, QueueingPC
  <2>4. /\ Len(reads') = Len(reads) + 1 /\ reads'[Len(reads) + 1] = Reading /\ \A i \in 1..Len(reads) : reads'[i] = reads[i]
        /\ Len(reads) \in Nat /\ Len(pending_read_queue) \in Nat
        /\ DOMAIN pending_read_queue = 1..Len(pending_read_queue)
    BY <2>1 DEF Types
  <2>5. \A i \in DOMAIN pending_read_queue : completed + i \in 1..Len(reads)
    BY <1>q, <2>3, <2>4
  <2>6. Queued(completed)'
    BY <1>f, <1>q, <2>1, <2>2, <2>3, <2>4, <2>5 DEF Queued, QueueingPC
  <2> QED  BY <1>f, <1>q, <2>2, <2>4, <2>6
<1>2. CASE EnqueueLock
  <2>1. pc[cur] = "enqueue" /\ pc'[cur'] = "queue_enqueue" /\ UNCHANGED <<version, cur, step, reads, pending_read_queue>>
    BY <1>2, <1>g DEF EnqueueLock, At, diskVars, programVars
  <2> QED  BY <1>f, <1>q, <2>1 DEF Queued, QueueingPC, Reading
<1>3. CASE queue_enqueue
  <2>1. pc[cur] = "queue_enqueue" /\ pending_read_queue' = Append(pending_read_queue, Reading) /\ UNCHANGED reads
        /\ cur' = cur /\ (Goto("stop") \/ Goto("schedule") \/ Goto("poll"))
    BY <1>3 DEF queue_enqueue, At, diskVars
  <2>2. pc'[cur'] \notin QueueingPC
    BY <1>g, <2>1 DEF QueueingPC
  <2>3. /\ completed + Len(pending_read_queue) = Len(reads) - 1 /\ reads[Len(reads)] = Reading
        /\ \A i \in DOMAIN pending_read_queue : pending_read_queue[i] = reads[completed + i]
    BY <1>q, <2>1 DEF Queued, QueueingPC
  <2>4. /\ Len(reads) \in Nat /\ Len(pending_read_queue) \in Nat
        /\ DOMAIN pending_read_queue = 1..Len(pending_read_queue)
        /\ Len(pending_read_queue') = Len(pending_read_queue) + 1
        /\ DOMAIN pending_read_queue' = 1..(Len(pending_read_queue) + 1)
        /\ pending_read_queue'[Len(pending_read_queue) + 1] = Reading
        /\ \A i \in DOMAIN pending_read_queue : pending_read_queue'[i] = pending_read_queue[i]
    BY <2>1 DEF Types
  <2>5. \A i \in DOMAIN pending_read_queue' : i \in DOMAIN pending_read_queue \/ i = Len(pending_read_queue) + 1
    BY <2>4
  <2>6. \A i \in DOMAIN pending_read_queue' : pending_read_queue'[i] = reads'[completed + i]
    <3>1. completed + (Len(pending_read_queue) + 1) = Len(reads)
      BY <1>q, <2>3, <2>4
    <3> QED  BY <2>1, <2>3, <2>4, <2>5, <3>1
  <2>7. Queued(completed)'
    BY <1>f, <1>q, <2>1, <2>2, <2>3, <2>4, <2>6 DEF Queued
  <2> QED  BY <1>f, <1>q, <2>2, <2>7
<1>4. CASE ScheduleLock
  BY <1>g, <1>o, <1>4 DEF ScheduleLock, At, QueueingPC, diskVars, programVars
<1>5. CASE SetFlag
  BY <1>g, <1>o, <1>5 DEF SetFlag, At, QueueingPC, diskVars, programVars
<1>6. CASE PollFlag
  BY <1>g, <1>o, <1>6 DEF PollFlag, At, QueueingPC, diskVars, programVars
<1>7. CASE PollCount
  BY <1>g, <1>o, <1>7 DEF PollCount, At, QueueingPC, diskVars, programVars
<1>8. CASE uthread_create
  BY <1>g, <1>o, <1>8 DEF uthread_create, At, QueueingPC, diskVars, programVars, ReadyLock
<1>9. CASE uthread_join
  BY <1>g, <1>o, <1>9 DEF uthread_join, At, QueueingPC, diskVars, programVars, NextJoin
<1>10. CASE SumUp
  BY <1>g, <1>o, <1>10 DEF SumUp, At, QueueingPC, diskVars, programVars
<1>11. CASE StartJoiner
  BY <1>g, <1>o, <1>11 DEF StartJoiner, At, QueueingPC, diskVars, programVars, ReadyLock
<1>12. CASE Die
  BY <1>g, <1>o, <1>12 DEF Die, At, QueueingPC, diskVars, programVars
<1>13. CASE StopLock
  BY <1>g, <1>o, <1>13 DEF StopLock, At, QueueingPC, diskVars, programVars, ReadyLock
<1>14. CASE ready_queue_dequeue
  BY <1>g, <1>o, <1>14 DEF ready_queue_dequeue, At, QueueingPC, diskVars, programVars
<1>15. CASE FallAsleep
  BY <1>g, <1>o, <1>15 DEF FallAsleep, At, QueueingPC, diskVars, programVars
<1>16. CASE WakeUp
  BY <1>g, <1>o, <1>16 DEF WakeUp, At, QueueingPC, diskVars, programVars
<1>17. CASE SpuriousWakeUp
  BY <1>g, <1>o, <1>17 DEF SpuriousWakeUp, At, QueueingPC, diskVars, programVars
<1>18. CASE Awake
  BY <1>g, <1>o, <1>18 DEF Awake, At, QueueingPC, diskVars, programVars
<1>19. CASE uthread_switch
  BY <1>n, <1>o, <1>19 DEF uthread_switch, Resumed, At, Control, QueueingPC, diskVars, programVars
<1> QED  BY <1>1, <1>2, <1>3, <1>4, <1>5, <1>6, <1>7, <1>8, <1>9, <1>10, <1>11, <1>12, <1>13, <1>14, <1>15, <1>16, <1>17, <1>18, <1>19 DEF UthreadStep

\* Nothing but the places of the handlers has changed.
LEMMA QueueStays ==
    ASSUME Queue, UNCHANGED <<version, cur, pc, step, reads, completed, pending_read_queue>>, Taken' = Taken,
           version \in {"aRead", "tRead"} => \A i \in DOMAIN frames' : frames'[i].pc \notin {"crash", "clear"} \/
              (i \in DOMAIN frames /\ frames'[i].pc = frames[i].pc)
    PROVE  Queue'
<1> SUFFICES ASSUME version \in {"aRead", "tRead"}  PROVE Queue'
  BY DEF Queue
<1>1. PICK k \in Nat : Queued(k)
  BY DEF Queue
<1>2. Queued(k)'
  BY <1>1 DEF Queued
<1>3. Reading' = Reading
  BY DEF Reading
<1> QED  BY <1>2, <1>3 DEF Queue

\* A handler that takes a read makes one entry the more due, and one that takes an
\* entry one the less.  It finds none only when the last one is on its way.
LEMMA QueueH ==
    ASSUME Types, Signals, Queue, HandlerStep
    PROVE  Queue'
<1>f. /\ frames # <<>> /\ Depth \in DOMAIN frames /\ DOMAIN frames = 1..Depth /\ Depth \in Nat
      /\ UNCHANGED <<version, cur, pc, step, reads, ripe>> /\ Top = frames[Depth]
  BY InnermostHandler
<1>k. ASSUME NEW l, NEW v, NEW o, Moved(l, v, o)
      PROVE  /\ DOMAIN frames' = DOMAIN frames
             /\ \A i \in DOMAIN frames : frames'[i].pc = IF i = Depth THEN l ELSE frames[i].pc
  BY <1>k DEF Moved
\* A step of a handler that takes neither a read nor an entry.
<1>s. ASSUME NEW l, NEW v, NEW o, Moved(l, v, o), l \notin {"crash", "clear"},
             l \in TakenPC <=> Top.pc \in TakenPC, UNCHANGED <<completed, pending_read_queue>>
      PROVE  Queue'
  BY <1>f, <1>k, <1>s, TakenMoves, QueueStays
<1>1. CASE HandlerTakes
  <2>1. /\ Moved("deliver", Top.val, Top.old) /\ Top.pc = "test" /\ completed' = completed + 1
        /\ UNCHANGED pending_read_queue
    BY <1>1, HandlerGoes DEF HandlerTakes, programVars
  <2>2. Cardinality(Taken') = Cardinality(Taken) + 1
    BY <1>f, <2>1, TakenMoves DEF TakenPC
  <2> SUFFICES ASSUME version \in {"aRead", "tRead"}  PROVE Queue'
    BY <1>f DEF Queue
  <2>3. PICK k \in Nat : Queued(k)
    BY DEF Queue
  <2>4. Queued(k)'
    BY <1>f, <2>1, <2>2, <2>3, TakenFinite DEF Queued
  <2>5. Reading' = Reading
    BY <1>f DEF Reading
  <2> QED  BY <1>f, <1>k, <2>1, <2>4, <2>5 DEF Queue
<1>2. CASE HandlerReturns
  <2>1. /\ DOMAIN frames' = 1..(Depth - 1) /\ \A i \in 1..(Depth - 1) : frames'[i] = frames[i] /\ i \in 1..Depth
        /\ \A i \in 1..Depth : i = Depth \/ i \in 1..(Depth - 1)
    BY <1>2, <1>f, FrameReturns DEF HandlerReturns, HandlerAt, Types
  <2>2. frames[Depth].pc \notin TakenPC
    BY <1>2 DEF HandlerReturns, HandlerAt, Top, TakenPC
  <2>3. Taken' = Taken
    BY <1>f, <2>1, <2>2 DEF Taken
  <2>4. UNCHANGED <<completed, pending_read_queue>>
    BY <1>2 DEF HandlerReturns, diskVars, programVars
  <2> QED  BY <1>f, <2>1, <2>3, <2>4, QueueStays
<1>3. CASE Deliver
  <2>1. Top.pc = "deliver" /\ UNCHANGED <<completed, pending_read_queue>>
        /\ Moved(IF version \in {"aRead", "tRead"} THEN "pop" ELSE "clear", Top.val, Top.old)
    BY <1>3, HandlerGoes DEF Deliver, diskVars, programVars
  <2>2. CASE version \in {"aRead", "tRead"}
    BY <1>s, <2>1, <2>2 DEF TakenPC
  <2>3. CASE version \notin {"aRead", "tRead"}
    BY <1>f, <2>3 DEF Queue
  <2> QED  BY <2>2, <2>3
<1>4. CASE \/ HandlerLock \/ Delivered \/ ClearFlag \/ PopLock \/ uthread_unblock \/ WakeLock \/ WakeSignal
           \/ WakeUnlock
  <2>1. CASE version \notin {"aRead", "tRead"}
    BY <1>f, <2>1 DEF Queue
  <2>2. CASE version \in {"aRead", "tRead"} /\ ~ClearFlag
    <3>1. UNCHANGED <<completed, pending_read_queue>>
      BY <1>4, <2>2 DEF HandlerLock, Delivered, PopLock, uthread_unblock, WakeLock, WakeSignal, WakeUnlock, diskVars, programVars
    <3>2. \/ Moved("test", Top.val, Top.old) /\ Top.pc = "lock"
          \/ Moved("lock", Top.val, Top.old) /\ Top.pc = "delivered"
          \/ Moved("queue_dequeue", Top.val, Top.old) /\ Top.pc = "pop"
          \/ Moved("mutex", Top.val, Top.old) /\ Top.pc = "unblock"
          \/ Moved("signal", Top.val, Top.old) /\ Top.pc = "mutex"
          \/ Moved("unlock", Top.val, Top.old) /\ Top.pc = "signal"
          \/ Moved("delivered", Top.val, Top.old) /\ Top.pc = "unlock"
      BY <1>4, <2>2, HandlerGoes
    <3> QED  BY <1>s, <3>1, <3>2 DEF TakenPC
  <2>3. CASE version \in {"aRead", "tRead"} /\ ClearFlag
    <3>1. Top.pc = "clear" /\ frames[Depth].pc = "clear"
      BY <1>f, <2>3, HandlerGoes
    <3> QED  BY <1>f, <2>3, <3>1 DEF Queue
  <2> QED  BY <2>1, <2>2, <2>3
<1>5. CASE queue_dequeue
  <2>0. Top.pc = "queue_dequeue" /\ UNCHANGED completed
    BY <1>5, DequeueGoes DEF queue_dequeue, diskVars
  <2> SUFFICES ASSUME version \in {"aRead", "tRead"}  PROVE Queue'
    BY <1>f DEF Queue
  <2>1. PICK k \in Nat : Queued(k)
    BY DEF Queue
  <2>2. Cardinality(Taken) \in Nat /\ Cardinality(Taken) >= 1
    <3>1. Depth \in Taken
      BY <1>f, <2>0 DEF Taken, TakenPC
    <3> QED  BY <3>1, TakenFinite
  <2>3. Reading' = Reading
    BY <1>f DEF Reading
  <2>4. CASE pending_read_queue = <<>> /\ pending_read_queue' = <<>> /\ Moved("crash", Top.val, Top.old)
    <3>1. Taken' = Taken
      BY <1>f, <2>0, <2>4, TakenMoves DEF TakenPC
    <3>2. Queued(k)'
      BY <1>f, <2>0, <2>1, <2>4, <3>1 DEF Queued
    <3>3. pc[cur] \in QueueingPC
      <4>1. completed <= Len(reads) /\ Len(reads) \in Nat /\ Len(pending_read_queue) = 0 /\ completed \in Nat
        BY <2>4 DEF Types
      <4> QED  BY <2>1, <2>2, <4>1 DEF Queued
    <3>4. pc[cur] = "enqueue"
      BY <1>f, <3>3 DEF Signals, HoldsPC, QueueingPC
    <3> QED  BY <1>f, <1>k, <2>3, <2>4, <3>2, <3>4 DEF Queue
  <2>5. CASE /\ pending_read_queue # <<>> /\ pending_read_queue' = Tail(pending_read_queue)
             /\ Moved(IF version = "tRead" THEN "unblock" ELSE "load_sum", Head(pending_read_queue), Top.old)
    <3>0. PICK l \in {"unblock", "load_sum"} : Moved(l, Head(pending_read_queue), Top.old)
      BY <2>5
    <3>1. Cardinality(Taken') + 1 = Cardinality(Taken)
      BY <1>f, <2>0, <3>0, TakenMoves DEF TakenPC
    <3>a. Len(pending_read_queue) \in Nat \ {0} /\ DOMAIN pending_read_queue = 1..Len(pending_read_queue)
      BY <2>5 DEF Types
    <3>b. Len(pending_read_queue') = Len(pending_read_queue) - 1
      BY <2>5, <3>a DEF Types
    <3>c. /\ DOMAIN pending_read_queue' = 1..(Len(pending_read_queue) - 1)
          /\ \A i \in 1..(Len(pending_read_queue) - 1) : pending_read_queue'[i] = pending_read_queue[i + 1]
      BY <2>5, <3>a DEF Types
    <3>2. /\ Len(pending_read_queue) \in Nat \ {0} /\ DOMAIN pending_read_queue = 1..Len(pending_read_queue)
          /\ Len(pending_read_queue') = Len(pending_read_queue) - 1
          /\ DOMAIN pending_read_queue' = 1..(Len(pending_read_queue) - 1)
          /\ \A i \in DOMAIN pending_read_queue' : pending_read_queue'[i] = pending_read_queue[i + 1]
      BY <3>a, <3>b, <3>c
    <3>3. \A i \in DOMAIN pending_read_queue' : i \in Nat /\ i + 1 \in DOMAIN pending_read_queue /\ k + (i + 1) = (k + 1) + i
      <4>1. PICK n \in Nat \ {0} : n = Len(pending_read_queue)
        BY <3>2
      <4> QED  BY <3>2, <4>1
    <3>4. \A i \in DOMAIN pending_read_queue' : pending_read_queue'[i] = reads[(k + 1) + i]
      BY <2>1, <3>2, <3>3 DEF Queued
    <3>5. Cardinality(Taken') \in Nat
      <4>1. IsFiniteSet(Taken')
        <5>1. Taken' \subseteq Taken \cup {Depth}
          BY <1>f, <1>k, <3>0 DEF Taken
        <5> QED  BY <5>1, TakenFinite, FS_AddElement, FS_Subset
      <4> QED  BY <4>1, FS_CardinalityType
    <3>6. Queued(k + 1)'
      <4>1. k + Cardinality(Taken) = completed
        BY <2>1 DEF Queued
      <4>2. (k + 1) + Cardinality(Taken') = completed'
        BY <2>0, <2>2, <3>1, <3>5, <4>1
      <4>3. k + Len(pending_read_queue) = IF pc[cur] \in QueueingPC THEN Len(reads) - 1 ELSE Len(reads)
        BY <2>1 DEF Queued
      <4>4. (k + 1) + Len(pending_read_queue') = k + Len(pending_read_queue)
        BY <3>2
      <4>5. UNCHANGED <<pc, cur, reads>>
        BY <1>f
      <4> QED  BY <3>4, <4>2, <4>3, <4>4, <4>5 DEF Queued
    <3>7. k + 1 \in Nat
      OBVIOUS
    <3>8. \A i \in DOMAIN frames' : frames'[i].pc = "crash" => pc'[cur'] = "enqueue"
      BY <1>f, <1>k, <3>0 DEF Queue
    <3>9. \A i \in DOMAIN frames' : frames'[i].pc # "clear"
      BY <1>f, <1>k, <3>0 DEF Queue
    <3>10. pc'[cur'] \in QueueingPC => reads' # <<>> /\ reads'[Len(reads')] = Reading'
      BY <1>f, <2>3 DEF Queue
    <3> QED  BY <3>6, <3>7, <3>8, <3>9, <3>10 DEF Queue
  <2> QED  BY <1>5, <2>4, <2>5, DequeueGoes
<1>6. CASE HandleRead
  <2>1. UNCHANGED <<completed, pending_read_queue>>
    BY <1>6 DEF HandleRead, diskVars
  <2>2. CASE Top.pc = "load_sum" /\ Moved("store_sum", Top.val, sum)
    BY <1>s, <2>1, <2>2 DEF TakenPC
  <2>3. CASE Top.pc = "store_sum" /\ Moved("load_count", Top.val, Top.old)
    BY <1>s, <2>1, <2>3 DEF TakenPC
  <2>4. CASE Top.pc = "load_count" /\ Moved("store_count", Top.val, pending)
    BY <1>s, <2>1, <2>4 DEF TakenPC
  <2>5. CASE Top.pc = "store_count" /\ Moved("delivered", Top.val, Top.old)
    BY <1>s, <2>1, <2>5 DEF TakenPC
  <2> QED  BY <1>6, <2>2, <2>3, <2>4, <2>5, HandleReadGoes
<1> QED  BY <1>1, <1>2, <1>3, <1>4, <1>5, <1>6 DEF HandlerStep

\* Time and signals take neither.
LEMMA QueueKept ==
    ASSUME Types, Places, Signals, Queue, Next
    PROVE  Queue'
<1>1. CASE TimePasses
  <2>1. UNCHANGED <<version, cur, pc, step, reads, completed, pending_read_queue, frames>>
    BY <1>1 DEF TimePasses, uthreadVars, programVars
  <2> QED  BY <2>1, QueueStays DEF Taken
<1>2. CASE Interrupt
  <2>1. [pc |-> "lock", now |-> ripe, val |-> Nobody, old |-> 0] \in Frame
    BY TheNumbers DEF Types, Frame, HandlerPC, Numbers
  <2>2. /\ Depth \in Nat /\ DOMAIN frames' = 1..(Depth + 1) /\ DOMAIN frames = 1..Depth
        /\ \A i \in 1..Depth : frames'[i] = frames[i] /\ i \in 1..(Depth + 1)
        /\ frames'[Depth + 1].pc = "lock"
        /\ \A i \in 1..(Depth + 1) : i = Depth + 1 \/ i \in 1..Depth
    BY <1>2, <2>1, FramePushed DEF Types, Interrupt
  <2>3. Taken' = Taken
    BY <2>2 DEF Taken, TakenPC
  <2>4. UNCHANGED <<version, cur, pc, step, reads, completed, pending_read_queue>>
    BY <1>2 DEF Interrupt, uthreadVars, diskVars, programVars
  <2> QED  BY <2>2, <2>3, <2>4, QueueStays
<1> QED  BY <1>1, <1>2, QueueU, QueueH DEF Next

\* The entry a handler takes is that of a read the disk has done.
LEMMA EntryHasResult ==
    ASSUME Types, Flag, Queue, queue_dequeue, pending_read_queue # <<>>
    PROVE  HasResult(Head(pending_read_queue))
<1>1. frames # <<>> /\ Top.pc = "queue_dequeue" /\ Depth \in DOMAIN frames /\ Top = frames[Depth]
  <2>1. frames # <<>> /\ Top.pc = "queue_dequeue"
    BY DequeueGoes
  <2>2. Depth \in DOMAIN frames
    BY <2>1 DEF Types, Depth
  <2> QED  BY <2>1, <2>2 DEF Top
<1>2. version \in {"aRead", "tRead"}
  BY <1>1 DEF Types, Versions, Flag
<1>3. PICK k \in Nat : Queued(k)
  BY <1>2 DEF Queue
<1>4. Depth \in Taken
  BY <1>1 DEF Taken, TakenPC
<1>5. k + 1 \in 1..completed
  BY <1>3, <1>4, TakenFinite DEF Queued, Types
<1>6. Head(pending_read_queue) = reads[k + 1]
  BY <1>3 DEF Queued, Types
<1> QED  BY <1>5, <1>6 DEF HasResult
-----------------------------------------------------------------------------
(* The flag.                                                               *)

\* The program goes on when its one read is done.
LEMMA FlagU ==
    ASSUME Types, Places, Flag, UthreadStep \/ SpuriousWakeUp
    PROVE  Flag'
<1>n. Numbers /\ Control
  BY TheNumbers DEF Types
<1>f. frames' = <<>> /\ DOMAIN frames' = {} /\ UNCHANGED <<version, completed>>
  BY UthreadAlone
<1> SUFFICES ASSUME version \in {"sRead", "treasureHunt"}  PROVE Flag'
  BY <1>f DEF Flag
<1>1. /\ cur = main /\ pc[main] \in {"schedule", "prq_enqueue", "set", "poll", "done"}
      /\ version \notin {"aRead", "tRead"}
  BY DEF Places, ReadingPC, QueueingPC
<1>g. ASSUME NEW l, Goto(l), UNCHANGED cur  PROVE pc'[main] = l
  BY <1>n, <1>1, <1>g DEF Control, Goto
<1>t. completed \in Nat /\ step \in Nat /\ Len(reads) \in Nat /\ DOMAIN reads = 1..Len(reads)
  BY <1>n DEF Types, Numbers
<1>2. CASE ScheduleLock
  <2>1. pc[main] = "schedule" /\ pc'[main] = "prq_enqueue" /\ UNCHANGED <<step, reads, pending>>
    BY <1>1, <1>2, <1>g DEF ScheduleLock, At, diskVars, programVars
  <2>2. pending = 1
    BY <2>1 DEF Flag
  <2> QED  BY <1>f, <2>1, <2>2 DEF Flag
<1>3. CASE prq_enqueue
  <2>1. pc[main] = "prq_enqueue" /\ pc'[main] = "poll" /\ UNCHANGED <<step, pending>> /\ reads' = Append(reads, step)
    BY <1>1, <1>3, <1>g DEF prq_enqueue, At, programVars, Reading
  <2>2. pending = 1 /\ completed = Len(reads) /\ Len(reads) + 1 = step
    BY <2>1 DEF Flag
  <2>3. /\ Len(reads') = Len(reads) + 1 /\ DOMAIN reads' = 1..(Len(reads) + 1)
        /\ reads'[Len(reads) + 1] = step /\ \A i \in 1..Len(reads) : reads'[i] = reads[i]
        /\ \A i \in DOMAIN reads' : i \in 1..Len(reads) \/ i = Len(reads) + 1
    BY <2>1 DEF Types
  <2>4. \A i \in DOMAIN reads' : reads'[i] = i
    BY <1>t, <2>2, <2>3 DEF Flag
  <2> QED  BY <1>f, <1>t, <2>1, <2>2, <2>3, <2>4 DEF Flag
<1>4. CASE SetFlag
  <2>1. pc[main] = "set" /\ pc'[main] = "schedule" /\ UNCHANGED <<step, reads>> /\ pending' = 1
    BY <1>1, <1>4, <1>g DEF SetFlag, At, diskVars
  <2> QED  BY <1>f, <2>1 DEF Flag
<1>5. CASE PollFlag
  <2>1. /\ pc[main] = "poll" /\ UNCHANGED <<reads>> /\ pending = 0
        /\ \/ pc'[main] = "set" /\ step' = step + 1
           \/ pc'[main] = "done" /\ step' = step
    <3>1. pc[main] = "poll" /\ UNCHANGED <<reads, cur>> /\ pending = 0
      BY <1>1, <1>5 DEF PollFlag, At, diskVars
    <3>2. (Goto("set") /\ step' = step + 1) \/ (Goto("done") /\ step' = step)
      BY <1>5 DEF PollFlag
    <3> QED  BY <1>g, <3>1, <3>2
  <2>2. completed = step /\ Len(reads) = step
    BY <2>1 DEF Flag
  <2>3. \A i \in DOMAIN reads' : reads'[i] = i
    BY <2>1 DEF Flag
  <2> QED  BY <1>f, <1>t, <2>1, <2>2, <2>3 DEF Flag
<1> QED  BY <1>1, <1>2, <1>3, <1>4, <1>5 DEF UthreadStep, SpuriousWakeUp, EnqueueLock, queue_enqueue, PollCount,
     uthread_create, ReadyLock, uthread_join, SumUp, StartJoiner, Die, StopLock, ready_queue_dequeue, FallAsleep, WakeUp,
     Awake, uthread_switch, At

\* Only the handler that takes that read clears the flag.
LEMMA FlagH ==
    ASSUME Types, Results, Flag, HandlerStep
    PROVE  Flag'
<1>f. /\ frames # <<>> /\ Depth \in DOMAIN frames /\ DOMAIN frames = 1..Depth /\ Depth \in Nat
      /\ UNCHANGED <<version, pc, step, reads, ripe>> /\ Top = frames[Depth]
  BY InnermostHandler
<1> SUFFICES ASSUME version \in {"sRead", "treasureHunt"}  PROVE Flag'
  BY <1>f DEF Flag
<1>1. /\ pc[main] = "poll" /\ Len(reads) = step /\ completed + 1 >= step /\ (pending = 0 => completed = step)
      /\ Top.pc \in {"lock", "test", "deliver", "clear", "delivered"}
      /\ Top.pc \notin {"lock", "test"} => completed = Len(reads)
  BY <1>f DEF Flag
<1>k. ASSUME NEW l, NEW v, NEW o, Moved(l, v, o)
      PROVE  /\ DOMAIN frames' = DOMAIN frames
             /\ \A i \in DOMAIN frames : frames'[i].pc = IF i = Depth THEN l ELSE frames[i].pc
  BY <1>k DEF Moved
\* The handler goes on, and perhaps a read is done.
<1>s. ASSUME NEW l, NEW v, NEW o, Moved(l, v, o), l \in {"lock", "test", "deliver", "clear", "delivered"},
             UNCHANGED pending, completed' = completed, l \notin {"lock", "test"} => completed = Len(reads)
      PROVE  Flag'
  BY <1>f, <1>k, <1>s, <1>1 DEF Flag
<1>2. CASE HandlerLock
  <2>1. Moved("test", Top.val, Top.old) /\ UNCHANGED <<pending, completed>>
    BY <1>2, HandlerGoes DEF HandlerLock, diskVars, programVars
  <2> QED  BY <1>s, <2>1
<1>3. CASE Delivered
  <2>1. Moved("lock", Top.val, Top.old) /\ UNCHANGED <<pending, completed>>
    BY <1>3, HandlerGoes DEF Delivered, diskVars, programVars
  <2> QED  BY <1>s, <2>1
<1>4. CASE Deliver
  <2>0. version \notin {"aRead", "tRead"}
    OBVIOUS
  <2>1. Moved("clear", Top.val, Top.old) /\ UNCHANGED <<pending, completed>> /\ Top.pc = "deliver"
    BY <1>4, <2>0, HandlerGoes DEF Deliver, diskVars, programVars
  <2> QED  BY <1>s, <1>1, <2>1
<1>5. CASE ClearFlag
  <2>1. Moved("delivered", Top.val, Top.old) /\ pending' = 0 /\ completed' = completed /\ Top.pc = "clear"
    BY <1>5, HandlerGoes DEF ClearFlag, diskVars
  <2>2. completed = Len(reads)
    BY <1>1, <2>1
  <2>3. \A i \in DOMAIN frames' : frames'[i].pc \in {"lock", "test", "deliver", "clear", "delivered"}
    BY <1>k, <2>1 DEF Flag
  <2>4. \A i \in DOMAIN reads : reads[i] = i
    BY DEF Flag
  <2> QED  BY <1>f, <1>1, <2>1, <2>2, <2>3, <2>4 DEF Flag
<1>6. CASE HandlerTakes
  <2>1. Moved("deliver", Top.val, Top.old) /\ pending' = pending /\ completed' = completed + 1 /\ completed < Top.now
    BY <1>6, HandlerGoes DEF HandlerTakes, programVars
  <2>2. completed \in Nat /\ ripe \in Nat /\ ripe <= Len(reads) /\ Len(reads) \in Nat
    BY DEF Types
  <2>3. Top \in Frame /\ Top.now <= ripe
    BY <1>f, HandlerAlone DEF Results
  <2>4. PICK n \in Nat : n = Top.now
    BY <2>3 DEF Frame
  <2>5. completed < n /\ n <= ripe
    BY <2>1, <2>3, <2>4
  <2>6. completed + 1 = Len(reads) /\ pending # 0
    BY <1>1, <2>2, <2>5
  <2>7. completed' = Len(reads) /\ completed' = step /\ completed' + 1 >= step
    BY <1>1, <2>1, <2>2, <2>6
  <2>8. \A i \in DOMAIN frames' : frames'[i].pc \in {"lock", "test", "deliver", "clear", "delivered"}
    BY <1>k, <2>1 DEF Flag
  <2>9. \A i \in DOMAIN reads : reads[i] = i
    BY DEF Flag
  <2> QED  BY <1>f, <1>1, <2>1, <2>6, <2>7, <2>8, <2>9 DEF Flag
<1>7. CASE HandlerReturns
  <2>1. /\ DOMAIN frames' = 1..(Depth - 1) /\ \A i \in 1..(Depth - 1) : frames'[i] = frames[i] /\ i \in 1..Depth
    BY <1>7, <1>f, FrameReturns DEF HandlerReturns, Types
  <2>2. UNCHANGED <<pending, completed>>
    BY <1>7 DEF HandlerReturns, diskVars, programVars
  <2> QED  BY <1>f, <1>1, <2>1, <2>2 DEF Flag
<1> QED  BY <1>1, <1>2, <1>3, <1>4, <1>5, <1>6, <1>7, DequeueGoes, HandlerGoes, HandleReadGoes DEF HandlerStep

\* A signal comes only for a read that is ripe and not taken.
LEMMA FlagKept ==
    ASSUME Types, Places, Flag, Results, Next
    PROVE  Flag'
<1>1. CASE TimePasses
  <2>1. UNCHANGED <<version, pc, step, reads, completed, pending, frames>>
    BY <1>1 DEF TimePasses, uthreadVars, programVars
  <2> QED  BY <2>1 DEF Flag
<1>2. CASE Interrupt
  <2>1. [pc |-> "lock", now |-> ripe, val |-> Nobody, old |-> 0] \in Frame
    BY TheNumbers DEF Types, Frame, HandlerPC, Numbers
  <2>2. /\ DOMAIN frames' = 1..(Depth + 1) /\ DOMAIN frames = 1..Depth
        /\ \A i \in 1..Depth : frames'[i] = frames[i]
        /\ frames'[Depth + 1].pc = "lock"
        /\ \A i \in 1..(Depth + 1) : i = Depth + 1 \/ i \in 1..Depth
    BY <1>2, <2>1, FramePushed DEF Types, Interrupt
  <2>3. UNCHANGED <<version, pc, step, reads, completed, pending>> /\ completed < ripe
    BY <1>2 DEF Interrupt, uthreadVars, diskVars, programVars
  <2>4. completed # Len(reads)
    BY <2>3 DEF Types
  <2> QED  BY <2>2, <2>3, <2>4 DEF Flag
<1> QED  BY <1>1, <1>2, FlagU, FlagH DEF Next

-----------------------------------------------------------------------------
(* The results that are used.                                              *)

\* Uthreads use results that are there.
LEMMA ResultsU ==
    ASSUME Types, Places, Flag, Started, Results, UthreadStep \/ SpuriousWakeUp
    PROVE  Results'
<1>n. Numbers /\ Control /\ Next
  BY TheNumbers DEF Types, Next
<1>f. DOMAIN frames' = {}
  BY UthreadAlone
<1>r. \A r : HasResult(r) => HasResult(r)'
  BY <1>n, ResultsStay
<1>1. CASE PollFlag
  <2>1. sum' = sum \cup {step} /\ pc[cur] = "poll" /\ pending = 0 /\ version \in {"sRead", "treasureHunt"}
    BY <1>1 DEF PollFlag, At
  <2>2. cur = main
    BY <1>n, <2>1, WhoRuns
  <2>3. completed = step /\ Len(reads) = step /\ step \in Nat \ {0}
    BY <1>n, <2>1, <2>2 DEF Flag, Types, Numbers
  <2>4. step \in 1..completed /\ step \in DOMAIN reads /\ reads[step] = step
    BY <2>1, <2>3 DEF Flag, Types
  <2>5. HasResult(step)
    BY <2>4 DEF HasResult
  <2> QED  BY <1>f, <1>r, <2>1, <2>5 DEF Results
<1>2. CASE SumUp
  <2>1. sum' = sum \cup {cur} /\ pc[cur] = "sum"
    BY <1>2 DEF SumUp, At
  <2>2. HasResult(cur)
    BY <1>n, <2>1, WhoRuns DEF Started
  <2> QED  BY <1>f, <1>r, <2>1, <2>2 DEF Results
<1>3. CASE ~PollFlag /\ ~SumUp
  <2>1. sum' = sum
    BY <1>3 DEF UthreadStep, SpuriousWakeUp, ScheduleLock, prq_enqueue, EnqueueLock, queue_enqueue, SetFlag, PollCount,
       uthread_create, ReadyLock, uthread_join, StartJoiner, Die, StopLock, ready_queue_dequeue, FallAsleep, WakeUp,
       Awake, uthread_switch, programVars
  <2> QED  BY <1>f, <1>r, <2>1 DEF Results
<1> QED  BY <1>1, <1>2, <1>3

\* Handlers do: the entry they take is that of a read that is done.
LEMMA ResultsH ==
    ASSUME Types, Queue, Flag, Results, HandlerStep
    PROVE  Results'
<1>f. /\ frames # <<>> /\ Depth \in DOMAIN frames /\ DOMAIN frames = 1..Depth /\ Depth \in Nat
      /\ ripe' = ripe /\ Top = frames[Depth]
  BY InnermostHandler
<1>r. \A r : HasResult(r) => HasResult(r)'
  BY ResultsStay DEF Next
<1>t. /\ Top.pc \in {"unblock", "load_sum", "store_sum"} => Top.val \in Readers /\ HasResult(Top.val)
      /\ Top.pc = "store_sum" => \A r \in Top.old : HasResult(r)
  BY <1>f DEF Results
\* The innermost handler goes on.
<1>s. ASSUME NEW l, NEW v, NEW o, Moved(l, v, o),
             l \in {"unblock", "load_sum", "store_sum"} => v \in Readers /\ HasResult(v),
             l = "store_sum" => o \in SUBSET Readers /\ \A r \in o : HasResult(r),
             l = "store_count" => o \in Int,
             \A r \in sum' : HasResult(r)
      PROVE  Results'
  <2>1. DOMAIN frames' = DOMAIN frames
    BY <1>f, <1>s DEF Moved
  <2>2. \A i \in DOMAIN frames : i # Depth =>
           /\ frames'[i].pc = frames[i].pc /\ frames'[i].now = frames[i].now
           /\ frames'[i].val = frames[i].val /\ frames'[i].old = frames[i].old
    BY <1>f, <1>s DEF Moved
  <2>3. /\ frames'[Depth].pc = l /\ frames'[Depth].now = frames[Depth].now
        /\ frames'[Depth].val = v /\ frames'[Depth].old = o
    BY <1>f, <1>s DEF Moved
  <2>4. ASSUME NEW i \in DOMAIN frames'
        PROVE  /\ frames'[i].now <= ripe'
               /\ frames'[i].pc \in {"unblock", "load_sum", "store_sum"} =>
                     frames'[i].val \in Readers /\ HasResult(frames'[i].val)
               /\ frames'[i].pc = "store_sum" =>
                     frames'[i].old \in SUBSET Readers /\ \A r \in frames'[i].old : HasResult(r)
               /\ frames'[i].pc = "store_count" => frames'[i].old \in Int
    <3>1. CASE i = Depth
      BY <1>f, <1>s, <2>1, <2>3, <3>1 DEF Results
    <3>2. CASE i # Depth
      BY <1>f, <2>1, <2>2, <3>2 DEF Results
    <3> QED  BY <3>1, <3>2
  <2> QED  BY <1>r, <1>s, <2>4 DEF Results
<1>o. \A r \in sum : HasResult(r)
  BY DEF Results
<1>1. CASE HandlerReturns
  <2>1. /\ DOMAIN frames' = 1..(Depth - 1) /\ \A i \in 1..(Depth - 1) : frames'[i] = frames[i] /\ i \in 1..Depth
    BY <1>1, <1>f, FrameReturns DEF HandlerReturns, Types
  <2>2. sum' = sum
    BY <1>1 DEF HandlerReturns, programVars
  <2> QED  BY <1>f, <1>r, <2>1, <2>2 DEF Results
<1>2. CASE queue_dequeue
  <2>1. sum' = sum
    BY <1>2 DEF queue_dequeue
  <2>2. CASE pending_read_queue = <<>> /\ Moved("crash", Top.val, Top.old)
    BY <1>o, <1>s, <2>1, <2>2
  <2>3. CASE /\ pending_read_queue # <<>> /\ Head(pending_read_queue) \in Readers
             /\ Moved(IF version = "tRead" THEN "unblock" ELSE "load_sum", Head(pending_read_queue), Top.old)
    <3>1. HasResult(Head(pending_read_queue))
      BY <1>2, <2>3, EntryHasResult
    <3>2. PICK l \in {"unblock", "load_sum"} : Moved(l, Head(pending_read_queue), Top.old)
      BY <2>3
    <3> QED  BY <1>o, <1>s, <2>1, <2>3, <3>1, <3>2
  <2> QED  BY <1>2, <2>2, <2>3, DequeueGoes
<1>3. CASE HandleRead
  <2>1. CASE Top.pc = "load_sum" /\ Moved("store_sum", Top.val, sum) /\ UNCHANGED <<sum, pending>>
    <3>1. sum \in SUBSET Readers
      BY DEF Types
    <3> QED  BY <1>o, <1>s, <1>t, <2>1, <3>1
  <2>2. CASE Top.pc = "store_sum" /\ Moved("load_count", Top.val, Top.old) /\ sum' = Top.old \cup {Top.val}
    BY <1>s, <1>t, <2>2
  <2>3. CASE Top.pc = "load_count" /\ Moved("store_count", Top.val, pending) /\ UNCHANGED <<sum, pending>>
    <3>1. pending \in Int
      BY DEF Types
    <3> QED  BY <1>o, <1>s, <2>3, <3>1
  <2>4. CASE Top.pc = "store_count" /\ Moved("delivered", Top.val, Top.old) /\ UNCHANGED sum
    BY <1>o, <1>s, <2>4
  <2> QED  BY <1>3, <2>1, <2>2, <2>3, <2>4, HandleReadGoes
<1>4. CASE \/ HandlerLock \/ HandlerTakes \/ Deliver \/ Delivered \/ ClearFlag \/ PopLock \/ uthread_unblock
           \/ WakeLock \/ WakeSignal \/ WakeUnlock
  <2>1. sum' = sum
    BY <1>4 DEF HandlerLock, HandlerTakes, Deliver, Delivered, ClearFlag, PopLock, uthread_unblock, WakeLock,
       WakeSignal, WakeUnlock, programVars
  <2>2. \E l \in {"test", "deliver", "pop", "clear", "lock", "delivered", "queue_dequeue", "mutex", "signal", "unlock"} :
           Moved(l, Top.val, Top.old)
    BY <1>4, HandlerGoes
  <2> QED  BY <1>o, <1>s, <2>1, <2>2
<1> QED  BY <1>1, <1>2, <1>3, <1>4 DEF HandlerStep

\* What is done stays done.
LEMMA ResultsKept ==
    ASSUME Types, Places, Queue, Flag, Started, Results, Next
    PROVE  Results'
<1>r. \A r : HasResult(r) => HasResult(r)'
  BY ResultsStay
<1>1. CASE TimePasses
  <2>1. UNCHANGED <<sum, frames>> /\ ripe' = ripe + 1 /\ ripe \in Nat
    BY <1>1 DEF TimePasses, programVars, Types
  <2>2. ASSUME NEW i \in DOMAIN frames  PROVE frames[i].now <= ripe'
    <3>1. frames[i] \in Frame /\ frames[i].now <= ripe
      BY <2>2 DEF Types, Results
    <3>2. PICK n \in Nat : n = frames[i].now
      BY <3>1 DEF Frame
    <3> QED  BY <2>1, <3>1, <3>2
  <2> QED  BY <1>r, <2>1, <2>2 DEF Results
<1>2. CASE Interrupt
  <2>0. ripe \in Nat
    BY DEF Types
  <2>1. [pc |-> "lock", now |-> ripe, val |-> Nobody, old |-> 0] \in Frame
    BY TheNumbers DEF Types, Frame, HandlerPC, Numbers
  <2>2. /\ DOMAIN frames' = 1..(Depth + 1) /\ DOMAIN frames = 1..Depth
        /\ \A i \in 1..Depth : frames'[i] = frames[i]
        /\ frames'[Depth + 1].pc = "lock" /\ frames'[Depth + 1].now = ripe
        /\ \A i \in 1..(Depth + 1) : i = Depth + 1 \/ i \in 1..Depth
    BY <1>2, <2>1, FramePushed DEF Types, Interrupt
  <2>3. UNCHANGED <<sum, ripe>> /\ ripe <= ripe
    BY <1>2, <2>0 DEF Interrupt, programVars, diskVars
  <2> QED  BY <1>r, <2>2, <2>3 DEF Results
<1> QED  BY <1>1, <1>2, ResultsU, ResultsH DEF Next

-----------------------------------------------------------------------------
(* The inductive invariant, and the theorems.                              *)

\* The invariant holds when the program starts.
LEMMA InitDInv == Limits /\ Init => DInv
<1> SUFFICES ASSUME Limits, Init  PROVE DInv
  OBVIOUS
<1>n. Numbers
  BY TheNumbers
<1>c. /\ cur = main /\ step = 1 /\ next = Nobody /\ ready = <<>> /\ dead = {} /\ joining = FALSE
      /\ reads = <<>> /\ ripe = 0 /\ completed = 0 /\ pending_read_queue = <<>> /\ sum = {}
      /\ lock = [l \in Locks |-> Free] /\ mask = FALSE /\ isInterrupt = FALSE /\ frames = <<>>
      /\ version \in Versions
  BY DEF Init
<1>d. DOMAIN frames = {} /\ Depth = 0 /\ Len(reads) = 0 /\ DOMAIN reads = {} /\ DOMAIN ready = {} /\ InReady = {}
      /\ Len(pending_read_queue) = 0 /\ DOMAIN pending_read_queue = {}
  BY <1>c DEF Depth, InReady, ToSet
<1>m. main \in Uthreads /\ base \in Uthreads /\ main # base /\ Readers \subseteq Uthreads /\ main \notin Readers
      /\ base \notin Readers /\ 1 \in Readers
  BY <1>n DEF Numbers
<1>p. /\ pc \in [Uthreads -> UthreadPC]
      /\ pc[base] = "stop" /\ \A r \in Readers : pc[r] = "schedule"
      /\ pc[main] = CASE version = "tRead" -> "create" [] version = "aRead" -> "schedule" [] OTHER -> "set"
  BY <1>m DEF Init, UthreadPC, StoppingPC, ReadingPC, MainPC
<1>1. Types
  <2>1. Control
    BY <1>c, <1>m, <1>n, <1>p DEF Control, Numbers
  <2>2. pending \in Int
    BY <1>n DEF Init, Numbers
  <2>3. lock \in [Locks -> 0..Free]
    BY <1>c, <1>n DEF Numbers
  <2>4. /\ ready \in Seq(0..Blocks) /\ reads \in Seq(Readers) /\ pending_read_queue \in Seq(Readers)
        /\ frames \in Seq(Frame)
    BY <1>c
  <2>5. ripe \in 0..Len(reads) /\ completed \in 0..ripe /\ Depth <= MaxDepth
    BY <1>c, <1>d, <1>n DEF Numbers
  <2> QED  BY <1>c, <1>m, <2>1, <2>2, <2>3, <2>4, <2>5 DEF Types
<1>2. Places
  BY <1>c, <1>m, <1>p DEF Places, MainPC, StoppingPC, ReadingPC, QueueingPC
<1>3. Signals
  BY <1>c, <1>d, <1>p DEF Signals, HoldsPC
<1>4. Holders
  <2>1. \A l \in {"prq", "queue", "ready", "pthread"} : lock[l] = Free
    BY <1>c DEF Locks
  <2>2. Free # 0
    BY <1>n DEF Numbers
  <2> QED  BY <1>d, <2>1, <2>2 DEF Holders
<1>5. Queue
  <2>1. Taken = {} /\ Cardinality({}) = 0
    BY <1>d, FS_EmptySet DEF Taken
  <2>2. pc[cur] \notin QueueingPC
    BY <1>c, <1>p DEF QueueingPC
  <2>3. Queued(0)
    BY <1>c, <1>d, <2>1, <2>2 DEF Queued
  <2> QED  BY <1>d, <2>2, <2>3 DEF Queue
<1>6. Flag
  BY <1>c, <1>d, <1>p DEF Flag
<1>7. Started
  BY <1>c, <1>d, <1>m, <1>n, <1>p DEF Started, Numbers
<1>8. Results
  BY <1>c, <1>d DEF Results
<1> QED  BY <1>1, <1>2, <1>3, <1>4, <1>5, <1>6, <1>7, <1>8 DEF DInv

\* Every step keeps it.
LEMMA NextDInv == DInv /\ [Next]_vars => DInv'
<1>1. ASSUME DInv, Next  PROVE DInv'
  <2>1. Types'
    BY <1>1, TypesU, TypesH, TypesD DEF DInv, Next
  <2>2. Places' /\ Signals'
    BY <1>1, PlacesKept, SignalsKept DEF DInv
  <2>3. Holders'
    BY <1>1, HoldersKept DEF DInv
  <2>4. Queue' /\ Flag'
    BY <1>1, QueueKept, FlagKept DEF DInv
  <2>5. Started' /\ Results'
    BY <1>1, StartedKept, ResultsKept DEF DInv
  <2> QED  BY <2>1, <2>2, <2>3, <2>4, <2>5 DEF DInv
<1>2. ASSUME DInv, UNCHANGED vars  PROVE DInv'
  <2>1. UNCHANGED <<version, cur, pc, step, next, ready, dead, joining, reads, ripe, completed, pending_read_queue,
                    pending, sum, lock, mask, isInterrupt, frames>>
    BY <1>2 DEF vars, uthreadVars, idleVars, diskVars, programVars, signalVars
  <2>2. Types' /\ Places'
    BY <1>2, <2>1 DEF DInv, Types, Control, Places, Depth
  <2>3. Signals' /\ Holders'
    BY <1>2, <2>1 DEF DInv, Signals, Serving, Holders, HandlerAt, Top, Depth
  <2>4. Queue'
    <3>1. Taken' = Taken
      BY <2>1 DEF Taken
    <3> QED  BY <1>2, <2>1, <3>1, QueueStays DEF DInv
  <2>5. Flag'
    BY <1>2, <2>1 DEF DInv, Flag
  <2>6. \A r : HasResult(r)' <=> HasResult(r)
    BY <2>1 DEF HasResult
  <2>7. Started' /\ Results'
    BY <1>2, <2>1, <2>6 DEF DInv, Started, InReady, Results
  <2> QED  BY <2>2, <2>3, <2>4, <2>5, <2>7 DEF DInv
<1> QED  BY <1>1, <1>2

\* It says that results are used only when they are there.
LEMMA TheResults == DInv => ResultsDelivered
<1> SUFFICES ASSUME DInv  PROVE ResultsDelivered
  OBVIOUS
<1>1. ASSUME NEW i \in DOMAIN frames, frames[i].pc = "crash"  PROVE pc[cur] = "enqueue"
  <2>1. version \in {"aRead", "tRead"}
    BY <1>1 DEF DInv, Types, Versions, Flag
  <2> QED  BY <1>1, <2>1 DEF DInv, Queue
<1> QED  BY <1>1 DEF DInv, Results, Started, ResultsDelivered

\* For any number of blocks and all four programs, whoever uses the result of a
\* read has it, whatever interrupts what.
THEOREM ReadResults == Limits => (Spec => []ResultsDelivered)
<1>1. ASSUME Limits  PROVE Limits /\ Spec => []ResultsDelivered
  <2>1. Limits /\ Init => DInv
    BY InitDInv
  <2>2. DInv /\ [Next]_vars => DInv'
    BY NextDInv
  <2>3. DInv => ResultsDelivered
    BY TheResults
  <2> QED  BY <2>1, <2>2, <2>3, PTL DEF Spec
<1> QED  BY <1>1

\* For any number of blocks and all four programs, a handler waits for ever only
\* in the two ways that are known.
THEOREM ReadHangs == Limits => (Spec => []OnlyKnownHangs)
<1>1. Limits /\ Init => DInv
  BY InitDInv
<1>2. DInv /\ [Next]_vars => DInv'
  BY NextDInv
<1>3. DInv => OnlyKnownHangs
  BY KnownHangs DEF DInv
<1> QED  BY <1>1, <1>2, <1>3, PTL DEF Spec
=============================================================================
