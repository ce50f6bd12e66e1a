------------------------ MODULE UthreadMutex_proofs ------------------------
(***************************************************************************)
(* For any finite set of threads and any set of condition variables: the   *)
(* mutex excludes, its fields say who is inside, and no wakeup is lost.    *)
(*                                                                         *)
(* Mutual exclusion is inductive once mutex->holder and mutex->            *)
(* reader_count are tied to the threads inside (Inside).  That no wakeup   *)
(* is lost also needs to know where the queued threads are (Queues): a     *)
(* queued thread is blocked in the loop that queued it, is not woken yet,  *)
(* and is queued once, so that whoever is dequeued really runs.            *)
(***************************************************************************)
EXTENDS UthreadMutex, FiniteSetTheorems, SequenceTheorems, TLAPS

Inside == /\ HolderAndCount
          /\ holder # None => Readers = {}

WriterQueue ==
    /\ \A i \in DOMAIN waiter_queue :
          pc[waiter_queue[i]] = "lock_block" /\ waiter_queue[i] \notin woken
    /\ \A i, j \in DOMAIN waiter_queue : waiter_queue[i] = waiter_queue[j] => i = j
ReaderQueue ==
    /\ \A i \in DOMAIN reader_waiter_queue :
          /\ pc[reader_waiter_queue[i]] = "readonly_block"
          /\ reader_waiter_queue[i] \notin woken
    /\ \A i, j \in DOMAIN reader_waiter_queue :
          reader_waiter_queue[i] = reader_waiter_queue[j] => i = j
CondQueues ==
    /\ \A c \in Conds : \A i \in DOMAIN cond_queue[c] :
          /\ pc[cond_queue[c][i]] \in {"wait_unlock", "wait_block"}
          /\ cond_queue[c][i] \notin woken
    /\ \A c, d \in Conds : \A i \in DOMAIN cond_queue[c], j \in DOMAIN cond_queue[d] :
          cond_queue[c][i] = cond_queue[d][j] => c = d /\ i = j

Woken == \A t \in woken : pc[t] \in Blocking \cup {"wait_unlock"}

Queues == WriterQueue /\ ReaderQueue /\ CondQueues /\ Woken

IInv == TypeOK /\ Inside /\ Queues /\ NoLostWakeup


-----------------------------------------------------------------------------
(* Counting the readers.                                                   *)

\* The readers are finitely many and at most as many as the threads.
LEMMA ReadersFinite ==
    /\ IsFiniteSet(Readers)
    /\ Cardinality(Readers) \in Nat
    /\ Cardinality(Readers) <= Cardinality(Threads)
    /\ Cardinality(Threads) \in Nat
    /\ Cardinality(Readers) = 0 <=> Readers = {}
<1>1. Readers \subseteq Threads
    BY DEF Readers
<1>2. IsFiniteSet(Readers) /\ Cardinality(Readers) <= Cardinality(Threads)
    BY <1>1, FS_Subset, FiniteAssumption
<1>3. Cardinality(Readers) \in Nat /\ Cardinality(Threads) \in Nat
    BY <1>2, FS_CardinalityType, FiniteAssumption
<1>4. Cardinality(Readers) = 0 <=> Readers = {}
    BY <1>2, FS_EmptySet
<1> QED BY <1>2, <1>3, <1>4

\* A thread whose uthread_mutex_lock_readonly returns is one reader more.
LEMMA ReaderEnters ==
    ASSUME NEW t \in Threads, pc \in [Threads -> Places],
           pc[t] # "read", pc' = [pc EXCEPT ![t] = "read"]
    PROVE  Readers' = Readers \cup {t} /\ Cardinality(Readers') = Cardinality(Readers) + 1
<1>1. Readers' = Readers \cup {t} /\ t \notin Readers
    BY DEF Readers
<1> QED BY <1>1, ReadersFinite, FS_AddElement

\* A thread that unlocks is one reader less.
LEMMA ReaderLeaves ==
    ASSUME NEW t \in Threads, pc \in [Threads -> Places], NEW l,
           pc[t] = "read", l # "read", pc' = [pc EXCEPT ![t] = l]
    PROVE  Readers' = Readers \ {t} /\ Cardinality(Readers') = Cardinality(Readers) - 1
<1>1. Readers' = Readers \ {t} /\ t \in Readers
    BY DEF Readers
<1> QED BY <1>1, ReadersFinite, FS_RemoveElement

\* Only a thread that reads, or starts to, changes the readers.
LEMMA ReadersUnchanged ==
    ASSUME NEW t \in Threads, pc \in [Threads -> Places], NEW l,
           pc[t] # "read", l # "read", pc' = [pc EXCEPT ![t] = l]
    PROVE  Readers' = Readers
BY DEF Readers

-----------------------------------------------------------------------------
(* Mutual exclusion.                                                       *)

\* One thread changes its place in a step.
Moves(t, l) == pc' = [pc EXCEPT ![t] = l]

\* What uthread_mutex_unlock does to the counters is right for the thread that
\* leaves, be it a reader or the holder.
LEMMA ReleaseInside ==
    ASSUME NEW t \in Threads, NEW l \in {"idle", "wait_block"}, TypeOK, Inside,
           pc[t] \in {"write", "read", "wait_unlock"}, ReleaseLock, Moves(t, l)
    PROVE  Inside'
<1>1. pc \in [Threads -> Places] /\ reader_count \in Int
    BY ReadersFinite DEF TypeOK, Inside, HolderAndCount
<1>2. CASE pc[t] = "read"
  <2>1. t \in Readers /\ holder = None /\ Writers = {}
      BY <1>2 DEF Inside, HolderAndCount, Readers
  <2>2. holder' = None /\ reader_count' = reader_count - 1
      BY <2>1 DEF ReleaseLock
  <2>3. Cardinality(Readers') = Cardinality(Readers) - 1
      BY <1>1, <1>2, ReaderLeaves DEF Moves
  <2>4. Writers' = {}
      BY <1>1, <2>1 DEF Writers, Moves
  <2> QED BY <2>2, <2>3, <2>4 DEF Inside, HolderAndCount
<1>3. CASE pc[t] # "read"
  <2>1. t \in Writers /\ holder # None /\ Writers = {holder} /\ holder = t
      BY <1>3 DEF Inside, HolderAndCount, Writers
  <2>2. holder' = None /\ reader_count' = reader_count
      BY <2>1 DEF ReleaseLock
  <2>3. Readers' = Readers
      BY <1>1, <1>3, ReadersUnchanged DEF Moves
  <2>4. Writers' = {}
      BY <1>1, <2>1 DEF Writers, Moves
  <2> QED BY <2>2, <2>3, <2>4 DEF Inside, HolderAndCount
<1> QED BY <1>2, <1>3

\* Nobody is inside more than the fields of the mutex say.
LEMMA InsideStep == TypeOK /\ Inside /\ [Next]_vars => Inside'
<1> SUFFICES ASSUME TypeOK, Inside, [Next]_vars PROVE Inside'
    OBVIOUS
<1>t. pc \in [Threads -> Places] /\ reader_count \in Nat
    BY ReadersFinite DEF TypeOK, Inside, HolderAndCount
\* A thread that is outside before and after, and the fields unchanged.
<1>o. ASSUME NEW t \in Threads, NEW l, Moves(t, l), UNCHANGED <<holder, reader_count>>,
             pc[t] \notin {"write", "read", "wait_unlock"},
             l \notin {"write", "read", "wait_unlock"}
      PROVE  Inside'
  <2>1. Writers' = Writers
      BY <1>t, <1>o DEF Writers, Moves
  <2>2. Readers' = Readers
      BY <1>t, <1>o, ReadersUnchanged DEF Moves
  <2> QED BY <1>o, <2>1, <2>2 DEF Inside, HolderAndCount
<1>1. ASSUME NEW t \in Threads, Lock(t) PROVE Inside'
  <2>1. CASE holder # None \/ reader_count > 0
      BY <1>1, <1>o, <2>1 DEF Lock, Goto, Moves
  <2>2. CASE holder = None /\ ~(reader_count > 0)
    <3>1. holder' = t /\ reader_count' = reader_count /\ Moves(t, "write") /\ pc[t] = "lock"
        BY <1>1, <2>2 DEF Lock, Goto, Moves
    <3>2. Writers = {} /\ Readers = {}
        BY <1>t, <2>2, ReadersFinite DEF Inside, HolderAndCount
    <3>3. Writers' = {t} /\ Readers' = Readers
        BY <1>t, <3>1, <3>2, ReadersUnchanged DEF Writers, Moves
    <3> QED BY <3>1, <3>2, <3>3, NoneAssumption DEF Inside, HolderAndCount
  <2> QED BY <2>1, <2>2
<1>2. ASSUME NEW t \in Threads, LockReadonly(t) PROVE Inside'
  <2>1. CASE holder # None \/ waiter_queue # <<>>
      BY <1>2, <1>o, <2>1 DEF LockReadonly, Goto, Moves
  <2>2. CASE holder = None /\ waiter_queue = <<>>
    <3>1. holder' = None /\ reader_count' = reader_count + 1 /\ Moves(t, "read")
          /\ pc[t] = "readonly"
        BY <1>2, <2>2 DEF LockReadonly, Goto, Moves
    <3>2. Cardinality(Readers') = Cardinality(Readers) + 1
        BY <1>t, <3>1, ReaderEnters DEF Moves
    <3>3. Writers' = Writers
        BY <1>t, <3>1 DEF Writers, Moves
    <3> QED BY <2>2, <3>1, <3>2, <3>3 DEF Inside, HolderAndCount
  <2> QED BY <2>1, <2>2
<1>3. ASSUME NEW t \in Threads, Unlock(t) \/ WaitUnlock(t) PROVE Inside'
    BY <1>3, ReleaseInside DEF Unlock, WaitUnlock, Goto, Moves
<1>4. ASSUME NEW t \in Threads, Call(t) \/ Unblocked(t) PROVE Inside'
    BY <1>4, <1>o DEF Call, Unblocked, Goto, Moves, mutexVars, Blocking
<1>5. ASSUME NEW t \in Threads, NEW c \in Conds, Wait(t, c) PROVE Inside'
  <2>1. Moves(t, "wait_unlock") /\ pc[t] = "write" /\ UNCHANGED <<holder, reader_count>>
      BY <1>5 DEF Wait, Goto, Moves, mutexVars
  <2>2. Writers' = Writers /\ Readers' = Readers
      BY <1>t, <2>1, ReadersUnchanged DEF Writers, Moves
  <2> QED BY <2>1, <2>2 DEF Inside, HolderAndCount
<1>6. ASSUME NEW t \in Threads, NEW c \in Conds, Signal(t, c) \/ Broadcast(t, c) PROVE Inside'
    BY <1>6 DEF Signal, Broadcast, mutexVars, Inside, HolderAndCount, Writers, Readers
<1>7. CASE UNCHANGED vars
    BY <1>7 DEF vars, mutexVars, Inside, HolderAndCount, Writers, Readers
<1> QED BY <1>1, <1>2, <1>3, <1>4, <1>5, <1>6, <1>7 DEF Next, Progress, Choice


-----------------------------------------------------------------------------
(* Types.                                                                  *)

\* The threads that uthread_mutex_unlock dequeues are threads, and what is
\* left of the queues are queues of threads.
LEMMA WakeNextTypes ==
    ASSUME TypeOK, WakeNext
    PROVE  /\ waiter_queue' \in Seq(Threads) /\ reader_waiter_queue' \in Seq(Threads)
           /\ woken' \subseteq Threads
<1>1. CASE waiter_queue # <<>>
  <2>1. Head(waiter_queue) \in Threads /\ Tail(waiter_queue) \in Seq(Threads)
      BY <1>1, HeadTailProperties DEF TypeOK
  <2> QED BY <1>1, <2>1 DEF TypeOK, WakeNext
<1>2. CASE waiter_queue = <<>>
  <2>1. ToSet(reader_waiter_queue) \subseteq Threads
      BY ElementOfSeq DEF TypeOK, ToSet
  <2>2. <<>> \in Seq(Threads)
      BY EmptySeq
  <2> QED BY <1>2, <2>1, <2>2 DEF TypeOK, WakeNext
<1> QED BY <1>1, <1>2

\* The same for the whole section of uthread_mutex_unlock.
LEMMA ReleaseTypes ==
    ASSUME TypeOK, ReleaseLock
    PROVE  /\ holder' = None
           /\ waiter_queue' \in Seq(Threads) /\ reader_waiter_queue' \in Seq(Threads)
           /\ woken' \subseteq Threads
<1>1. CASE reader_count' = 0
    BY <1>1, WakeNextTypes DEF ReleaseLock
<1>2. CASE reader_count' # 0
    BY <1>2 DEF ReleaseLock, TypeOK
<1> QED BY <1>1, <1>2 DEF ReleaseLock

\* Every variable keeps its type.
LEMMA TypeStep == TypeOK /\ Inside' /\ [Next]_vars => TypeOK'
<1> SUFFICES ASSUME TypeOK, Inside', [Next]_vars PROVE TypeOK'
    OBVIOUS
<1> USE DEF TypeOK, Places, Blocking, Goto
<1>c. Readers' \subseteq Threads /\ reader_count' = Cardinality(Readers')
    BY DEF Inside, HolderAndCount, Readers
<1>d. IsFiniteSet(Readers') /\ Cardinality(Readers') <= Cardinality(Threads)
    BY <1>c, FS_Subset, FiniteAssumption
<1>e. Cardinality(Readers') \in Nat /\ Cardinality(Threads) \in Nat
    BY <1>d, FS_CardinalityType, FiniteAssumption
<1>f. reader_count' \in 0..Cardinality(Threads)
    BY <1>c, <1>d, <1>e
<1>1. ASSUME NEW t \in Threads, Lock(t) PROVE TypeOK'
  <2>1. Append(waiter_queue, t) \in Seq(Threads)
      BY AppendProperties
  <2> QED BY <1>1, <1>f, <2>1 DEF Lock
<1>2. ASSUME NEW t \in Threads, LockReadonly(t) PROVE TypeOK'
  <2>1. Append(reader_waiter_queue, t) \in Seq(Threads)
      BY AppendProperties
  <2> QED BY <1>2, <1>f, <2>1 DEF LockReadonly
<1>3. ASSUME NEW t \in Threads, Unlock(t) \/ WaitUnlock(t) PROVE TypeOK'
    BY <1>3, <1>f, ReleaseTypes DEF Unlock, WaitUnlock
<1>4. ASSUME NEW t \in Threads, Call(t) \/ Unblocked(t) PROVE TypeOK'
    BY <1>4, <1>f DEF Call, Unblocked, mutexVars
<1>5. ASSUME NEW t \in Threads, NEW c \in Conds, Wait(t, c) PROVE TypeOK'
  <2>1. Append(cond_queue[c], t) \in Seq(Threads)
      BY AppendProperties
  <2> QED BY <1>5, <1>f, <2>1 DEF Wait, mutexVars
<1>6. ASSUME NEW t \in Threads, NEW c \in Conds, Signal(t, c) PROVE TypeOK'
  <2>1. Head(cond_queue[c]) \in Threads /\ Tail(cond_queue[c]) \in Seq(Threads)
      BY <1>6, HeadTailProperties DEF Signal
  <2> QED BY <1>6, <1>f, <2>1 DEF Signal, mutexVars
<1>7. ASSUME NEW t \in Threads, NEW c \in Conds, Broadcast(t, c) PROVE TypeOK'
  <2>1. ToSet(cond_queue[c]) \subseteq Threads /\ <<>> \in Seq(Threads)
      BY ElementOfSeq, EmptySeq DEF ToSet
  <2> QED BY <1>7, <1>f, <2>1 DEF Broadcast, mutexVars
<1>8. CASE UNCHANGED vars
    BY <1>8 DEF vars, mutexVars
<1> QED BY <1>1, <1>2, <1>3, <1>4, <1>5, <1>6, <1>7, <1>8 DEF Next, Progress, Choice

-----------------------------------------------------------------------------
(* The queues.                                                             *)

\* A thread that is on no queue and moves disturbs none.
LEMMA MoveQueues ==
    ASSUME TypeOK, Queues, NEW t \in Threads, NEW l, Moves(t, l),
           pc[t] \notin {"lock_block", "readonly_block", "wait_unlock", "wait_block"} \/ t \in woken,
           UNCHANGED <<waiter_queue, reader_waiter_queue, cond_queue>>,
           woken' \subseteq woken, t \notin woken'
    PROVE  Queues'
<1>1. WriterQueue'
    BY DEF Moves, Queues, WriterQueue, TypeOK
<1>2. ReaderQueue'
    BY DEF Moves, Queues, ReaderQueue, TypeOK
<1>3. CondQueues'
  <2>1. \A c \in Conds : \A i \in DOMAIN cond_queue[c] : cond_queue[c][i] # t
      BY DEF Queues, CondQueues
  <2> QED BY <2>1 DEF Moves, Queues, CondQueues, TypeOK
<1>4. Woken'
    BY DEF Moves, Queues, Woken, TypeOK, Blocking
<1> QED BY <1>1, <1>2, <1>3, <1>4 DEF Queues

\* uthread_mutex_unlock wakes threads that are queued nowhere else.
LEMMA ReleaseQueues ==
    ASSUME TypeOK, Queues, NEW t \in Threads, NEW l \in {"idle", "wait_block"}, Moves(t, l),
           pc[t] \in {"write", "read"} \/ (pc[t] = "wait_unlock" /\ l = "wait_block"),
           ReleaseLock, UNCHANGED cond_queue
    PROVE  Queues'
<1> USE DEF Moves
<1>q. waiter_queue \in Seq(Threads) /\ reader_waiter_queue \in Seq(Threads)
      /\ pc \in [Threads -> Places] /\ cond_queue \in [Conds -> Seq(Threads)]
    BY DEF TypeOK
<1>w. \A s \in woken' : s \in woken \/ (\E i \in DOMAIN waiter_queue : s = waiter_queue[i])
                        \/ (\E i \in DOMAIN reader_waiter_queue : s = reader_waiter_queue[i])
  <2>1. CASE reader_count' = 0 /\ waiter_queue # <<>>
      BY <1>q, <2>1, HeadTailProperties DEF ReleaseLock, WakeNext
  <2>2. CASE reader_count' = 0 /\ waiter_queue = <<>>
      BY <2>2 DEF ReleaseLock, WakeNext, ToSet
  <2>3. CASE reader_count' # 0
      BY <2>3 DEF ReleaseLock
  <2> QED BY <2>1, <2>2, <2>3
<1>1. WriterQueue'
  <2>1. CASE reader_count' = 0 /\ waiter_queue # <<>>
    <3>1. waiter_queue' = Tail(waiter_queue) /\ woken' = woken \cup {waiter_queue[1]}
        BY <1>q, <2>1 DEF ReleaseLock, WakeNext
    <3>2. Len(Tail(waiter_queue)) = Len(waiter_queue) - 1 /\ Len(waiter_queue) \in Nat
          /\ \A i \in 1..(Len(waiter_queue) - 1) : Tail(waiter_queue)[i] = waiter_queue[i + 1]
        BY <1>q, <2>1
    <3>3. \A i \in DOMAIN waiter_queue' : /\ i + 1 \in DOMAIN waiter_queue /\ i \in Nat
                                          /\ 1 \in DOMAIN waiter_queue /\ i + 1 # 1
                                          /\ waiter_queue'[i] = waiter_queue[i + 1]
        BY <1>q, <2>1, <3>1, <3>2
    <3>4. \A i \in DOMAIN waiter_queue' : waiter_queue'[i] # waiter_queue[1]
        BY <3>3 DEF Queues, WriterQueue
    <3>5. \A i \in DOMAIN waiter_queue' : waiter_queue'[i] \notin woken
                                          /\ pc[waiter_queue'[i]] = "lock_block"
        BY <3>3 DEF Queues, WriterQueue
    <3>6. \A i \in DOMAIN waiter_queue' : pc'[waiter_queue'[i]] = "lock_block"
        BY <1>q, <3>5
    <3>7. \A i, j \in DOMAIN waiter_queue' : waiter_queue'[i] = waiter_queue'[j] => i = j
      <4> TAKE i, j \in DOMAIN waiter_queue'
      <4>1. waiter_queue[i + 1] = waiter_queue[j + 1] => i + 1 = j + 1
          BY <3>3 DEF Queues, WriterQueue
      <4> QED BY <3>3, <4>1
    <3> QED BY <3>1, <3>4, <3>5, <3>6, <3>7 DEF WriterQueue
  <2>2. CASE reader_count' = 0 /\ waiter_queue = <<>>
      BY <2>2 DEF ReleaseLock, WakeNext, WriterQueue
  <2>3. CASE reader_count' # 0
      BY <1>q, <2>3 DEF ReleaseLock, Queues, WriterQueue
  <2> QED BY <2>1, <2>2, <2>3
<1>2. ReaderQueue'
  <2>1. CASE reader_waiter_queue' = reader_waiter_queue
        /\ woken' \subseteq woken \cup {waiter_queue[i] : i \in DOMAIN waiter_queue}
      BY <1>q, <2>1 DEF Queues, ReaderQueue, WriterQueue
  <2>2. CASE reader_waiter_queue' = <<>>
      BY <2>2 DEF ReaderQueue
  <2>3. CASE reader_count' = 0 /\ waiter_queue # <<>>
      BY <1>q, <2>1, <2>3, HeadTailProperties DEF ReleaseLock, WakeNext
  <2>4. CASE reader_count' = 0 /\ waiter_queue = <<>>
      BY <2>2, <2>4 DEF ReleaseLock, WakeNext
  <2>5. CASE reader_count' # 0
      BY <2>1, <2>5 DEF ReleaseLock
  <2> QED BY <2>3, <2>4, <2>5
<1>3. CondQueues'
  <2>1. \A c \in Conds : \A i \in DOMAIN cond_queue[c] : cond_queue[c][i] \notin woken'
      BY <1>w DEF Queues, CondQueues, WriterQueue, ReaderQueue
  <2>2. \A c \in Conds : \A i \in DOMAIN cond_queue[c] :
            pc'[cond_queue[c][i]] \in {"wait_unlock", "wait_block"}
      BY <1>q DEF Queues, CondQueues
  <2> QED BY <2>1, <2>2 DEF Queues, CondQueues
<1>4. Woken'
  <2>1. \A s \in woken' \ woken : pc[s] \in Blocking /\ pc'[s] = pc[s] /\ s # t
      BY <1>q, <1>w DEF Queues, WriterQueue, ReaderQueue, Blocking
  <2>2. t \in woken => pc'[t] \in Blocking
      BY <1>q DEF Queues, Woken, Blocking
  <2>3. \A s \in woken \ {t} : pc'[s] = pc[s] /\ pc[s] \in Blocking \cup {"wait_unlock"}
      BY <1>q DEF Queues, Woken
  <2> QED BY <2>1, <2>2, <2>3 DEF Woken
<1> QED BY <1>1, <1>2, <1>3, <1>4 DEF Queues


\* A thread that is appended to a queue is on no other one.
LEMMA LockQueues ==
    ASSUME TypeOK, Queues, NEW t \in Threads, Lock(t) PROVE Queues'
<1>q. waiter_queue \in Seq(Threads) /\ pc \in [Threads -> Places] /\ pc[t] = "lock"
    BY DEF TypeOK, Lock
<1>1. CASE holder # None \/ reader_count > 0
  <2>1. waiter_queue' = Append(waiter_queue, t) /\ pc' = [pc EXCEPT ![t] = "lock_block"]
        /\ UNCHANGED <<reader_waiter_queue, cond_queue, woken>>
      BY <1>1 DEF Lock, Goto
  <2>2. t \notin woken
      BY <1>q DEF Queues, Woken, Blocking
  <2>3. \A i \in DOMAIN waiter_queue' :
           \/ i \in DOMAIN waiter_queue /\ waiter_queue'[i] = waiter_queue[i]
           \/ i = Len(waiter_queue) + 1 /\ waiter_queue'[i] = t
      BY <1>q, <2>1, AppendProperties
  <2>4. \A i \in DOMAIN waiter_queue : waiter_queue[i] # t
      BY <1>q DEF Queues, WriterQueue
  <2>5. WriterQueue'
      BY <1>q, <2>1, <2>2, <2>3, <2>4 DEF Queues, WriterQueue
  <2>6. ReaderQueue' /\ CondQueues'
      BY <1>q, <2>1 DEF Queues, ReaderQueue, CondQueues
  <2>7. Woken'
      BY <1>q, <2>1 DEF Queues, Woken, Blocking
  <2> QED BY <2>5, <2>6, <2>7 DEF Queues
<1>2. CASE ~(holder # None \/ reader_count > 0)
  <2>1. t \notin woken
      BY <1>q DEF Queues, Woken, Blocking
  <2> QED BY <1>2, <1>q, <2>1, MoveQueues DEF Lock, Goto, Moves
<1> QED BY <1>1, <1>2


LEMMA LockReadonlyQueues ==
    ASSUME TypeOK, Queues, NEW t \in Threads, LockReadonly(t) PROVE Queues'
<1>q. reader_waiter_queue \in Seq(Threads) /\ pc \in [Threads -> Places] /\ pc[t] = "readonly"
    BY DEF TypeOK, LockReadonly
<1>1. CASE holder # None \/ waiter_queue # <<>>
  <2>1. reader_waiter_queue' = Append(reader_waiter_queue, t)
        /\ pc' = [pc EXCEPT ![t] = "readonly_block"]
        /\ UNCHANGED <<waiter_queue, cond_queue, woken>>
      BY <1>1 DEF LockReadonly, Goto
  <2>2. t \notin woken
      BY <1>q DEF Queues, Woken, Blocking
  <2>3. \A i \in DOMAIN reader_waiter_queue' :
           \/ i \in DOMAIN reader_waiter_queue /\ reader_waiter_queue'[i] = reader_waiter_queue[i]
           \/ i = Len(reader_waiter_queue) + 1 /\ reader_waiter_queue'[i] = t
      BY <1>q, <2>1, AppendProperties
  <2>4. \A i \in DOMAIN reader_waiter_queue : reader_waiter_queue[i] # t
      BY <1>q DEF Queues, ReaderQueue
  <2>5. ReaderQueue'
      BY <1>q, <2>1, <2>2, <2>3, <2>4 DEF Queues, ReaderQueue
  <2>6. WriterQueue' /\ CondQueues'
      BY <1>q, <2>1 DEF Queues, WriterQueue, CondQueues
  <2>7. Woken'
      BY <1>q, <2>1 DEF Queues, Woken, Blocking
  <2> QED BY <2>5, <2>6, <2>7 DEF Queues
<1>2. CASE ~(holder # None \/ waiter_queue # <<>>)
  <2>1. t \notin woken
      BY <1>q DEF Queues, Woken, Blocking
  <2> QED BY <1>2, <1>q, <2>1, MoveQueues DEF LockReadonly, Goto, Moves
<1> QED BY <1>1, <1>2

LEMMA WaitQueues ==
    ASSUME TypeOK, Queues, NEW t \in Threads, NEW c \in Conds, Wait(t, c) PROVE Queues'
<1>q. cond_queue \in [Conds -> Seq(Threads)] /\ pc \in [Threads -> Places] /\ pc[t] = "write"
    BY DEF TypeOK, Wait
<1>1. cond_queue' = [cond_queue EXCEPT ![c] = Append(cond_queue[c], t)]
      /\ pc' = [pc EXCEPT ![t] = "wait_unlock"]
      /\ UNCHANGED <<waiter_queue, reader_waiter_queue, woken>>
    BY DEF Wait, Goto, mutexVars
<1>2. t \notin woken
    BY <1>q DEF Queues, Woken, Blocking
<1>3. \A d \in Conds : \A i \in DOMAIN cond_queue'[d] :
         \/ i \in DOMAIN cond_queue[d] /\ cond_queue'[d][i] = cond_queue[d][i]
         \/ d = c /\ i = Len(cond_queue[c]) + 1 /\ cond_queue'[d][i] = t
    BY <1>q, <1>1, AppendProperties
<1>4. \A d \in Conds : \A i \in DOMAIN cond_queue[d] : cond_queue[d][i] # t
    BY <1>q DEF Queues, CondQueues
<1>5. CondQueues'
  <2>1. \A d \in Conds : \A i \in DOMAIN cond_queue'[d] :
            /\ pc'[cond_queue'[d][i]] \in {"wait_unlock", "wait_block"}
            /\ cond_queue'[d][i] \notin woken'
      BY <1>q, <1>1, <1>2, <1>3 DEF Queues, CondQueues
  <2>2. \A d, e \in Conds : \A i \in DOMAIN cond_queue'[d], j \in DOMAIN cond_queue'[e] :
            cond_queue'[d][i] = cond_queue'[e][j] => d = e /\ i = j
      BY <1>3, <1>4 DEF Queues, CondQueues
  <2> QED BY <2>1, <2>2 DEF CondQueues
<1>6. WriterQueue' /\ ReaderQueue'
    BY <1>q, <1>1 DEF Queues, WriterQueue, ReaderQueue
<1>7. Woken'
    BY <1>q, <1>1 DEF Queues, Woken, Blocking
<1> QED BY <1>5, <1>6, <1>7 DEF Queues

\* uthread_cond_signal and uthread_cond_broadcast wake threads that wait on
\* that condition variable and nowhere else.
LEMMA SignalQueues ==
    ASSUME TypeOK, Queues, NEW t \in Threads, NEW c \in Conds, Signal(t, c) PROVE Queues'
<1>q. cond_queue \in [Conds -> Seq(Threads)] /\ cond_queue[c] # <<>>
      /\ UNCHANGED <<waiter_queue, reader_waiter_queue, pc>>
    BY DEF TypeOK, Signal, mutexVars
<1> DEFINE q == cond_queue[c]
<1>1. q \in Seq(Threads) /\ 1 \in DOMAIN q /\ Head(q) = q[1] /\ Len(q) \in Nat
      /\ Len(Tail(q)) = Len(q) - 1
      /\ \A i \in 1..(Len(q) - 1) : Tail(q)[i] = q[i + 1]
    BY <1>q
<1>2. woken' = woken \cup {q[1]} /\ cond_queue' = [cond_queue EXCEPT ![c] = Tail(q)]
    BY <1>1 DEF Signal
<1>3. pc[q[1]] \in {"wait_unlock", "wait_block"}
    BY <1>1 DEF Queues, CondQueues
<1>4. WriterQueue' /\ ReaderQueue' /\ Woken'
    BY <1>q, <1>2, <1>3 DEF Queues, WriterQueue, ReaderQueue, Woken, Blocking
<1>5. \A i \in DOMAIN cond_queue'[c] :
          i \in Nat /\ i + 1 \in DOMAIN q /\ i + 1 # 1 /\ cond_queue'[c][i] = q[i + 1]
    BY <1>q, <1>1, <1>2
<1>6. \A d \in Conds \ {c} : cond_queue'[d] = cond_queue[d]
    BY <1>q, <1>2
<1>7. \A d \in Conds : \A i \in DOMAIN cond_queue'[d] :
          /\ pc[cond_queue'[d][i]] \in {"wait_unlock", "wait_block"}
          /\ cond_queue'[d][i] \notin woken
          /\ cond_queue'[d][i] # q[1]
  <2> TAKE d \in Conds
  <2> TAKE i \in DOMAIN cond_queue'[d]
  <2>1. CASE d = c
      BY <1>1, <1>5, <2>1 DEF Queues, CondQueues
  <2>2. CASE d # c
      BY <1>1, <1>6, <2>2 DEF Queues, CondQueues
  <2> QED BY <2>1, <2>2
<1>8. \A d, e \in Conds : \A i \in DOMAIN cond_queue'[d], j \in DOMAIN cond_queue'[e] :
          cond_queue'[d][i] = cond_queue'[e][j] => d = e /\ i = j
  <2> TAKE d, e \in Conds
  <2> TAKE i \in DOMAIN cond_queue'[d], j \in DOMAIN cond_queue'[e]
  <2> DEFINE k == IF d = c THEN i + 1 ELSE i
             l == IF e = c THEN j + 1 ELSE j
  <2>1. k \in DOMAIN cond_queue[d] /\ cond_queue'[d][i] = cond_queue[d][k]
      BY <1>5, <1>6
  <2>2. l \in DOMAIN cond_queue[e] /\ cond_queue'[e][j] = cond_queue[e][l]
      BY <1>5, <1>6
  <2>3. cond_queue[d][k] = cond_queue[e][l] => d = e /\ k = l
      BY <2>1, <2>2 DEF Queues, CondQueues
  <2>4. d = e /\ k = l => i = j
      BY <1>5
  <2> QED BY <2>1, <2>2, <2>3, <2>4
<1>9. CondQueues'
    BY <1>q, <1>2, <1>7, <1>8 DEF CondQueues
<1> QED BY <1>4, <1>9 DEF Queues

LEMMA BroadcastQueues ==
    ASSUME TypeOK, Queues, NEW t \in Threads, NEW c \in Conds, Broadcast(t, c) PROVE Queues'
<1>q. cond_queue \in [Conds -> Seq(Threads)]
      /\ UNCHANGED <<waiter_queue, reader_waiter_queue, pc>>
      /\ cond_queue' = [cond_queue EXCEPT ![c] = <<>>]
      /\ woken' = woken \cup {cond_queue[c][i] : i \in DOMAIN cond_queue[c]}
    BY DEF TypeOK, Broadcast, mutexVars, ToSet
<1>1. \A s \in woken' \ woken : pc[s] \in {"wait_unlock", "wait_block"}
    BY <1>q DEF Queues, CondQueues
<1>2. WriterQueue' /\ ReaderQueue' /\ Woken'
    BY <1>q, <1>1 DEF Queues, WriterQueue, ReaderQueue, Woken, Blocking
<1>3. \A d \in Conds : \A i \in DOMAIN cond_queue'[d] :
          d # c /\ cond_queue'[d] = cond_queue[d]
    BY <1>q
<1>4. CondQueues'
    BY <1>q, <1>3 DEF Queues, CondQueues
<1> QED BY <1>2, <1>4 DEF Queues

\* The queues hold blocked threads, each once.
LEMMA QueuesStep == TypeOK /\ Queues /\ [Next]_vars => Queues'
<1> SUFFICES ASSUME TypeOK, Queues, [Next]_vars PROVE Queues'
    OBVIOUS
<1>1. ASSUME NEW t \in Threads, Lock(t) \/ LockReadonly(t) PROVE Queues'
    BY <1>1, LockQueues, LockReadonlyQueues
<1>2. ASSUME NEW t \in Threads, Unlock(t) \/ WaitUnlock(t) PROVE Queues'
    BY <1>2, ReleaseQueues DEF Unlock, WaitUnlock, Goto, Moves
<1>3. ASSUME NEW t \in Threads, Unblocked(t) PROVE Queues'
  <2>1. PICK l : Moves(t, l)
      BY <1>3 DEF Unblocked, Goto, Moves
  <2> QED BY <1>3, <2>1, MoveQueues DEF Unblocked, mutexVars
<1>4. ASSUME NEW t \in Threads, Call(t) PROVE Queues'
  <2>1. PICK l : Moves(t, l)
      BY <1>4 DEF Call, Goto, Moves
  <2>2. t \notin woken
      BY <1>4 DEF Call, Queues, Woken, Blocking
  <2> QED BY <1>4, <2>1, <2>2, MoveQueues DEF Call, mutexVars
<1>5. ASSUME NEW t \in Threads, NEW c \in Conds, Wait(t, c) \/ Signal(t, c) \/ Broadcast(t, c)
      PROVE  Queues'
    BY <1>5, WaitQueues, SignalQueues, BroadcastQueues
<1>6. CASE UNCHANGED vars
    BY <1>6 DEF vars, mutexVars, Queues, WriterQueue, ReaderQueue, CondQueues, Woken
<1> QED BY <1>1, <1>2, <1>3, <1>4, <1>5, <1>6 DEF Next, Progress, Choice


-----------------------------------------------------------------------------
(* No wakeup is lost.                                                      *)

WriterOnItsWay == OnItsWay({"lock_block", "wait_block"}, "lock")
ReaderOnItsWay == OnItsWay({"readonly_block"}, "readonly")

\* While the mutex is held there is nothing to show.
LEMMA HeldMutex == (holder # None \/ reader_count # 0) => NoLostWakeup
BY DEF NoLostWakeup

\* Whoever uthread_mutex_unlock dequeues is blocked in the loop of its queue.
LEMMA ReleaseWakes ==
    ASSUME TypeOK, Inside, Queues, NEW t \in Threads, NEW l \in {"idle", "wait_block"},
           Moves(t, l), pc[t] \in {"write", "read", "wait_unlock"}, ReleaseLock
    PROVE  NoLostWakeup'
<1>1. CASE reader_count' = 0 /\ waiter_queue # <<>>
  <2>1. waiter_queue[1] \in Threads /\ 1 \in DOMAIN waiter_queue
        /\ Head(waiter_queue) = waiter_queue[1]
      BY <1>1 DEF TypeOK
  <2>2. pc[waiter_queue[1]] = "lock_block" /\ waiter_queue[1] \in woken'
      BY <1>1, <2>1 DEF Queues, WriterQueue, ReleaseLock, WakeNext
  <2>3. pc'[waiter_queue[1]] = "lock_block"
      BY <2>1, <2>2 DEF Moves, TypeOK
  <2>4. waiter_queue[1] \in WriterOnItsWay'
      BY <2>1, <2>2, <2>3 DEF WriterOnItsWay, OnItsWay
  <2> QED BY <2>4 DEF NoLostWakeup, WriterOnItsWay
<1>2. CASE reader_count' = 0 /\ waiter_queue = <<>>
    BY <1>2 DEF NoLostWakeup, ReleaseLock, WakeNext
<1>3. CASE reader_count' # 0
    BY <1>3 DEF NoLostWakeup
<1> QED BY <1>1, <1>2, <1>3

\* A free mutex stays free, the writers' queue does not grow, the readers' queue
\* grows only behind a writer, and nobody on the way gets lost.
LEMMA OthersKeepComing ==
    ASSUME NoLostWakeup, holder = None, reader_count = 0,
           waiter_queue' = waiter_queue,
           reader_waiter_queue' = reader_waiter_queue \/ waiter_queue # <<>>,
           WriterOnItsWay \subseteq WriterOnItsWay',
           ReaderOnItsWay \subseteq ReaderOnItsWay' \/ waiter_queue # <<>>
    PROVE  NoLostWakeup'
BY DEF NoLostWakeup, WriterOnItsWay, ReaderOnItsWay

\* No wakeup is lost by any step.
LEMMA NoLostWakeupStep == IInv /\ [Next]_vars => NoLostWakeup'
<1> SUFFICES ASSUME IInv, [Next]_vars PROVE NoLostWakeup'
    OBVIOUS
<1>t. TypeOK /\ Inside /\ Queues /\ NoLostWakeup /\ pc \in [Threads -> Places]
      /\ reader_count \in Nat
    BY ReadersFinite DEF IInv, TypeOK, Inside, HolderAndCount
<1> USE DEF WriterOnItsWay, ReaderOnItsWay, OnItsWay
<1>1. ASSUME NEW t \in Threads, Lock(t) PROVE NoLostWakeup'
  <2>1. CASE holder # None \/ reader_count > 0
      BY <1>1, <1>t, <2>1 DEF Lock, NoLostWakeup
  <2>2. CASE ~(holder # None \/ reader_count > 0)
      BY <1>1, <2>2, NoneAssumption DEF Lock, NoLostWakeup
  <2> QED BY <2>1, <2>2
<1>2. ASSUME NEW t \in Threads, LockReadonly(t) PROVE NoLostWakeup'
  <2>1. CASE holder # None
      BY <1>2, <2>1 DEF LockReadonly, NoLostWakeup
  <2>2. CASE holder = None /\ waiter_queue # <<>>
    <3>1. pc[t] = "readonly" /\ pc' = [pc EXCEPT ![t] = "readonly_block"]
          /\ UNCHANGED <<holder, reader_count, waiter_queue, woken>>
        BY <1>2, <2>2 DEF LockReadonly, Goto
    <3>2. WriterOnItsWay \subseteq WriterOnItsWay'
        BY <1>t, <3>1
    <3>3. CASE reader_count = 0
        BY <1>t, <2>2, <3>1, <3>2, <3>3, OthersKeepComing
    <3>4. CASE reader_count # 0
        BY <3>1, <3>4 DEF NoLostWakeup
    <3> QED BY <3>3, <3>4
  <2>3. CASE holder = None /\ waiter_queue = <<>>
      BY <1>2, <1>t, <2>3 DEF LockReadonly, NoLostWakeup
  <2> QED BY <2>1, <2>2, <2>3
<1>3. ASSUME NEW t \in Threads, Unlock(t) \/ WaitUnlock(t) PROVE NoLostWakeup'
    BY <1>3, <1>t, ReleaseWakes DEF Unlock, WaitUnlock, Goto, Moves
<1>4. ASSUME NEW t \in Threads, Call(t) \/ Unblocked(t) PROVE NoLostWakeup'
  <2>1. UNCHANGED mutexVars
      BY <1>4 DEF Call, Unblocked
  <2>2. WriterOnItsWay \subseteq WriterOnItsWay' /\ ReaderOnItsWay \subseteq ReaderOnItsWay'
      BY <1>4, <1>t DEF Call, Unblocked, Goto, Blocking
  <2>3. CASE holder = None /\ reader_count = 0
      BY <1>t, <2>1, <2>2, <2>3, OthersKeepComing DEF mutexVars
  <2>4. CASE ~(holder = None /\ reader_count = 0)
      BY <2>1, <2>4 DEF NoLostWakeup, mutexVars
  <2> QED BY <2>3, <2>4
<1>5. ASSUME NEW t \in Threads, NEW c \in Conds, Wait(t, c) \/ Signal(t, c) \/ Broadcast(t, c)
      PROVE  NoLostWakeup'
  <2>1. t \in Writers /\ UNCHANGED mutexVars
      BY <1>5 DEF Wait, Signal, Broadcast, Writers
  <2>2. holder # None
      BY <1>t, <2>1 DEF Inside, HolderAndCount
  <2> QED BY <2>1, <2>2 DEF NoLostWakeup, mutexVars
<1>6. CASE UNCHANGED vars
    BY <1>6, <1>t DEF vars, mutexVars, NoLostWakeup
<1> QED BY <1>1, <1>2, <1>3, <1>4, <1>5, <1>6 DEF Next, Progress, Choice

-----------------------------------------------------------------------------
(* A blocked thread is on a queue.                                         *)

\* The threads that somebody will unblock or has unblocked.
Queued == woken \cup ToSet(waiter_queue) \cup ToSet(reader_waiter_queue)
          \cup UNION {ToSet(cond_queue[c]) : c \in Conds}

\* A thread that is about to block is on a queue or woken.
Located == \A t \in Threads : pc[t] \in Blocking \cup {"wait_unlock"} => t \in Queued

\* uthread_enqueue adds one thread to a queue and forgets none.
LEMMA AppendKeeps ==
    ASSUME NEW q \in Seq(Threads), NEW t \in Threads
    PROVE  ToSet(q) \cup {t} \subseteq ToSet(Append(q, t))
<1>1. /\ Append(q, t) \in Seq(Threads) /\ Len(Append(q, t)) = Len(q) + 1 /\ Len(q) \in Nat
      /\ Append(q, t)[Len(q) + 1] = t
      /\ \A i \in 1..Len(q) : Append(q, t)[i] = q[i]
    BY AppendProperties
<1>2. DOMAIN q = 1..Len(q) /\ DOMAIN Append(q, t) = 1..(Len(q) + 1)
    BY <1>1
<1>3. t \in ToSet(Append(q, t))
    BY <1>1, <1>2 DEF ToSet
<1>4. \A i \in DOMAIN q : q[i] \in ToSet(Append(q, t))
    BY <1>1, <1>2 DEF ToSet
<1> QED BY <1>3, <1>4 DEF ToSet

\* uthread_dequeue takes the first thread of a queue and leaves the others.
LEMMA TailKeeps ==
    ASSUME NEW q \in Seq(Threads), q # <<>>
    PROVE  ToSet(q) \subseteq ToSet(Tail(q)) \cup {Head(q)}
<1>1. /\ Len(q) \in Nat /\ DOMAIN q = 1..Len(q) /\ Head(q) = q[1]
      /\ DOMAIN Tail(q) = 1..(Len(q) - 1)
      /\ \A i \in 1..(Len(q) - 1) : Tail(q)[i] = q[i + 1]
    OBVIOUS
<1> SUFFICES ASSUME NEW i \in DOMAIN q, i # 1 PROVE q[i] \in ToSet(Tail(q))
    BY <1>1 DEF ToSet
<1>2. i - 1 \in DOMAIN Tail(q) /\ Tail(q)[i - 1] = q[i]
    BY <1>1
<1> QED BY <1>2 DEF ToSet

\* A step that moves one thread and forgets nobody else leaves Located true.
LEMMA MoveLocated ==
    ASSUME TypeOK, Located, NEW t \in Threads, NEW l, Moves(t, l),
           Queued \ {t} \subseteq Queued',
           l \in Blocking \cup {"wait_unlock"} => t \in Queued'
    PROVE  Located'
<1> SUFFICES ASSUME NEW s \in Threads, pc'[s] \in Blocking \cup {"wait_unlock"}
             PROVE  s \in Queued'
    BY DEF Located
<1>1. CASE s = t
    BY <1>1 DEF Moves, TypeOK
<1>2. CASE s # t
  <2>1. pc'[s] = pc[s]
      BY <1>2 DEF Moves, TypeOK
  <2> QED BY <1>2, <2>1 DEF Located
<1> QED BY <1>1, <1>2

\* uthread_mutex_unlock dequeues only threads that it unblocks.
LEMMA ReleaseKeeps ==
    ASSUME TypeOK, ReleaseLock, UNCHANGED cond_queue
    PROVE  Queued \subseteq Queued'
<1>1. CASE reader_count' = 0 /\ waiter_queue # <<>>
  <2>1. ToSet(waiter_queue) \subseteq ToSet(Tail(waiter_queue)) \cup {Head(waiter_queue)}
      BY <1>1, TailKeeps DEF TypeOK
  <2> QED BY <1>1, <2>1 DEF ReleaseLock, WakeNext, Queued
<1>2. CASE reader_count' = 0 /\ waiter_queue = <<>>
    BY <1>2 DEF ReleaseLock, WakeNext, Queued
<1>3. CASE reader_count' # 0
    BY <1>3 DEF ReleaseLock, Queued
<1> QED BY <1>1, <1>2, <1>3

\* uthread_cond_wait, _signal and _broadcast change one condition's queue.
LEMMA CondKeeps ==
    ASSUME NEW c \in Conds, NEW q, TypeOK, cond_queue' = [cond_queue EXCEPT ![c] = q],
           ToSet(cond_queue[c]) \subseteq ToSet(q) \cup woken', woken \subseteq woken',
           UNCHANGED mutexVars
    PROVE  Queued \cup ToSet(q) \subseteq Queued'
<1>1. \A d \in Conds \ {c} : cond_queue'[d] = cond_queue[d]
    BY DEF TypeOK
<1>2. cond_queue'[c] = q
    BY DEF TypeOK
<1>3. ToSet(q) \subseteq Queued'
    BY <1>2 DEF Queued
<1>4. \A d \in Conds : ToSet(cond_queue[d]) \subseteq Queued'
  <2> TAKE d \in Conds
  <2>1. CASE d = c
      BY <1>3, <2>1 DEF Queued
  <2>2. CASE d # c
      BY <1>1, <2>2 DEF Queued
  <2> QED BY <2>1, <2>2
<1>5. woken \cup ToSet(waiter_queue) \cup ToSet(reader_waiter_queue) \subseteq Queued'
    BY DEF Queued, mutexVars
<1> QED BY <1>3, <1>4, <1>5 DEF Queued

\* No thread leaves its queue but to run.
LEMMA LocatedStep == TypeOK /\ Located /\ [Next]_vars => Located'
<1> SUFFICES ASSUME TypeOK, Located, [Next]_vars PROVE Located'
    OBVIOUS
<1> USE DEF Moves
<1>1. ASSUME NEW t \in Threads, Lock(t) PROVE Located'
  <2>1. CASE holder # None \/ reader_count > 0
    <3>1. ToSet(waiter_queue) \cup {t} \subseteq ToSet(waiter_queue')
        BY <1>1, <2>1, AppendKeeps DEF Lock, TypeOK
    <3>2. Queued \cup {t} \subseteq Queued'
        BY <1>1, <3>1 DEF Lock, Queued
    <3> QED BY <1>1, <2>1, <3>2, MoveLocated DEF Lock, Goto
  <2>2. CASE ~(holder # None \/ reader_count > 0)
    <3>1. Queued' = Queued /\ Moves(t, "write")
        BY <1>1, <2>2 DEF Lock, Goto, Queued
    <3> QED BY <3>1, MoveLocated DEF Blocking
  <2> QED BY <2>1, <2>2
<1>2. ASSUME NEW t \in Threads, LockReadonly(t) PROVE Located'
  <2>1. CASE holder # None \/ waiter_queue # <<>>
    <3>1. ToSet(reader_waiter_queue) \cup {t} \subseteq ToSet(reader_waiter_queue')
        BY <1>2, <2>1, AppendKeeps DEF LockReadonly, TypeOK
    <3>2. Queued \cup {t} \subseteq Queued'
        BY <1>2, <3>1 DEF LockReadonly, Queued
    <3> QED BY <1>2, <2>1, <3>2, MoveLocated DEF LockReadonly, Goto
  <2>2. CASE ~(holder # None \/ waiter_queue # <<>>)
    <3>1. Queued' = Queued /\ Moves(t, "read")
        BY <1>2, <2>2 DEF LockReadonly, Goto, Queued
    <3> QED BY <3>1, MoveLocated DEF Blocking
  <2> QED BY <2>1, <2>2
<1>3. ASSUME NEW t \in Threads, Unlock(t) PROVE Located'
  <2>1. Queued \subseteq Queued' /\ Moves(t, "idle")
      BY <1>3, ReleaseKeeps DEF Unlock, Goto
  <2> QED BY <2>1, MoveLocated DEF Blocking
<1>4. ASSUME NEW t \in Threads, WaitUnlock(t) PROVE Located'
  <2>1. Queued \subseteq Queued' /\ Moves(t, "wait_block") /\ pc[t] = "wait_unlock"
      BY <1>4, ReleaseKeeps DEF WaitUnlock, Goto
  <2> QED BY <2>1, MoveLocated DEF Located
<1>5. ASSUME NEW t \in Threads, Unblocked(t) PROVE Located'
  <2>1. PICK l \in {"readonly", "lock"} : Moves(t, l)
      BY <1>5 DEF Unblocked, Goto
  <2>2. Queued \ {t} \subseteq Queued'
      BY <1>5 DEF Unblocked, Queued, mutexVars
  <2> QED BY <2>1, <2>2, MoveLocated DEF Blocking
<1>6. ASSUME NEW t \in Threads, Call(t) PROVE Located'
  <2>1. PICK l \in {"readonly", "lock"} : Moves(t, l)
      BY <1>6 DEF Call, Goto
  <2>2. Queued' = Queued
      BY <1>6 DEF Call, Queued, mutexVars
  <2> QED BY <2>1, <2>2, MoveLocated DEF Blocking
<1>7. ASSUME NEW t \in Threads, NEW c \in Conds, Wait(t, c) PROVE Located'
  <2> DEFINE q == Append(cond_queue[c], t)
  <2>1. ToSet(cond_queue[c]) \cup {t} \subseteq ToSet(q)
      BY AppendKeeps DEF TypeOK
  <2>2. Queued \cup ToSet(q) \subseteq Queued'
      BY <1>7, <2>1, CondKeeps DEF Wait
  <2> HIDE DEF q
  <2> QED BY <1>7, <2>1, <2>2, MoveLocated DEF Wait, Goto
<1>8. ASSUME NEW t \in Threads, NEW c \in Conds, Signal(t, c) \/ Broadcast(t, c) PROVE Located'
  <2>1. Queued \subseteq Queued'
    <3>1. CASE Signal(t, c)
      <4>1. ToSet(cond_queue[c]) \subseteq ToSet(Tail(cond_queue[c])) \cup {Head(cond_queue[c])}
          BY <3>1, TailKeeps DEF Signal, TypeOK
      <4> QED BY <3>1, <4>1, CondKeeps DEF Signal
    <3>2. CASE Broadcast(t, c)
        BY <3>2, CondKeeps DEF Broadcast
    <3> QED BY <1>8, <3>1, <3>2
  <2>2. pc' = pc
      BY <1>8 DEF Signal, Broadcast
  <2> QED BY <2>1, <2>2 DEF Located
<1>9. CASE UNCHANGED vars
    BY <1>9 DEF vars, mutexVars, Located, Queued
<1> QED BY <1>1, <1>2, <1>3, <1>4, <1>5, <1>6, <1>7, <1>8, <1>9 DEF Next, Progress, Choice

\* Every queued thread has one place, and the others have none.
LEMMA OnePlace == TypeOK /\ Queues /\ Located => OnOneQueue
<1> SUFFICES ASSUME TypeOK, Queues, Located, NEW t \in Threads
             PROVE  Cardinality(Positions(t))
                    = (IF pc[t] \in Blocking \cup {"wait_unlock"} THEN 1 ELSE 0)
    BY DEF OnOneQueue
<1> DEFINE W == {<<"waiter_queue", i>> : i \in {j \in DOMAIN waiter_queue : waiter_queue[j] = t}}
           R == {<<"reader_waiter_queue", i>> :
                    i \in {j \in DOMAIN reader_waiter_queue : reader_waiter_queue[j] = t}}
           C == UNION {{<<c, i>> : i \in {j \in DOMAIN cond_queue[c] : cond_queue[c][j] = t}}
                         : c \in Conds}
           K == IF t \in woken THEN {<<"ready_queue", 0>>} ELSE {}
<1>p. Positions(t) = W \cup R \cup C \cup K
    BY DEF Positions
<1>w. pc[t] # "lock_block" \/ t \in woken => W = {}
    BY DEF Queues, WriterQueue
<1>r. pc[t] # "readonly_block" \/ t \in woken => R = {}
    BY DEF Queues, ReaderQueue
<1>c. pc[t] \notin {"wait_unlock", "wait_block"} \/ t \in woken => C = {}
    BY DEF Queues, CondQueues
<1>k. t \notin woken => K = {}
    OBVIOUS
<1>1. CASE t \in woken
  <2>1. pc[t] \in Blocking \cup {"wait_unlock"}
      BY <1>1 DEF Queues, Woken
  <2>2. Positions(t) = {<<"ready_queue", 0>>}
      BY <1>1, <1>p, <1>w, <1>r, <1>c
  <2> QED BY <2>1, <2>2, FS_Singleton
<1>2. CASE t \in ToSet(waiter_queue)
  <2>1. PICK i \in DOMAIN waiter_queue : waiter_queue[i] = t
      BY <1>2 DEF ToSet
  <2>2. pc[t] = "lock_block" /\ t \notin woken
        /\ {j \in DOMAIN waiter_queue : waiter_queue[j] = t} = {i}
      BY <2>1 DEF Queues, WriterQueue
  <2>3. W = {<<"waiter_queue", i>>}
      BY <2>2
  <2>4. R = {} /\ C = {} /\ K = {}
      BY <2>2, <1>r, <1>c, <1>k
  <2> HIDE DEF W, R, C, K
  <2>5. Positions(t) = {<<"waiter_queue", i>>}
      BY <1>p, <2>3, <2>4
  <2> QED BY <2>2, <2>5, FS_Singleton DEF Blocking
<1>3. CASE t \in ToSet(reader_waiter_queue)
  <2>1. PICK i \in DOMAIN reader_waiter_queue : reader_waiter_queue[i] = t
      BY <1>3 DEF ToSet
  <2>2. pc[t] = "readonly_block" /\ t \notin woken
        /\ {j \in DOMAIN reader_waiter_queue : reader_waiter_queue[j] = t} = {i}
      BY <2>1 DEF Queues, ReaderQueue
  <2>3. R = {<<"reader_waiter_queue", i>>}
      BY <2>2
  <2>4. W = {} /\ C = {} /\ K = {}
      BY <2>2, <1>w, <1>c, <1>k
  <2> HIDE DEF W, R, C, K
  <2>5. Positions(t) = {<<"reader_waiter_queue", i>>}
      BY <1>p, <2>3, <2>4
  <2> QED BY <2>2, <2>5, FS_Singleton DEF Blocking
<1>4. CASE \E c \in Conds : t \in ToSet(cond_queue[c])
  <2>0. PICK c \in Conds : t \in ToSet(cond_queue[c])
      BY <1>4
  <2>1. PICK i \in DOMAIN cond_queue[c] : cond_queue[c][i] = t
      BY <2>0 DEF ToSet
  <2>2. pc[t] \in {"wait_unlock", "wait_block"} /\ t \notin woken
      BY <2>1 DEF Queues, CondQueues
  <2>3. \A d \in Conds : \A j \in DOMAIN cond_queue[d] : cond_queue[d][j] = t => d = c /\ j = i
      BY <2>1 DEF Queues, CondQueues
  <2>4. C = {<<c, i>>}
      BY <2>1, <2>3
  <2>5. W = {} /\ R = {} /\ K = {}
      BY <2>2, <1>w, <1>r, <1>k
  <2> HIDE DEF W, R, C, K
  <2>6. Positions(t) = {<<c, i>>}
      BY <1>p, <2>4, <2>5
  <2> QED BY <2>2, <2>6, FS_Singleton DEF Blocking
<1>5. CASE t \notin Queued
  <2>1. pc[t] \notin Blocking \cup {"wait_unlock"}
      BY <1>5 DEF Located
  <2>2. t \notin woken
      BY <1>5 DEF Queued
  <2>3. W = {} /\ R = {} /\ C = {} /\ K = {}
      BY <2>1, <2>2, <1>w, <1>r, <1>c, <1>k DEF Blocking
  <2> HIDE DEF W, R, C, K
  <2>4. Positions(t) = {}
      BY <1>p, <2>3
  <2> QED BY <2>1, <2>4, FS_EmptySet
<1> QED BY <1>1, <1>2, <1>3, <1>4, <1>5 DEF Queued

-----------------------------------------------------------------------------
(* The monitor.                                                            *)

\* A thread that is in uthread_cond_wait and has not unlocked yet is the last of
\* a condition's queue: it holds the mutex, so that nobody came after it.
LastToUnlock ==
    \A t \in Threads : pc[t] = "wait_unlock" =>
        \E c \in Conds : cond_queue[c] # <<>> /\ Last(cond_queue[c]) = t

\* While the holder is not in uthread_cond_wait, nobody is.
LEMMA NobodyToUnlock ==
    ASSUME TypeOK, Inside, holder = None \/ pc[holder] # "wait_unlock"
    PROVE  \A t \in Threads : pc[t] # "wait_unlock"
BY DEF Inside, HolderAndCount, Writers, TypeOK

\* A thread with the mutex holds it alone.
LEMMA HolderInside ==
    ASSUME TypeOK, Inside, NEW t \in Threads, pc[t] \in {"write", "wait_unlock"}
    PROVE  holder = t /\ holder # None /\ Readers = {}
BY NoneAssumption DEF Inside, HolderAndCount, Writers

LEMMA LastToUnlockStep ==
    ASSUME IInv, LastToUnlock, [Next]_vars
    PROVE  LastToUnlock'
<1>t. TypeOK /\ Inside
    BY DEF IInv
<1>1. ASSUME NEW t \in Threads, NEW c \in Conds, Wait(t, c) PROVE LastToUnlock'
  <2>1. \A s \in Threads : pc'[s] = "wait_unlock" => s = t
      BY <1>t, <1>1, NobodyToUnlock, HolderInside DEF Wait, Goto, TypeOK
  <2>2. cond_queue[c] \in Seq(Threads) /\ cond_queue'[c] = Append(cond_queue[c], t)
      BY <1>t, <1>1 DEF Wait, TypeOK
  <2>3. cond_queue'[c] # <<>> /\ cond_queue'[c][Len(cond_queue'[c])] = t
      BY <2>2, AppendProperties
  <2> QED BY <2>1, <2>3 DEF LastToUnlock, Last
<1>2. ASSUME NEW t \in Threads, NEW c \in Conds, Signal(t, c) \/ Broadcast(t, c) PROVE LastToUnlock'
  <2>1. pc[t] = "write" /\ pc' = pc
      BY <1>2 DEF Signal, Broadcast
  <2> QED BY <1>t, <2>1, NobodyToUnlock, HolderInside DEF LastToUnlock
<1>3. ASSUME NEW t \in Threads, Progress(t) \/ Call(t) PROVE LastToUnlock'
  <2>1. cond_queue' = cond_queue /\ \A s \in Threads : pc'[s] = "wait_unlock" => pc[s] = "wait_unlock"
      BY <1>t, <1>3 DEF Progress, Call, Lock, LockReadonly, Unblocked, Unlock, WaitUnlock, Goto, TypeOK
  <2> QED BY <2>1 DEF LastToUnlock
<1>4. CASE UNCHANGED vars
    BY <1>4 DEF vars, LastToUnlock
<1> QED BY <1>1, <1>2, <1>3, <1>4 DEF Next, Choice

\* A condition whose last waiter has unlocked is waited for by its whole queue.
LEMMA AllWait ==
    ASSUME TypeOK, \A t \in Threads : pc[t] # "wait_unlock", NEW c \in Conds
    PROVE  WaitersOf(c) = cond_queue[c]
<1>1. ASSUME cond_queue[c] # <<>> PROVE Last(cond_queue[c]) \in Threads
  <2>1. cond_queue[c] \in Seq(Threads)
      BY DEF TypeOK
  <2> QED BY <1>1, <2>1 DEF Last
<1> QED BY <1>1 DEF WaitersOf

LEMMA FrontOfAppend ==
    ASSUME NEW q \in Seq(Threads), NEW t \in Threads
    PROVE  /\ Append(q, t) # <<>>
           /\ Last(Append(q, t)) = t
           /\ Front(Append(q, t)) = q
<1>1. /\ Append(q, t) \in Seq(Threads) /\ Len(Append(q, t)) = Len(q) + 1 /\ Len(q) \in Nat
      /\ Append(q, t)[Len(q) + 1] = t
      /\ \A i \in 1..Len(q) : Append(q, t)[i] = q[i]
    BY AppendProperties
<1>2. /\ Front(Append(q, t)) \in Seq(Threads) /\ Len(Front(Append(q, t))) = Len(q)
      /\ \A i \in 1..Len(q) : Front(Append(q, t))[i] = q[i]
    BY <1>1 DEF Front
<1>3. Front(Append(q, t)) = q
    BY <1>2, SeqEqual
<1> QED BY <1>1, <1>3 DEF Last

LEMMA AppendOfFront ==
    ASSUME NEW q \in Seq(Threads), q # <<>>
    PROVE  q = Append(Front(q), Last(q)) /\ Last(q) \in Threads
<1>1. Len(q) \in Nat /\ Len(q) >= 1 /\ q[Len(q)] \in Threads
    OBVIOUS
<1>2. /\ Front(q) \in Seq(Threads) /\ Len(Front(q)) = Len(q) - 1
      /\ \A i \in 1..(Len(q) - 1) : Front(q)[i] = q[i]
  <2>1. PICK n \in Nat : Len(q) = n + 1
    <3>1. Len(q) - 1 \in Nat /\ Len(q) = (Len(q) - 1) + 1
        BY <1>1
    <3> QED BY <3>1
  <2>2. \A i \in 1..n : q[i] \in Threads
      BY <2>1
  <2>3. Front(q) = SubSeq(q, 1, n)
      BY <2>1 DEF Front
  <2>4. /\ SubSeq(q, 1, n) \in Seq(Threads)
        /\ Len(SubSeq(q, 1, n)) = IF 1 <= n THEN n - 1 + 1 ELSE 0
        /\ \A i \in 1..(n - 1 + 1) : SubSeq(q, 1, n)[i] = q[1 + i - 1]
      BY <2>2, SubSeqProperties
  <2>5. Len(SubSeq(q, 1, n)) = n
      BY <2>4
  <2>6. \A i \in 1..n : i \in 1..(n - 1 + 1) /\ 1 + i - 1 = i
      OBVIOUS
  <2> QED BY <2>1, <2>3, <2>4, <2>5, <2>6
<1>3. /\ Append(Front(q), Last(q)) \in Seq(Threads) /\ Len(Append(Front(q), Last(q))) = Len(q)
      /\ \A i \in 1..Len(q) : Append(Front(q), Last(q))[i] = q[i]
    BY <1>1, <1>2, AppendProperties DEF Last
<1> QED BY <1>1, <1>3 DEF Last

MWaiting == [c \in Conds |-> WaitersOf(c)]

\* A thread that tries to lock the mutex waits for no condition.
LEMMA TryingIsNoWaiter ==
    ASSUME TypeOK, Queues, NEW t \in Threads, pc[t] \notin {"wait_unlock", "wait_block"}
    PROVE  t \notin M!Waiters
<1> SUFFICES ASSUME NEW c \in Conds, NEW i \in DOMAIN WaitersOf(c), WaitersOf(c)[i] = t PROVE FALSE
    BY DEF M!Waiters
<1>1. cond_queue[c] \in Seq(Threads)
    BY DEF TypeOK
<1>2. i \in DOMAIN cond_queue[c] /\ cond_queue[c][i] = t
  <2>1. CASE WaitersOf(c) = cond_queue[c]
      BY <2>1
  <2>2. CASE cond_queue[c] # <<>> /\ WaitersOf(c) = Front(cond_queue[c])
    <3>1. DOMAIN Front(cond_queue[c]) = 1..(Len(cond_queue[c]) - 1)
        BY <1>1, <2>2 DEF Front
    <3> QED BY <1>1, <2>2, <3>1 DEF Front
  <2> QED BY <2>1, <2>2 DEF WaitersOf
<1> QED BY <1>2 DEF Queues, CondQueues

\* A step that changes no condition and moves a thread that is not in
\* uthread_cond_wait leaves the waiters as they are.
LEMMA WaitersStay ==
    ASSUME TypeOK, NEW t \in Threads, NEW l, Moves(t, l), cond_queue' = cond_queue,
           pc[t] # "wait_unlock", l # "wait_unlock"
    PROVE  MWaiting' = MWaiting
<1>1. ASSUME NEW c \in Conds PROVE WaitersOf(c)' = WaitersOf(c)
    BY DEF Moves, TypeOK, WaitersOf
<1> QED BY <1>1 DEF MWaiting

-----------------------------------------------------------------------------
(* The theorems.                                                           *)

\* uthread_mutex_create and uthread_cond_create establish the invariant.
LEMMA InitInv == Init => IInv
<1> SUFFICES ASSUME Init PROVE IInv
    OBVIOUS
<1>1. Writers = {} /\ Readers = {}
    BY DEF Init, Writers, Readers
<1>2. Inside
    BY <1>1, FS_EmptySet DEF Init, Inside, HolderAndCount
<1>3. TypeOK
    BY ReadersFinite, EmptySeq DEF Init, TypeOK, Places
<1>4. Queues
    BY DEF Init, Queues, WriterQueue, ReaderQueue, CondQueues, Woken
<1>5. NoLostWakeup
    BY DEF Init, NoLostWakeup
<1> QED BY <1>2, <1>3, <1>4, <1>5 DEF IInv

\* IInv is an invariant of any client that unlocks what it locks.
THEOREM Invariance == Spec => []IInv
<1>1. IInv /\ [Next]_vars => IInv'
    BY InsideStep, TypeStep, QueuesStep, NoLostWakeupStep DEF IInv
<1> QED BY InitInv, <1>1, PTL DEF Spec

\* uthread_mutex.holder, .reader_count and the queues keep their types; in
\* particular reader_count is never negative.
THEOREM Typing == Spec => []TypeOK
<1>1. IInv => TypeOK
    BY DEF IInv
<1> QED BY Invariance, <1>1, PTL

\* A thread that holds the mutex exclusively is alone, for any number of threads.
THEOREM Exclusion == Spec => []MutualExclusion
<1>1. IInv => MutualExclusion
    BY DEF IInv, Inside, HolderAndCount, MutualExclusion
<1> QED BY Invariance, <1>1, PTL

\* The asserts of uthread_mutex_cond.c on holder and reader_count hold.
THEOREM FieldsTell == Spec => []HolderAndCount
<1>1. IInv => HolderAndCount
    BY DEF IInv, Inside
<1> QED BY Invariance, <1>1, PTL

\* A mutex that is free while threads are queued has somebody on the way to it.
THEOREM WakeupsArrive == Spec => []NoLostWakeup
<1>1. IInv => NoLostWakeup
    BY DEF IInv
<1> QED BY Invariance, <1>1, PTL

\* A thread that is about to block, and no other, is on one queue, and it is there
\* once: its one next pointer suffices, and somebody will unblock it.
THEOREM OneQueueEach == Spec => []OnOneQueue
<1>1. IInv /\ Located /\ [Next]_vars => Located'
    BY LocatedStep DEF IInv
<1>2. Init => Located
    BY DEF Init, Located, Blocking
<1>3. IInv /\ Located => OnOneQueue
    BY OnePlace DEF IInv
<1> QED BY <1>1, <1>2, <1>3, Invariance, PTL DEF Spec

MVars == <<holder, Readers, MWaiting>>

\* A uthread_mutex_lock that gets through is an Acquire, or a step nobody sees.
LEMMA LockMaps ==
    ASSUME IInv, NEW t \in Threads, Lock(t)
    PROVE  M!Acquire(t) \/ UNCHANGED MVars
<1>t. TypeOK /\ Inside /\ Queues
    BY DEF IInv
<1>1. CASE holder # None \/ reader_count > 0
  <2>1. MWaiting' = MWaiting /\ Readers' = Readers
      BY <1>t, <1>1, WaitersStay, ReadersUnchanged DEF Lock, Goto, Moves, TypeOK
  <2> QED BY <1>1, <2>1 DEF Lock, MVars
<1>2. CASE ~(holder # None \/ reader_count > 0)
  <2>1. holder = None /\ Readers = {}
      BY <1>t, <1>2, ReadersFinite DEF Inside, HolderAndCount, TypeOK
  <2>2. holder' = t /\ MWaiting' = MWaiting /\ Readers' = Readers
      BY <1>t, <1>2, WaitersStay, ReadersUnchanged DEF Lock, Goto, Moves, TypeOK
  <2>3. t \notin M!Waiters
      BY <1>t, TryingIsNoWaiter DEF Lock
  <2> QED BY <2>1, <2>2, <2>3 DEF M!Acquire, MWaiting
<1> QED BY <1>1, <1>2

LEMMA LockReadonlyMaps ==
    ASSUME IInv, NEW t \in Threads, LockReadonly(t)
    PROVE  M!AcquireReadonly(t) \/ UNCHANGED MVars
<1>t. TypeOK /\ Inside /\ Queues
    BY DEF IInv
<1>1. CASE holder # None \/ waiter_queue # <<>>
  <2>1. MWaiting' = MWaiting /\ Readers' = Readers
      BY <1>t, <1>1, WaitersStay, ReadersUnchanged DEF LockReadonly, Goto, Moves, TypeOK
  <2> QED BY <2>1 DEF LockReadonly, MVars
<1>2. CASE ~(holder # None \/ waiter_queue # <<>>)
  <2>1. Moves(t, "read") /\ holder' = holder /\ cond_queue' = cond_queue
      BY <1>2 DEF LockReadonly, Goto, Moves
  <2>2. Readers' = Readers \cup {t} /\ t \notin Readers
      BY <1>t, <2>1, ReaderEnters DEF LockReadonly, Moves, Readers, TypeOK
  <2>3. MWaiting' = MWaiting
      BY <1>t, <2>1, WaitersStay DEF LockReadonly
  <2>4. t \notin M!Waiters
      BY <1>t, TryingIsNoWaiter DEF LockReadonly
  <2> QED BY <1>2, <2>1, <2>2, <2>3, <2>4 DEF M!AcquireReadonly, MWaiting
<1> QED BY <1>1, <1>2

LEMMA UnlockMaps ==
    ASSUME IInv, NEW t \in Threads, Unlock(t)
    PROVE  M!Release(t)
<1>t. TypeOK /\ Inside
    BY DEF IInv
<1>1. Moves(t, "idle") /\ holder' = None /\ cond_queue' = cond_queue
    BY DEF Unlock, ReleaseLock, Goto, Moves
<1>2. MWaiting' = MWaiting
    BY <1>t, <1>1, WaitersStay DEF Unlock
<1>3. CASE pc[t] = "read"
  <2>1. t \in Readers /\ Readers' = Readers \ {t}
      BY <1>t, <1>1, <1>3, ReaderLeaves DEF Readers, Moves, TypeOK
  <2> QED BY <1>1, <1>2, <2>1 DEF M!Release, MWaiting
<1>4. CASE pc[t] = "write"
  <2>1. holder = t /\ Readers = {}
      BY <1>t, <1>4, HolderInside
  <2>2. Readers' = {}
      BY <1>t, <1>1, <1>4, <2>1, ReadersUnchanged DEF Moves, TypeOK
  <2> QED BY <1>1, <1>2, <2>1, <2>2 DEF M!Release, MWaiting
<1> QED BY <1>3, <1>4 DEF Unlock

\* Entering the queue in uthread_cond_wait is not seen yet.
LEMMA WaitMaps ==
    ASSUME IInv, NEW t \in Threads, NEW c \in Conds, Wait(t, c)
    PROVE  UNCHANGED MVars
<1>t. TypeOK /\ Inside
    BY DEF IInv
<1>1. holder = t /\ \A s \in Threads : pc[s] # "wait_unlock"
    BY <1>t, HolderInside, NobodyToUnlock DEF Wait
<1>2. Moves(t, "wait_unlock") /\ holder' = holder
    BY DEF Wait, Goto, Moves, mutexVars
<1>3. Readers' = Readers
    BY <1>t, <1>2, ReadersUnchanged DEF Wait, Moves, TypeOK
<1>4. /\ cond_queue[c] \in Seq(Threads)
      /\ cond_queue'[c] = Append(cond_queue[c], t)
      /\ \A d \in Conds \ {c} : cond_queue'[d] = cond_queue[d]
    BY <1>t DEF Wait, TypeOK
<1>5. pc'[t] = "wait_unlock"
    BY <1>t, <1>2 DEF Moves, TypeOK
<1>6. ASSUME NEW d \in Conds PROVE WaitersOf(d)' = WaitersOf(d)
  <2>1. CASE d = c
    <3>1. WaitersOf(c) = cond_queue[c]
        BY <1>t, <1>1, AllWait
    <3>2. /\ cond_queue'[c] # <<>> /\ Last(cond_queue'[c]) = t
          /\ Front(cond_queue'[c]) = cond_queue[c]
        BY <1>4, FrontOfAppend
    <3>3. WaitersOf(c)' = cond_queue[c]
        BY <1>5, <3>2 DEF WaitersOf
    <3> QED BY <2>1, <3>1, <3>3
  <2>2. CASE d # c
    <3>1. cond_queue[d] \in Seq(Threads)
        BY <1>t DEF TypeOK
    <3>2. cond_queue[d] # <<>> => Last(cond_queue[d]) \in Threads
        BY <3>1, AppendOfFront
    <3>3. cond_queue[d] # <<>> => Last(cond_queue[d]) # t
      <4> SUFFICES ASSUME cond_queue[d] # <<>>, Last(cond_queue[d]) = t PROVE FALSE
          OBVIOUS
      <4>1. \E i \in DOMAIN cond_queue[d] : cond_queue[d][i] = t
          BY <3>1 DEF Last
      <4>2. pc[t] \in {"wait_unlock", "wait_block"}
          BY <4>1 DEF IInv, Queues, CondQueues
      <4> QED BY <4>2 DEF Wait
    <3>4. cond_queue[d] # <<>> => pc'[Last(cond_queue[d])] = pc[Last(cond_queue[d])]
        BY <1>t, <1>2, <3>2, <3>3 DEF Moves, TypeOK
    <3> QED BY <1>4, <2>2, <3>4 DEF WaitersOf
  <2> QED BY <2>1, <2>2
<1>7. MWaiting' = MWaiting
    BY <1>6 DEF MWaiting
<1> QED BY <1>2, <1>3, <1>7 DEF MVars

\* The unlock within uthread_cond_wait is the wait.
LEMMA WaitUnlockMaps ==
    ASSUME IInv, LastToUnlock, NEW t \in Threads, WaitUnlock(t)
    PROVE  \E c \in Conds : M!CWait(t, c)
<1>t. TypeOK /\ Inside /\ CondQueues
    BY DEF IInv, Queues
<1>1. pc[t] = "wait_unlock" /\ Moves(t, "wait_block") /\ holder' = None /\ cond_queue' = cond_queue
    BY DEF WaitUnlock, ReleaseLock, Goto, Moves
<1>2. holder = t /\ Readers = {}
    BY <1>t, <1>1, HolderInside
<1>3. Readers' = Readers
    BY <1>t, <1>1, ReadersUnchanged DEF Moves, TypeOK
<1>4. \A s \in Threads : pc'[s] # "wait_unlock"
    BY <1>t, <1>1, <1>2 DEF Moves, TypeOK, Inside, HolderAndCount, Writers
<1>5. PICK c \in Conds : cond_queue[c] # <<>> /\ Last(cond_queue[c]) = t
    BY <1>1 DEF LastToUnlock
<1>6. \A d \in Conds : cond_queue[d] \in Seq(Threads)
    BY <1>t DEF TypeOK
<1>7. \A d \in Conds : WaitersOf(d)' = cond_queue[d]
    BY <1>1, <1>4, <1>6, AppendOfFront DEF WaitersOf
<1>8. WaitersOf(c) = Front(cond_queue[c]) /\ cond_queue[c] = Append(WaitersOf(c), t)
    BY <1>1, <1>5, <1>6, AppendOfFront DEF WaitersOf
<1>9. ASSUME NEW d \in Conds \ {c} PROVE WaitersOf(d) = cond_queue[d]
  <2> SUFFICES ASSUME cond_queue[d] # <<>>, pc[Last(cond_queue[d])] = "wait_unlock" PROVE FALSE
      BY DEF WaitersOf
  <2>1. Last(cond_queue[d]) = t
      BY <1>t, <1>2, <1>6, AppendOfFront DEF Inside, HolderAndCount, Writers
  <2>2. Len(cond_queue[d]) \in DOMAIN cond_queue[d] /\ Len(cond_queue[c]) \in DOMAIN cond_queue[c]
      BY <1>5, <1>6
  <2> QED BY <1>t, <1>5, <2>1, <2>2 DEF CondQueues, Last
<1>10. MWaiting' = [MWaiting EXCEPT ![c] = Append(@, t)]
    BY <1>7, <1>8, <1>9 DEF MWaiting
<1> QED BY <1>1, <1>2, <1>3, <1>10 DEF M!CWait, MWaiting

\* The holder wakes the first waiter, or all of them.
LEMMA WakeMaps ==
    ASSUME IInv, NEW t \in Threads, NEW c \in Conds, Signal(t, c) \/ Broadcast(t, c)
    PROVE  M!CSignal(t, c) \/ M!CBroadcast(t, c)
<1>t. TypeOK /\ Inside
    BY DEF IInv
<1>1. pc[t] = "write" /\ pc' = pc /\ holder' = holder
    BY DEF Signal, Broadcast, mutexVars
<1>2. holder = t /\ Readers' = Readers /\ \A s \in Threads : pc[s] # "wait_unlock"
    BY <1>t, <1>1, HolderInside, NobodyToUnlock DEF Readers
<1>3. cond_queue' \in [Conds -> Seq(Threads)]
    BY <1>t, TypeStep, InsideStep DEF Next, Choice, TypeOK
<1>4. \A d \in Conds : WaitersOf(d) = cond_queue[d]
    BY <1>t, <1>2, AllWait
<1>5. \A d \in Conds : WaitersOf(d)' = cond_queue'[d]
    BY <1>1, <1>2, <1>3, AppendOfFront DEF WaitersOf
<1>6. MWaiting = cond_queue /\ MWaiting' = cond_queue'
    BY <1>t, <1>3, <1>4, <1>5 DEF MWaiting, TypeOK
<1>7. CASE Signal(t, c)
  <2>1. cond_queue' = [cond_queue EXCEPT ![c] = IF @ = <<>> THEN @ ELSE Tail(@)]
      BY <1>7 DEF Signal
  <2> QED BY <1>1, <1>2, <1>6, <2>1 DEF M!CSignal, MWaiting
<1>8. CASE Broadcast(t, c)
  <2>1. cond_queue' = [cond_queue EXCEPT ![c] = <<>>]
      BY <1>8 DEF Broadcast
  <2> QED BY <1>1, <1>2, <1>6, <2>1 DEF M!CBroadcast, MWaiting
<1> QED BY <1>7, <1>8

LEMMA MonitorStep == IInv /\ LastToUnlock /\ [Next]_vars => [M!MonitorNext]_MVars
<1> SUFFICES ASSUME IInv, LastToUnlock, [Next]_vars PROVE [M!MonitorNext]_MVars
    OBVIOUS
<1>t. TypeOK
    BY DEF IInv
<1> USE DEF M!MonitorNext
<1>1. ASSUME NEW t \in Threads, Lock(t) PROVE [M!MonitorNext]_MVars
    BY <1>1, LockMaps
<1>2. ASSUME NEW t \in Threads, LockReadonly(t) PROVE [M!MonitorNext]_MVars
    BY <1>2, LockReadonlyMaps
<1>3. ASSUME NEW t \in Threads, Unlock(t) PROVE [M!MonitorNext]_MVars
    BY <1>3, UnlockMaps
<1>4. ASSUME NEW t \in Threads, WaitUnlock(t) PROVE [M!MonitorNext]_MVars
    BY <1>4, WaitUnlockMaps
<1>5. ASSUME NEW t \in Threads, Unblocked(t) \/ Call(t) PROVE [M!MonitorNext]_MVars
  <2>1. PICK l \in {"idle", "lock", "readonly"} : Moves(t, l)
      BY <1>5 DEF Unblocked, Call, Goto, Moves
  <2>2. /\ pc[t] \notin {"wait_unlock", "read"} /\ cond_queue' = cond_queue /\ holder' = holder
      BY <1>5 DEF Unblocked, Call, Blocking, mutexVars
  <2>3. MWaiting' = MWaiting /\ Readers' = Readers
      BY <1>t, <2>1, <2>2, WaitersStay, ReadersUnchanged DEF Moves, TypeOK
  <2> QED BY <2>2, <2>3 DEF MVars
<1>6. ASSUME NEW t \in Threads, NEW c \in Conds, Wait(t, c) PROVE [M!MonitorNext]_MVars
    BY <1>6, WaitMaps
<1>7. ASSUME NEW t \in Threads, NEW c \in Conds, Signal(t, c) \/ Broadcast(t, c)
      PROVE  [M!MonitorNext]_MVars
    BY <1>7, WakeMaps
<1>8. CASE UNCHANGED vars
    BY <1>8 DEF vars, mutexVars, MVars, MWaiting, WaitersOf, Readers
<1> QED BY <1>1, <1>2, <1>3, <1>4, <1>5, <1>6, <1>7, <1>8 DEF Next, Progress, Choice

\* The mutex and its condition variables are the monitor of the header, over which
\* the programs are modelled, for any number of threads and conditions.
THEOREM Implementation == Spec => ImplementsMonitor
<1>1. Init => M!MonitorInit
  <2> SUFFICES ASSUME Init PROVE M!MonitorInit
      OBVIOUS
  <2>1. Readers = {}
      BY DEF Init, Readers
  <2>2. MWaiting = [c \in Conds |-> <<>>]
      BY DEF Init, MWaiting, WaitersOf
  <2> QED BY <2>1, <2>2 DEF Init, M!MonitorInit, MWaiting
<1>2. Init => LastToUnlock
    BY DEF Init, LastToUnlock
<1>3. IInv /\ LastToUnlock /\ [Next]_vars => LastToUnlock'
    BY LastToUnlockStep
<1>4. IInv /\ LastToUnlock /\ [Next]_vars => [M!MonitorNext]_(M!monitorVars)
    BY MonitorStep DEF MVars, MWaiting, M!monitorVars
<1> QED BY <1>1, <1>2, <1>3, <1>4, Invariance, PTL DEF Spec, ImplementsMonitor, M!MonitorSpec
=============================================================================
