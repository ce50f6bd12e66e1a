-------------------------- MODULE UthreadSem_proofs --------------------------
(***************************************************************************)
(* Both versions of uthread_sem.c implement the semaphore, for any finite  *)
(* set of threads and any initial value.                                   *)
(*                                                                         *)
(* A permit that a signal hands over is in no field: it is a thread that   *)
(* was dequeued and has not returned from uthread_block.  Counting those   *)
(* threads right needs a dequeued thread not to be counted already, which  *)
(* is what Queue says: queued threads are blocked, not woken, and queued   *)
(* once.                                                                   *)
(***************************************************************************)
EXTENDS UthreadSem, FiniteSetTheorems, SequenceTheorems, TLAPS

Queue ==
    /\ \A i \in DOMAIN waiter_queue :
          pc[waiter_queue[i]] = "block" /\ waiter_queue[i] \notin woken
    /\ \A i, j \in DOMAIN waiter_queue : waiter_queue[i] = waiter_queue[j] => i = j
    /\ \A t \in woken : pc[t] = "block"

IInv == TypeOK /\ ValueCountsWaiters /\ Queue

PCs == {"idle", "wait", "block", "holding"}

\* The threads that have been handed a permit are finitely many.
LEMMA WokenFinite ==
    ASSUME TypeOK
    PROVE  IsFiniteSet(woken) /\ Cardinality(woken) \in Nat
<1>1. woken \subseteq Threads
    BY DEF TypeOK
<1>2. IsFiniteSet(woken)
    BY <1>1, FS_Subset, FiniteAssumption
<1> QED BY <1>2, FS_CardinalityType

-----------------------------------------------------------------------------
(* uthread_sem_signal.                                                     *)

\* A signal that finds a waiter hands it a permit it did not have.
LEMMA PutDequeues ==
    ASSUME IInv, Put, waiter_queue # <<>>
    PROVE  /\ waiter_queue[1] \in Threads /\ waiter_queue[1] \notin woken
           /\ pc[waiter_queue[1]] = "block"
           /\ woken' = woken \cup {waiter_queue[1]}
           /\ waiter_queue' = Tail(waiter_queue)
           /\ waiter_queue' \in Seq(Threads)
           /\ Len(waiter_queue') = Len(waiter_queue) - 1
           /\ \A i \in DOMAIN waiter_queue' :
                 /\ i \in Nat /\ i + 1 \in DOMAIN waiter_queue
                 /\ waiter_queue'[i] = waiter_queue[i + 1]
           /\ IsFiniteSet(woken')
           /\ Cardinality(woken') = Cardinality(woken) + 1
<1>1. waiter_queue \in Seq(Threads) /\ 1 \in DOMAIN waiter_queue
      /\ Head(waiter_queue) = waiter_queue[1] /\ Len(waiter_queue) \in Nat
    BY DEF IInv, TypeOK
<1>2. Tail(waiter_queue) \in Seq(Threads) /\ Len(Tail(waiter_queue)) = Len(waiter_queue) - 1
      /\ \A i \in 1..(Len(waiter_queue) - 1) : Tail(waiter_queue)[i] = waiter_queue[i + 1]
    BY <1>1
<1>3. woken' = woken \cup {waiter_queue[1]} /\ waiter_queue' = Tail(waiter_queue)
    BY <1>1 DEF Put
<1>4. waiter_queue[1] \in Threads /\ waiter_queue[1] \notin woken /\ pc[waiter_queue[1]] = "block"
    BY <1>1 DEF IInv, Queue
<1>5. IsFiniteSet(woken') /\ Cardinality(woken') = Cardinality(woken) + 1
    BY <1>3, <1>4, WokenFinite, FS_AddElement DEF IInv
<1>6. \A i \in DOMAIN waiter_queue' : /\ i \in Nat /\ i + 1 \in DOMAIN waiter_queue
                                      /\ waiter_queue'[i] = waiter_queue[i + 1]
    BY <1>1, <1>2, <1>3
<1> QED BY <1>1, <1>2, <1>3, <1>4, <1>5, <1>6

\* A signal keeps the invariant, for a caller that is on no queue.
LEMMA PutInv ==
    ASSUME IInv, Put, NEW t \in Threads, pc[t] # "block", NEW l \in PCs,
           pc' = [pc EXCEPT ![t] = l]
    PROVE  IInv'
<1>t. waiter_queue \in Seq(Threads) /\ woken \subseteq Threads /\ value \in Int
      /\ pc \in [Threads -> PCs] /\ version \in Versions
    BY DEF IInv, TypeOK, PCs
<1>v. value' = value + 1 /\ version' = version
    BY DEF Put
<1>1. CASE waiter_queue # <<>>
  <2>1. TypeOK'
      BY <1>1, <1>t, <1>v, PutDequeues DEF TypeOK, PCs
  <2>2. ValueCountsWaiters'
      BY <1>1, <1>t, <1>v, PutDequeues DEF IInv, ValueCountsWaiters
  <2>3. \A i \in DOMAIN waiter_queue' :
            /\ waiter_queue'[i] \notin woken' /\ pc'[waiter_queue'[i]] = "block"
    <3> TAKE i \in DOMAIN waiter_queue'
    <3>1. i \in Nat /\ i + 1 \in DOMAIN waiter_queue /\ 1 \in DOMAIN waiter_queue /\ i + 1 # 1
          /\ waiter_queue'[i] = waiter_queue[i + 1]
        BY <1>1, <1>t, PutDequeues
    <3>2. waiter_queue[i + 1] # waiter_queue[1] /\ waiter_queue[i + 1] \notin woken
          /\ pc[waiter_queue[i + 1]] = "block"
        BY <3>1 DEF IInv, Queue
    <3> QED BY <1>1, <1>t, <3>1, <3>2, PutDequeues
  <2>4. \A i, j \in DOMAIN waiter_queue' : waiter_queue'[i] = waiter_queue'[j] => i = j
    <3> TAKE i, j \in DOMAIN waiter_queue'
    <3>1. waiter_queue[i + 1] = waiter_queue[j + 1] => i + 1 = j + 1
        BY <1>1, PutDequeues DEF IInv, Queue
    <3> QED BY <1>1, <3>1, PutDequeues
  <2>5. \A s \in woken' : pc'[s] = "block"
      BY <1>1, <1>t, PutDequeues DEF IInv, Queue
  <2> QED BY <2>1, <2>2, <2>3, <2>4, <2>5 DEF IInv, Queue
<1>2. CASE waiter_queue = <<>>
  <2>1. UNCHANGED <<waiter_queue, woken>>
      BY <1>2 DEF Put
  <2>2. TypeOK'
      BY <1>t, <1>v, <2>1 DEF TypeOK, PCs
  <2>3. ValueCountsWaiters'
      BY <1>2, <1>t, <1>v, <2>1 DEF IInv, ValueCountsWaiters
  <2>4. Queue'
      BY <1>t, <2>1 DEF IInv, Queue
  <2> QED BY <2>2, <2>3, <2>4 DEF IInv
<1> QED BY <1>1, <1>2

-----------------------------------------------------------------------------
(* uthread_sem_wait.                                                       *)

\* A thread that starts to wait is queued last, and blocks.
LEMMA EnqueueQueue ==
    ASSUME IInv, NEW t \in Threads, pc[t] = "wait",
           waiter_queue' = Append(waiter_queue, t), pc' = [pc EXCEPT ![t] = "block"],
           woken' = woken
    PROVE  /\ Queue' /\ waiter_queue' \in Seq(Threads)
           /\ Len(waiter_queue') = Len(waiter_queue) + 1
<1>1. waiter_queue \in Seq(Threads) /\ pc \in [Threads -> PCs] /\ t \notin woken
    BY DEF IInv, TypeOK, Queue, PCs
<1>2. waiter_queue' \in Seq(Threads) /\ Len(waiter_queue') = Len(waiter_queue) + 1
    BY <1>1, AppendProperties
<1>3. \A i \in DOMAIN waiter_queue' :
         \/ i \in DOMAIN waiter_queue /\ waiter_queue'[i] = waiter_queue[i]
         \/ i = Len(waiter_queue) + 1 /\ waiter_queue'[i] = t
    BY <1>1, AppendProperties
<1>4. \A i \in DOMAIN waiter_queue : waiter_queue[i] # t
    BY DEF IInv, Queue
<1>5. Queue'
    BY <1>1, <1>3, <1>4 DEF IInv, Queue
<1> QED BY <1>2, <1>5

\* A thread that moves without touching the semaphore's queue.
LEMMA MoveQueue ==
    ASSUME IInv, NEW t \in Threads, pc[t] # "block" \/ t \in woken, NEW l \in PCs,
           pc' = [pc EXCEPT ![t] = l], UNCHANGED waiter_queue, woken' = woken \ {t}
    PROVE  Queue'
BY DEF IInv, TypeOK, Queue, PCs

\* The invariant is inductive.
LEMMA InvStep == IInv /\ [Next]_vars => IInv'
<1> SUFFICES ASSUME IInv, [Next]_vars PROVE IInv'
    OBVIOUS
<1>t. waiter_queue \in Seq(Threads) /\ woken \subseteq Threads /\ value \in Int
      /\ pc \in [Threads -> PCs] /\ version \in Versions /\ Len(waiter_queue) \in Nat
    BY DEF IInv, TypeOK, PCs
<1>w. \A t \in Threads : pc[t] # "block" => woken \ {t} = woken
    BY DEF IInv, Queue
<1>1. ASSUME NEW t \in Threads, WaitHandoff(t) PROVE IInv'
  <2>1. CASE value - 1 < 0
    <3>1. Queue' /\ waiter_queue' \in Seq(Threads) /\ Len(waiter_queue') = Len(waiter_queue) + 1
        BY <1>1, <2>1, EnqueueQueue DEF WaitHandoff, Goto
    <3>2. ValueCountsWaiters'
        BY <1>1, <1>t, <2>1, <3>1 DEF WaitHandoff, IInv, ValueCountsWaiters
    <3>3. TypeOK'
        BY <1>1, <1>t, <2>1, <3>1 DEF WaitHandoff, Goto, TypeOK, PCs
    <3> QED BY <3>1, <3>2, <3>3 DEF IInv
  <2>2. CASE ~(value - 1 < 0)
    <3>1. Queue'
        BY <1>1, <1>w, <2>2, MoveQueue DEF WaitHandoff, Goto, PCs
    <3>2. ValueCountsWaiters' /\ TypeOK'
        BY <1>1, <1>t, <2>2 DEF WaitHandoff, Goto, IInv, ValueCountsWaiters, TypeOK, PCs
    <3> QED BY <3>1, <3>2 DEF IInv
  <2> QED BY <2>1, <2>2
<1>2. ASSUME NEW t \in Threads, WaitRetest(t) PROVE IInv'
  <2>1. CASE value < 1
    <3>1. Queue' /\ waiter_queue' \in Seq(Threads)
        BY <1>2, <2>1, EnqueueQueue DEF WaitRetest, Goto
    <3>2. ValueCountsWaiters' /\ TypeOK'
        BY <1>2, <1>t, <2>1, <3>1 DEF WaitRetest, Goto, IInv, ValueCountsWaiters, TypeOK, PCs
    <3> QED BY <3>1, <3>2 DEF IInv
  <2>2. CASE ~(value < 1)
    <3>1. Queue'
        BY <1>2, <1>w, <2>2, MoveQueue DEF WaitRetest, Goto, PCs
    <3>2. ValueCountsWaiters' /\ TypeOK'
        BY <1>2, <1>t, <2>2 DEF WaitRetest, Goto, IInv, ValueCountsWaiters, TypeOK, PCs
    <3> QED BY <3>1, <3>2 DEF IInv
  <2> QED BY <2>1, <2>2
<1>3. ASSUME NEW t \in Threads, UnblockedHandoff(t) \/ UnblockedRetest(t) PROVE IInv'
  <2>1. Queue'
      BY <1>3, MoveQueue DEF UnblockedHandoff, UnblockedRetest, Goto, PCs
  <2>2. ValueCountsWaiters' /\ TypeOK'
      BY <1>3, <1>t DEF UnblockedHandoff, UnblockedRetest, Goto, IInv, ValueCountsWaiters, TypeOK, PCs
  <2> QED BY <2>1, <2>2 DEF IInv
<1>4. ASSUME NEW t \in Threads, Call(t) PROVE IInv'
  <2>1. Queue'
      BY <1>4, <1>w, MoveQueue DEF Call, Goto, PCs
  <2>2. ValueCountsWaiters' /\ TypeOK'
      BY <1>4, <1>t DEF Call, Goto, IInv, ValueCountsWaiters, TypeOK, PCs
  <2> QED BY <2>1, <2>2 DEF IInv
<1>5. ASSUME NEW t \in Threads, Signal(t) PROVE IInv'
    BY <1>5, PutInv DEF Signal, Goto, PCs
<1>6. ASSUME NEW t \in Threads, Add(t) PROVE IInv'
  <2>1. pc' = [pc EXCEPT ![t] = "idle"]
      BY <1>6, <1>t DEF Add
  <2> QED BY <1>6, <2>1, PutInv DEF Add, PCs
<1>7. CASE UNCHANGED vars
    BY <1>7 DEF vars, IInv, TypeOK, ValueCountsWaiters, Queue
<1> QED BY <1>1, <1>2, <1>3, <1>4, <1>5, <1>6, <1>7 DEF Next, Progress

\* uthread_sem_create establishes the invariant.
LEMMA InitInv == Init => IInv
<1> SUFFICES ASSUME Init PROVE IInv
    OBVIOUS
<1>1. TypeOK
    BY InitialAssumption DEF Init, TypeOK
<1>2. ValueCountsWaiters
    BY InitialAssumption DEF Init, ValueCountsWaiters, Versions
<1>3. Queue
    BY DEF Init, Queue
<1> QED BY <1>1, <1>2, <1>3 DEF IInv

\* IInv is an invariant.
THEOREM Invariance == Spec => []IInv
BY InitInv, InvStep, PTL DEF Spec

\* In a10 and a11 a negative value counts the waiters; in examples/uthread value
\* never falls below zero.
THEOREM Values == Spec => []ValueCountsWaiters
<1>1. IInv => ValueCountsWaiters
    BY DEF IInv
<1> QED BY Invariance, <1>1, PTL

-----------------------------------------------------------------------------
(* No wakeup is lost.                                                      *)

\* The threads on their way are finitely many.
LEMMA OnItsWayFinite == IsFiniteSet(OnItsWay) /\ Cardinality(OnItsWay) \in Nat
<1>1. OnItsWay \subseteq Threads
    BY DEF OnItsWay
<1>2. IsFiniteSet(OnItsWay)
    BY <1>1, FS_Subset, FiniteAssumption
<1> QED BY <1>2, FS_CardinalityType

\* With hand-off every permit nobody holds belongs to a woken thread while
\* others wait, for then value is negative.
LEMMA HandoffWakes == IInv /\ version = "handoff" => NoLostWakeup
<1> SUFFICES ASSUME IInv, version = "handoff", waiter_queue # <<>>
             PROVE  Cardinality(OnItsWay) >= Permits
    BY DEF NoLostWakeup
<1>1. value < 0 /\ value \in Int
    BY DEF IInv, TypeOK, ValueCountsWaiters
<1>2. Permits = Cardinality(woken)
    BY <1>1, WokenFinite DEF IInv, Permits
<1>3. woken \subseteq OnItsWay
    BY DEF IInv, TypeOK, Queue, OnItsWay
<1>4. Cardinality(woken) <= Cardinality(OnItsWay)
    BY <1>3, OnItsWayFinite, FS_Subset
<1> QED BY <1>2, <1>4, OnItsWayFinite, WokenFinite DEF IInv

\* With re-testing a signal that finds a waiter sends one more thread on its way.
LEMMA PutWakes ==
    ASSUME IInv, Put, version = "retest", NoLostWakeup,
           NEW t \in Threads, pc[t] \in {"idle", "holding"}, pc' = [pc EXCEPT ![t] = "idle"]
    PROVE  NoLostWakeup'
<1>t. pc \in [Threads -> PCs] /\ woken \subseteq Threads /\ value \in Int
    BY DEF IInv, TypeOK, PCs
<1>1. CASE waiter_queue # <<>>
  <2> DEFINE h == waiter_queue[1]
  <2>1. h \in Threads /\ h \notin woken /\ pc[h] = "block" /\ woken' = woken \cup {h}
      BY <1>1, PutDequeues
  <2>2. h \notin OnItsWay /\ OnItsWay' = OnItsWay \cup {h}
      BY <1>t, <2>1 DEF OnItsWay
  <2>3. Cardinality(OnItsWay') = Cardinality(OnItsWay) + 1
      BY <2>2, OnItsWayFinite, FS_AddElement
  <2>4. Permits = value /\ Permits' = value + 1
      BY DEF Put, Permits
  <2>5. Cardinality(OnItsWay) >= value
      BY <1>1, <2>4 DEF NoLostWakeup
  <2> QED BY <1>t, <2>3, <2>4, <2>5, OnItsWayFinite DEF NoLostWakeup
<1>2. CASE waiter_queue = <<>>
    BY <1>2 DEF Put, NoLostWakeup
<1> QED BY <1>1, <1>2

\* With re-testing no step takes a thread off its way without its permit.
LEMMA RetestWakes == IInv /\ NoLostWakeup /\ version = "retest" /\ [Next]_vars => NoLostWakeup'
<1> SUFFICES ASSUME IInv, NoLostWakeup, version = "retest", [Next]_vars PROVE NoLostWakeup'
    OBVIOUS
<1>t. /\ pc \in [Threads -> PCs] /\ woken \subseteq Threads /\ value \in Int /\ value >= 0
      /\ Permits = value
    BY DEF IInv, TypeOK, PCs, ValueCountsWaiters, Permits
<1>c. Cardinality(OnItsWay) \in Nat
    BY OnItsWayFinite
<1>1. ASSUME NEW t \in Threads, WaitRetest(t) PROVE NoLostWakeup'
  <2>1. CASE value < 1
    <3>1. Permits' = 0
        BY <1>1, <1>t, <2>1 DEF WaitRetest, Permits
    <3>2. Cardinality(OnItsWay)' \in Nat
      <4>1. OnItsWay' \subseteq Threads
          BY DEF OnItsWay
      <4>2. IsFiniteSet(OnItsWay')
          BY <4>1, FS_Subset, FiniteAssumption
      <4> QED BY <4>2, FS_CardinalityType
    <3> QED BY <3>1, <3>2 DEF NoLostWakeup
  <2>2. CASE ~(value < 1)
    <3>1. pc' = [pc EXCEPT ![t] = "holding"] /\ pc[t] = "wait" /\ value' = value - 1
          /\ UNCHANGED <<version, waiter_queue, woken>>
        BY <1>1, <2>2 DEF WaitRetest, Goto
    <3>2. t \in OnItsWay /\ OnItsWay' = OnItsWay \ {t}
        BY <1>t, <3>1 DEF OnItsWay
    <3>3. Cardinality(OnItsWay') = Cardinality(OnItsWay) - 1
        BY <3>2, OnItsWayFinite, FS_RemoveElement
    <3>4. Permits' = value - 1
        BY <3>1 DEF Permits
    <3> QED BY <1>t, <1>c, <3>1, <3>3, <3>4 DEF NoLostWakeup
  <2> QED BY <2>1, <2>2
<1>2. ASSUME NEW t \in Threads, UnblockedRetest(t) PROVE NoLostWakeup'
  <2>1. OnItsWay' = OnItsWay
      BY <1>2, <1>t DEF UnblockedRetest, Goto, OnItsWay
  <2> QED BY <1>2, <2>1 DEF UnblockedRetest, NoLostWakeup, Permits
<1>3. ASSUME NEW t \in Threads, Call(t) PROVE NoLostWakeup'
  <2>1. t \notin OnItsWay /\ OnItsWay' = OnItsWay \cup {t}
      BY <1>3, <1>t DEF Call, Goto, OnItsWay
  <2>2. Cardinality(OnItsWay') = Cardinality(OnItsWay) + 1
      BY <2>1, OnItsWayFinite, FS_AddElement
  <2>3. Permits' = Permits /\ waiter_queue' = waiter_queue
      BY <1>3 DEF Call, Permits
  <2> QED BY <1>t, <1>c, <2>2, <2>3 DEF NoLostWakeup
<1>4. ASSUME NEW t \in Threads, Signal(t) \/ Add(t) PROVE NoLostWakeup'
  <2>1. pc[t] \in {"idle", "holding"} /\ Put /\ pc' = [pc EXCEPT ![t] = "idle"]
      BY <1>4, <1>t DEF Signal, Add, Goto
  <2> QED BY <2>1, PutWakes
<1>5. CASE UNCHANGED vars
    BY <1>5 DEF vars, NoLostWakeup, OnItsWay, Permits
<1> QED BY <1>1, <1>2, <1>3, <1>4, <1>5 DEF Next, Progress, WaitHandoff, UnblockedHandoff

\* While threads are queued, as many threads are on their way to the semaphore as
\* there are permits nobody holds: no signal is lost, in either version.
THEOREM WakeupsArrive == Spec => []NoLostWakeup
<1>1. IInv /\ NoLostWakeup /\ [Next]_vars => NoLostWakeup'
  <2> SUFFICES ASSUME IInv, NoLostWakeup, [Next]_vars PROVE NoLostWakeup'
      OBVIOUS
  <2>1. version \in Versions /\ version' = version
      BY DEF IInv, TypeOK, Next, Progress, Call, WaitHandoff, UnblockedHandoff, WaitRetest,
             UnblockedRetest, Signal, Add, Put, vars
  <2>2. CASE version = "handoff"
    <3>1. IInv'
        BY InvStep
    <3>2. (IInv /\ version = "handoff" => NoLostWakeup)'
        BY HandoffWakes, PTL
    <3> QED BY <2>1, <2>2, <3>1, <3>2
  <2>3. CASE version = "retest"
      BY <2>3, RetestWakes
  <2> QED BY <2>1, <2>2, <2>3 DEF Versions
<1>2. Init => NoLostWakeup
    BY DEF Init, NoLostWakeup
<1> QED BY <1>1, <1>2, Invariance, PTL DEF Spec

-----------------------------------------------------------------------------
(* The semaphore.                                                          *)

\* A signal is one V.
LEMMA PutIsV == IInv /\ Put => Permits' = Permits + 1
<1> SUFFICES ASSUME IInv, Put PROVE Permits' = Permits + 1
    OBVIOUS
<1>t. value \in Int /\ version \in Versions /\ Cardinality(woken) \in Nat
      /\ Len(waiter_queue) \in Nat /\ waiter_queue \in Seq(Threads)
    BY WokenFinite DEF IInv, TypeOK
<1>1. CASE waiter_queue # <<>>
  <2>1. Cardinality(woken') = Cardinality(woken) + 1 /\ Len(waiter_queue) > 0
      BY <1>1, <1>t, PutDequeues
  <2> QED BY <1>t, <2>1 DEF Put, Permits, IInv, ValueCountsWaiters
<1>2. CASE waiter_queue = <<>>
    BY <1>2, <1>t DEF Put, Permits, IInv, ValueCountsWaiters
<1> QED BY <1>1, <1>2

\* The steps of the abstract semaphore, for the one semaphore there is.
LEMMA IsV == Permits' = Permits + 1 => S!V("sem")
BY DEF S!V, PermitsOf
LEMMA IsP == Permits > 0 /\ Permits' = Permits - 1 => S!P("sem")
BY DEF S!P, PermitsOf
LEMMA IsStutter == Permits' = Permits => UNCHANGED PermitsOf
BY DEF PermitsOf

\* Every step of the code is a P, a V or no step of the semaphore: with hand-off
\* a wait that blocks is a P when uthread_block returns.
LEMMA StepSimulates == IInv /\ [Next]_vars => [S!SemNext]_PermitsOf
<1> SUFFICES ASSUME IInv, [Next]_vars PROVE [S!SemNext]_PermitsOf
    OBVIOUS
<1>t. value \in Int /\ version \in Versions /\ woken \subseteq Threads
      /\ IsFiniteSet(woken) /\ Cardinality(woken) \in Nat
    BY WokenFinite DEF IInv, TypeOK
<1>p. S!P("sem") \/ S!V("sem") \/ UNCHANGED PermitsOf => [S!SemNext]_PermitsOf
    BY DEF S!SemNext
<1>1. ASSUME NEW t \in Threads, WaitHandoff(t) PROVE [S!SemNext]_PermitsOf
  <2>1. CASE value - 1 < 0
    <3>1. Permits' = Permits
        BY <1>1, <1>t, <2>1 DEF WaitHandoff, Permits
    <3> QED BY <1>p, <3>1, IsStutter
  <2>2. CASE ~(value - 1 < 0)
    <3>1. Permits > 0 /\ Permits' = Permits - 1
        BY <1>1, <1>t, <2>2 DEF WaitHandoff, Permits
    <3> QED BY <1>p, <3>1, IsP
  <2> QED BY <2>1, <2>2
<1>2. ASSUME NEW t \in Threads, UnblockedHandoff(t) PROVE [S!SemNext]_PermitsOf
  <2>1. Cardinality(woken') = Cardinality(woken) - 1 /\ Cardinality(woken') \in Nat
    <3>1. woken' = woken \ {t} /\ t \in woken
        BY <1>2 DEF UnblockedHandoff
    <3>2. Cardinality(woken') = Cardinality(woken) - 1 /\ IsFiniteSet(woken')
        BY <1>t, <3>1, FS_RemoveElement
    <3> QED BY <3>2, FS_CardinalityType
  <2>2. Permits > 0 /\ Permits' = Permits - 1
      BY <1>2, <1>t, <2>1 DEF UnblockedHandoff, Permits
  <2> QED BY <1>p, <2>2, IsP
<1>3. ASSUME NEW t \in Threads, WaitRetest(t) PROVE [S!SemNext]_PermitsOf
  <2>1. CASE value < 1
    <3>1. Permits' = Permits
        BY <1>3, <2>1 DEF WaitRetest, Permits
    <3> QED BY <1>p, <3>1, IsStutter
  <2>2. CASE ~(value < 1)
    <3>1. Permits > 0 /\ Permits' = Permits - 1
        BY <1>3, <1>t, <2>2 DEF WaitRetest, Permits
    <3> QED BY <1>p, <3>1, IsP
  <2> QED BY <2>1, <2>2
<1>4. ASSUME NEW t \in Threads, UnblockedRetest(t) \/ Call(t) PROVE [S!SemNext]_PermitsOf
  <2>1. Permits' = Permits
      BY <1>4 DEF UnblockedRetest, Call, Permits
  <2> QED BY <1>p, <2>1, IsStutter
<1>5. ASSUME NEW t \in Threads, Signal(t) \/ Add(t) PROVE [S!SemNext]_PermitsOf
    BY <1>5, <1>p, PutIsV, IsV DEF Signal, Add
<1>6. CASE UNCHANGED vars
  <2>1. Permits' = Permits
      BY <1>6 DEF vars, Permits
  <2> QED BY <1>p, <2>1, IsStutter
<1> QED BY <1>1, <1>2, <1>3, <1>4, <1>5, <1>6 DEF Next, Progress

\* Both versions of uthread_sem.c implement the semaphore of uthread_sem.h.
THEOREM Implementation == Spec => ImplementsSemaphore
<1>1. Init => S!SemInit
  <2> SUFFICES ASSUME Init PROVE PermitsOf = [s \in {"sem"} |-> InitialValue]
      BY DEF S!SemInit
  <2>1. Permits = InitialValue
      BY FS_EmptySet, InitialAssumption DEF Init, Permits
  <2> QED BY <2>1 DEF PermitsOf
<1> QED BY <1>1, Invariance, StepSimulates, PTL DEF Spec, ImplementsSemaphore, S!SemSpec
=============================================================================
