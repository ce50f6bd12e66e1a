--------------------------- MODULE MCPackage_proofs --------------------------
(***************************************************************************)
(* Proofs about the parts of the uthread package that MCPackage puts       *)
(* together.                                                               *)
(***************************************************************************)
EXTENDS MCPackage, FiniteSetTheorems, SequenceTheorems, TLAPS

-----------------------------------------------------------------------------
(***************************************************************************)
(* The intrusive queues stay linked, whatever is enqueued and dequeued:    *)
(* QueuesLinked of UthreadQueue, with the types, is inductive.             *)
(***************************************************************************)

QueueTypes ==
    /\ head \in [Queues -> TCBs \cup {Null}]
    /\ tail \in [Queues -> TCBs \cup {Null}]
    /\ next \in [TCBs -> TCBs \cup {Null}]
    /\ content \in [Queues -> Seq(TCBs)]

\* The parts of QueuesLinked.
AllLinked == \A q \in Queues : LinkedThrough(q)
Apart == \A q, r \in Queues : \A i \in DOMAIN content[q], j \in DOMAIN content[r] :
            content[q][i] = content[r][j] => q = r /\ i = j
NoneLeft == \A t \in TCBs : next[t] # Null => \E q \in Queues : On(q, t)

QInv == QueueTypes /\ AllLinked /\ Apart /\ NoneLeft

LEMMA EmptyWhenNoElements ==
    ASSUME NEW s \in Seq(TCBs), Len(s) = 0
    PROVE  s = <<>>
OBVIOUS

\* What uthread_enqueue takes for queued is on a queue.
LEMMA QueuedIsOn ==
    ASSUME QInv, NEW q \in Queues, NEW t \in TCBs, Enqueued(q, t)
    PROVE  \E r \in Queues : On(r, t)
<1>1. CASE next[t] # Null
  BY <1>1 DEF QInv, NoneLeft
<1>2. CASE t = tail[q]
  <2>1. content[q] \in Seq(TCBs) /\ content[q] # <<>>
    BY <1>2, NullAssumption DEF QInv, QueueTypes, AllLinked, LinkedThrough
  <2>2. content[q][Len(content[q])] = t /\ Len(content[q]) \in DOMAIN content[q]
    BY <1>2, <2>1 DEF QInv, AllLinked, LinkedThrough
  <2>. QED BY <2>2 DEF On
<1>. QED BY <1>1, <1>2 DEF Enqueued

\* And what it takes for free is on no queue, unless it is last on another one.
LEMMA FreeIsOnNone ==
    ASSUME QInv, NEW q \in Queues, NEW t \in TCBs, ~Enqueued(q, t),
           \A r \in Queues \ {q} : tail[r] # t
    PROVE  \A r \in Queues : ~On(r, t)
<1>. SUFFICES ASSUME NEW r \in Queues, NEW i \in DOMAIN content[r], content[r][i] = t
              PROVE  FALSE
  BY DEF On
<1>1. content[r] \in Seq(TCBs) /\ LinkedThrough(r)
  BY DEF QInv, QueueTypes, AllLinked
<1>2. i \in 1..Len(content[r]) /\ content[r] # <<>>
  BY <1>1
<1>3. CASE i = Len(content[r])
  <2>1. tail[r] = t
    BY <1>1, <1>2, <1>3 DEF LinkedThrough
  <2>. QED BY <2>1 DEF Enqueued
<1>4. CASE i < Len(content[r])
  <2>1. next[t] = content[r][i + 1] /\ content[r][i + 1] \in TCBs
    BY <1>1, <1>2, <1>4 DEF LinkedThrough
  <2>. QED BY <2>1, NullAssumption DEF Enqueued
<1>. QED BY <1>2, <1>3, <1>4

LEMMA EnqueueKeeps ==
    ASSUME QInv, NEW q \in Queues, NEW t \in TCBs, uthread_enqueue(q, t)
    PROVE  QInv'
<1>1. CASE Enqueued(q, t)
  <2>1. UNCHANGED linkVars
    BY <1>1, QueuedIsOn DEF uthread_enqueue, linkVars
  <2>. QED BY <2>1 DEF linkVars, pointers, QInv, QueueTypes, AllLinked, LinkedThrough, Apart, NoneLeft, On
<1>2. CASE ~Enqueued(q, t)
  <2>. DEFINE c == content[q]
  <2>1. \A r \in Queues : ~On(r, t)
    BY <1>2, FreeIsOnNone DEF uthread_enqueue
  <2>2. /\ content' = [content EXCEPT ![q] = Append(@, t)]
        /\ next' = [u \in TCBs |-> IF u = tail[q] THEN t ELSE next[u]]
        /\ tail' = [tail EXCEPT ![q] = t]
        /\ head' = IF head[q] = Null THEN [head EXCEPT ![q] = t] ELSE head
    BY <1>2, <2>1 DEF uthread_enqueue
  <2>3. c \in Seq(TCBs) /\ LinkedThrough(q) /\ next[t] = Null
    BY <1>2 DEF QInv, QueueTypes, AllLinked, Enqueued
  <2>4. /\ content'[q] = Append(c, t) /\ Len(Append(c, t)) = Len(c) + 1
        /\ \A i \in 1..Len(c) : Append(c, t)[i] = c[i]
        /\ Append(c, t)[Len(c) + 1] = t
        /\ \A r \in Queues \ {q} : content'[r] = content[r]
    BY <2>2, <2>3 DEF QInv, QueueTypes
  <2>5. QueueTypes'
    BY <2>2, <2>3 DEF QInv, QueueTypes
  <2>6. ASSUME NEW r \in Queues, NEW i \in DOMAIN content[r], content[r][i] = tail[q]
        PROVE  r = q /\ i = Len(c)
    <3>1. content[r] \in Seq(TCBs) /\ content[r][i] \in TCBs
      BY DEF QInv, QueueTypes
    <3>2. c # <<>> /\ tail[q] = c[Len(c)]
      BY <2>3, <2>6, <3>1, NullAssumption DEF LinkedThrough
    <3>3. Len(c) \in DOMAIN c
      BY <2>3, <3>2
    <3>. QED BY <2>6, <3>2, <3>3 DEF QInv, Apart
  <2>7. AllLinked'
    <3>. SUFFICES ASSUME NEW r \in Queues PROVE LinkedThrough(r)'
      BY DEF AllLinked
    <3>1. CASE r # q
      <4>1. content'[r] = content[r] /\ head'[r] = head[r] /\ tail'[r] = tail[r]
        BY <2>2, <2>4, <3>1 DEF QInv, QueueTypes
      <4>2. content[r] \in Seq(TCBs) /\ LinkedThrough(r)
        BY DEF QInv, QueueTypes, AllLinked
      <4>3. \A i \in DOMAIN content[r] : next'[content[r][i]] = next[content[r][i]]
        BY <2>2, <2>6, <3>1, <4>2
      <4>4. \A i \in 1..Len(content[r]) : next'[content[r][i]] = next[content[r][i]]
        BY <4>2, <4>3
      <4>. QED BY <4>1, <4>2, <4>4 DEF LinkedThrough
    <3>2. CASE r = q
      <4>1. CASE c = <<>>
        <5>1. head[q] = Null /\ tail[q] = Null
          BY <2>3, <4>1 DEF LinkedThrough
        <5>2. head'[q] = t /\ tail'[q] = t
          BY <2>2, <5>1 DEF QInv, QueueTypes
        <5>3. next'[t] = Null
          BY <2>2, <2>3, <5>1, NullAssumption
        <5>4. content'[q] = <<t>>
          BY <2>4, <4>1
        <5>. QED BY <3>2, <5>2, <5>3, <5>4 DEF LinkedThrough
      <4>2. CASE c # <<>>
        <5>1. /\ head[q] = c[1] /\ tail[q] = c[Len(c)] /\ next[c[Len(c)]] = Null
              /\ \A i \in 1..(Len(c) - 1) : next[c[i]] = c[i + 1]
              /\ Len(c) \in Nat \ {0} /\ c[1] \in TCBs /\ c[Len(c)] \in TCBs
          BY <2>3, <4>2 DEF LinkedThrough
        <5>2. head'[q] = c[1] /\ tail'[q] = t
          BY <2>2, <5>1, NullAssumption DEF QInv, QueueTypes
        <5>3. next'[t] = Null
          BY <1>2, <2>2, <2>3 DEF Enqueued
        <5>4. next'[c[Len(c)]] = t
          BY <2>2, <5>1
        <5>5. \A i \in 1..(Len(c) - 1) : next'[c[i]] = c[i + 1]
          <6>. SUFFICES ASSUME NEW i \in 1..(Len(c) - 1) PROVE next'[c[i]] = c[i + 1]
            OBVIOUS
          <6>1. i \in DOMAIN c /\ i # Len(c) /\ c[i] \in TCBs
            BY <2>3, <5>1
          <6>2. c[i] # tail[q]
            BY <2>6, <6>1
          <6>. QED BY <2>2, <5>1, <6>1, <6>2
        <5>6. \A i \in 1..Len(c) : next'[content'[q][i]] = content'[q][i + 1]
          <6>. SUFFICES ASSUME NEW i \in 1..Len(c) PROVE next'[content'[q][i]] = content'[q][i + 1]
            OBVIOUS
          <6>1. CASE i = Len(c)
            BY <2>4, <5>1, <5>4, <6>1
          <6>2. CASE i # Len(c)
            <7>1. i \in 1..(Len(c) - 1) /\ i + 1 \in 1..Len(c)
              BY <5>1, <6>2
            <7>. QED BY <2>4, <5>5, <7>1
          <6>. QED BY <6>1, <6>2
        <5>7. content'[q][1] = c[1] /\ Len(content'[q]) = Len(c) + 1 /\ content'[q][Len(c) + 1] = t
          BY <2>4, <5>1
        <5>8. content'[q] # <<>> /\ Len(content'[q]) - 1 = Len(c)
          BY <5>1, <5>7
        <5>. QED BY <3>2, <5>2, <5>3, <5>6, <5>7, <5>8 DEF LinkedThrough
      <4>. QED BY <4>1, <4>2
    <3>. QED BY <3>1, <3>2
  <2>8. Apart'
    <3>. SUFFICES ASSUME NEW r \in Queues, NEW s \in Queues,
                         NEW i \in DOMAIN content'[r], NEW j \in DOMAIN content'[s],
                         content'[r][i] = content'[s][j]
                  PROVE  r = s /\ i = j
      BY DEF Apart
    <3>1. \A x \in Queues : \A k \in DOMAIN content'[x] :
             \/ k \in DOMAIN content[x] /\ content'[x][k] = content[x][k]
             \/ x = q /\ k = Len(c) + 1 /\ content'[x][k] = t
      <4>. TAKE x \in Queues
      <4>. TAKE k \in DOMAIN content'[x]
      <4>1. CASE x = q
        BY <2>3, <2>4, <4>1
      <4>2. CASE x # q
        BY <2>4, <4>2
      <4>. QED BY <4>1, <4>2
    <3>2. \A x \in Queues : \A k \in DOMAIN content[x] : content[x][k] # t
      BY <2>1 DEF On
    <3>. QED BY <3>1, <3>2 DEF QInv, Apart
  <2>9. NoneLeft'
    <3>. SUFFICES ASSUME NEW u \in TCBs, next'[u] # Null
                  PROVE  \E r \in Queues : \E i \in DOMAIN content'[r] : content'[r][i] = u
      BY DEF NoneLeft, On
    <3>1. \E r \in Queues : On(r, u)
      <4>1. CASE u = tail[q]
        <5>1. c # <<>> /\ c[Len(c)] = u
          BY <2>3, <4>1, NullAssumption DEF LinkedThrough
        <5>2. Len(c) \in DOMAIN c
          BY <2>3, <5>1
        <5>. QED BY <5>1, <5>2 DEF On
      <4>2. CASE u # tail[q]
        BY <2>2, <4>2 DEF QInv, NoneLeft
      <4>. QED BY <4>1, <4>2
    <3>2. PICK r \in Queues : On(r, u)
      BY <3>1
    <3>4. PICK i \in DOMAIN content[r] : content[r][i] = u
      BY <3>2 DEF On
    <3>3. i \in DOMAIN content'[r] /\ content'[r][i] = u
      <4>1. CASE r = q
        BY <2>3, <2>4, <3>4, <4>1
      <4>2. CASE r # q
        BY <2>4, <3>4, <4>2
      <4>. QED BY <4>1, <4>2
    <3>. QED BY <3>3
  <2>. QED BY <2>5, <2>7, <2>8, <2>9 DEF QInv
<1>. QED BY <1>1, <1>2

LEMMA DequeueKeeps ==
    ASSUME QInv, NEW q \in Queues, uthread_dequeue(q)
    PROVE  QInv'
<1>. DEFINE c == content[q]
            h == c[1]
<1>1. c \in Seq(TCBs) /\ LinkedThrough(q)
  BY DEF QInv, QueueTypes, AllLinked
<1>2. c # <<>> /\ head[q] = h
  BY <1>1 DEF uthread_dequeue, LinkedThrough
<1>3. /\ Len(c) \in Nat \ {0} /\ h \in TCBs /\ 1 \in DOMAIN c
      /\ tail[q] = c[Len(c)] /\ next[c[Len(c)]] = Null
      /\ \A i \in 1..(Len(c) - 1) : next[c[i]] = c[i + 1] /\ c[i + 1] \in TCBs
  BY <1>1, <1>2 DEF LinkedThrough
<1>4. /\ content' = [content EXCEPT ![q] = Tail(@)]
      /\ head' = [head EXCEPT ![q] = next[h]]
      /\ next' = [next EXCEPT ![h] = Null]
      /\ tail' = IF next[h] = Null THEN [tail EXCEPT ![q] = Null] ELSE tail
  BY <1>2 DEF uthread_dequeue
<1>5. /\ content'[q] = Tail(c) /\ Tail(c) \in Seq(TCBs) /\ Len(Tail(c)) = Len(c) - 1
      /\ \A i \in 1..(Len(c) - 1) : Tail(c)[i] = c[i + 1]
      /\ \A r \in Queues \ {q} : content'[r] = content[r]
  BY <1>1, <1>2, <1>4 DEF QInv, QueueTypes
<1>6. QueueTypes'
  BY <1>3, <1>4, <1>5 DEF QInv, QueueTypes
<1>11. Len(c) \in Nat /\ Len(c) >= 1
  <2>1. Len(c) \in Nat \ {0}
    BY <1>3
  <2>. QED BY <2>1
<1>12. DOMAIN Tail(c) = 1..(Len(c) - 1) /\ DOMAIN c = 1..Len(c)
  <2>1. DOMAIN Tail(c) = 1..Len(Tail(c)) /\ DOMAIN c = 1..Len(c)
    BY <1>1, <1>5
  <2>. QED BY <1>5, <2>1
<1>7. \A r \in Queues : \A i \in DOMAIN content[r] : content[r][i] = h => r = q /\ i = 1
  BY <1>3 DEF QInv, Apart
<1>8. AllLinked'
  <2>. SUFFICES ASSUME NEW r \in Queues PROVE LinkedThrough(r)'
    BY DEF AllLinked
  <2>1. CASE r # q
    <3>1. content'[r] = content[r] /\ head'[r] = head[r] /\ tail'[r] = tail[r]
      BY <1>4, <1>5, <2>1 DEF QInv, QueueTypes
    <3>2. content[r] \in Seq(TCBs) /\ LinkedThrough(r)
      BY DEF QInv, QueueTypes, AllLinked
    <3>3. \A i \in DOMAIN content[r] : content[r][i] # h /\ content[r][i] \in TCBs
      BY <1>7, <2>1, <3>2
    <3>4. \A i \in 1..Len(content[r]) : next'[content[r][i]] = next[content[r][i]]
      BY <1>4, <3>2, <3>3 DEF QInv, QueueTypes
    <3>. QED BY <3>1, <3>2, <3>4 DEF LinkedThrough
  <2>2. CASE r = q /\ Len(c) = 1
    <3>1. next[h] = Null
      BY <1>3, <2>2
    <3>2. head'[q] = Null /\ tail'[q] = Null
      BY <1>4, <3>1 DEF QInv, QueueTypes
    <3>3. content'[q] = <<>>
      <4>1. Len(Tail(c)) = 0
        BY <1>5, <2>2
      <4>. QED BY <1>5, <4>1, EmptyWhenNoElements
    <3>. QED BY <2>2, <3>2, <3>3 DEF LinkedThrough
  <2>3. CASE r = q /\ Len(c) # 1
    <3>. DEFINE n == Len(c)
    <3>0. n \in Nat /\ n > 1
      <4>1. n \in Nat /\ n >= 1 /\ n # 1
        BY <1>11, <2>3
      <4>. HIDE DEF n
      <4>. QED BY <4>1
    <3>1. 1 \in 1..(Len(c) - 1) /\ Len(c) \in 2..Len(c) /\ Len(c) - 1 \in 1..(Len(c) - 1)
      <4>. HIDE DEF n
      <4>1. 1 \in 1..(n - 1) /\ n \in 2..n /\ n - 1 \in 1..(n - 1)
        BY <3>0
      <4>. QED BY <4>1 DEF n
    <3>2. next[h] = c[2] /\ c[2] \in TCBs
      BY <1>3, <3>1
    <3>3. head'[q] = c[2] /\ tail'[q] = c[Len(c)]
      BY <1>3, <1>4, <3>2, NullAssumption DEF QInv, QueueTypes
    <3>4. \A i \in 2..Len(c) : next'[c[i]] = next[c[i]]
      <4>. TAKE i \in 2..Len(c)
      <4>1. i \in DOMAIN c /\ c[i] \in TCBs /\ i # 1
        BY <1>1, <1>3
      <4>. QED BY <1>4, <1>7, <4>1 DEF QInv, QueueTypes
    <3>5. \A i \in 1..(Len(c) - 2) : next'[content'[q][i]] = content'[q][i + 1]
      <4>. TAKE i \in 1..(Len(c) - 2)
      <4>1. i \in 1..(Len(c) - 1) /\ i + 1 \in 1..(Len(c) - 1) /\ i + 1 \in 2..Len(c)
        BY <3>0
      <4>2. content'[q][i] = c[i + 1] /\ content'[q][i + 1] = c[i + 2]
        BY <1>5, <4>1
      <4>3. next[c[i + 1]] = c[i + 2] /\ next'[c[i + 1]] = next[c[i + 1]]
        BY <1>3, <3>4, <4>1
      <4>. QED BY <4>2, <4>3
    <3>6. content'[q] # <<>> /\ content'[q][1] = c[2] /\ content'[q][Len(content'[q])] = c[Len(c)]
      <4>1. Len(content'[q]) = n - 1 /\ content'[q][1] = c[1 + 1] /\ content'[q][n - 1] = c[n - 1 + 1]
        BY <1>5, <3>1
      <4>2. n - 1 + 1 = n /\ 1 + 1 = 2
        BY <3>0
      <4>. QED BY <3>0, <4>1, <4>2
    <3>7. Len(content'[q]) - 1 = Len(c) - 2 /\ next'[c[Len(c)]] = Null
      BY <1>3, <1>5, <3>1, <3>4
    <3>. QED BY <2>3, <3>3, <3>5, <3>6, <3>7 DEF LinkedThrough
  <2>. QED BY <2>1, <2>2, <2>3
<1>9. Apart'
  <2>1. \A x \in Queues : \A k \in DOMAIN content'[x] :
           \/ x = q /\ k + 1 \in DOMAIN content[x] /\ k \in Nat /\ content'[x][k] = content[x][k + 1]
           \/ x # q /\ k \in DOMAIN content[x] /\ content'[x][k] = content[x][k]
    <3>. TAKE x \in Queues
    <3>. TAKE k \in DOMAIN content'[x]
    <3>1. CASE x = q
      <4>1. k \in 1..(Len(c) - 1) /\ Len(c) \in Nat
        BY <1>5, <1>11, <1>12, <3>1
      <4>2. k \in Nat /\ k + 1 \in DOMAIN c /\ Tail(c)[k] = c[k + 1]
        BY <1>5, <1>12, <4>1
      <4>. QED BY <1>5, <3>1, <4>2
    <3>2. CASE x # q
      BY <1>5, <3>2
    <3>. QED BY <3>1, <3>2
  <2>. QED BY <2>1 DEF QInv, Apart
<1>10. NoneLeft'
  <2>. SUFFICES ASSUME NEW u \in TCBs, next'[u] # Null
                PROVE  \E r \in Queues : \E i \in DOMAIN content'[r] : content'[r][i] = u
    BY DEF NoneLeft, On
  <2>1. u # h /\ next[u] # Null
    BY <1>3, <1>4 DEF QInv, QueueTypes
  <2>9. PICK r \in Queues : On(r, u)
    BY <2>1 DEF QInv, NoneLeft
  <2>2. PICK i \in DOMAIN content[r] : content[r][i] = u
    BY <2>9 DEF On
  <2>3. CASE r # q
    BY <1>5, <2>2, <2>3
  <2>4. CASE r = q
    <3>1. i \in 2..Len(c) /\ i - 1 \in 1..(Len(c) - 1)
      BY <1>1, <1>3, <2>1, <2>2, <2>4
    <3>2. content'[q][i - 1] = u /\ i - 1 \in DOMAIN content'[q]
      BY <1>5, <2>2, <2>4, <3>1
    <3>. QED BY <3>2
  <2>. QED BY <2>3, <2>4
<1>. QED BY <1>6, <1>8, <1>9, <1>10 DEF QInv

\* For any number of queues and uthreads: the queues of uthread.c are first-in
\* first-out queues although a uthread has only one next pointer, if no caller
\* enqueues a uthread that is last on another queue.
THEOREM QueuesStayLinked == SpecQueues => []QueuesLinked
<1>1. InitQueues => QInv
  BY DEF InitQueues, QInv, QueueTypes, AllLinked, LinkedThrough, Apart, NoneLeft
<1>2. QInv /\ [NextQueues]_linkVars => QInv'
  <2>. SUFFICES ASSUME QInv, [NextQueues]_linkVars PROVE QInv'
    OBVIOUS
  <2>1. CASE UNCHANGED linkVars
    BY <2>1 DEF linkVars, pointers, QInv, QueueTypes, AllLinked, LinkedThrough, Apart, NoneLeft, On
  <2>2. CASE NextQueues
    BY <2>2, EnqueueKeeps, DequeueKeeps DEF NextQueues
  <2>. QED BY <2>1, <2>2
<1>3. QInv => QueuesLinked
  BY DEF QInv, AllLinked, Apart, NoneLeft, QueuesLinked
<1>. QED BY <1>1, <1>2, <1>3, PTL DEF SpecQueues
-----------------------------------------------------------------------------
(***************************************************************************)
(* The two locks, the counter and the condition variable of the ready      *)
(* queue implement the atomic queue, and lose no wakeup, for any finite    *)
(* set of processors and any uthreads.                                     *)
(*                                                                         *)
(* The places of the processors say who holds which lock (Locks) and who   *)
(* is counted as sleeping (Sleeping).  A uthread that is being enqueued is *)
(* in nobody else's hands and not queued yet (Args), so that it is the     *)
(* last of the queue, once, until it has been signalled (Order).  Between  *)
(* the two steps the queue may be one longer than the processors that will *)
(* look at it, and no longer (Enough).                                     *)
(***************************************************************************)

\* A null uthread is none of the uthreads, and there are finitely many kernel threads.
FiniteProcs == IsFiniteSet(Procs) /\ None \notin Procs /\ None \notin Threads

SpinPC == {"e_put", "e_mutex", "e_signal", "e_munlock", "e_unlock",
           "d_take", "d_unlock", "d_mutex", "d_sunlock"}
MutexPC == {"e_signal", "e_munlock", "d_sunlock", "d_wait", "d_munlock"}
AsleepPC == {"d_mutex", "d_sunlock", "d_wait", "waiting"}
UnsignalledPC == {"e_mutex", "e_signal"}
LookingPC == {"run", "stop", "d_lock", "d_take", "d_wake", "d_munlock"} \cup EnqueuePC
PCs == {"run", "stop"} \cup EnqueuePC \cup DequeuePC

Sleepers == {p \in Procs : pc[p] \in {"waiting", "d_wake"}}
Lookers == {p \in Procs : Looking(p)}

Types ==
    /\ queue \in Seq(Threads)
    /\ spinlock \in Procs \cup {None}
    /\ mutex \in Procs \cup {None}
    /\ pc \in [Procs -> PCs]
    /\ running \in [Procs -> Threads \cup {None}]
    /\ arg \in [Procs -> Threads \cup {None}]

Locks ==
    \A p \in Procs : /\ pc[p] \in SpinPC <=> spinlock = p
                     /\ pc[p] \in MutexPC <=> mutex = p

Sleeping ==
    /\ waiting = {p \in Procs : pc[p] = "waiting"}
    /\ sleepers = Cardinality(Sleepers)

Args ==
    /\ \A p \in Procs : pc[p] \in EnqueuePC => arg[p] \in Threads
    /\ \A p \in Procs : pc[p] \in {"e_lock", "e_put"} => arg[p] \notin InQueue
    /\ \A p \in Procs : pc[p] \notin EnqueuePC \cup {"d_unlock"} => arg[p] = None
    /\ \A p, q \in Procs : arg[p] = arg[q] /\ arg[p] # None => p = q

Order ==
    /\ \A i, j \in DOMAIN queue : queue[i] = queue[j] => i = j
    /\ \A p \in Procs : pc[p] \in UnsignalledPC => queue # <<>> /\ queue[Len(queue)] = arg[p]

Enough ==
    Asleep # {} =>
        Len(queue) <= Cardinality(Lookers) + (IF Unsignalled THEN 1 ELSE 0)

IInv == Types /\ Locks /\ Sleeping /\ Args /\ Order /\ Enough

-----------------------------------------------------------------------------
(* Counting processors.                                                    *)

LEMMA ProcsFinite ==
    ASSUME FiniteProcs, NEW A \in SUBSET Procs
    PROVE  /\ IsFiniteSet(A) /\ Cardinality(A) \in Nat
           /\ \A p \in Procs \ A : Cardinality(A \cup {p}) = Cardinality(A) + 1
           /\ \A p \in A : Cardinality(A \ {p}) = Cardinality(A) - 1
           /\ A # {} => Cardinality(A) > 0
<1>1. IsFiniteSet(A)
    BY FS_Subset DEF FiniteProcs
<1>2. Cardinality(A) \in Nat
    BY <1>1, FS_CardinalityType
<1>3. A # {} => Cardinality(A) # 0
    BY <1>1, FS_EmptySet
<1>4. \A p \in Procs \ A : Cardinality(A \cup {p}) = Cardinality(A) + 1
    BY <1>1, FS_AddElement
<1>5. \A p \in A : Cardinality(A \ {p}) = Cardinality(A) - 1
    BY <1>1, FS_RemoveElement
<1> QED BY <1>1, <1>2, <1>3, <1>4, <1>5

\* A processor that starts or stops being one of those counted.
LEMMA CountMoves ==
    ASSUME FiniteProcs, Types, NEW p \in Procs, NEW l, Goto(p, l), NEW P
    PROVE  LET A == {q \in Procs : pc[q] \in P}
               B == {q \in Procs : pc'[q] \in P}
           IN  /\ Cardinality(A) \in Nat
               /\ (pc[p] \in P <=> l \in P) => B = A
               /\ pc[p] \in P /\ l \notin P => Cardinality(B) = Cardinality(A) - 1
               /\ pc[p] \notin P /\ l \in P => Cardinality(B) = Cardinality(A) + 1
<1> DEFINE A == {q \in Procs : pc[q] \in P}
           B == {q \in Procs : pc'[q] \in P}
<1>0. pc' = [pc EXCEPT ![p] = l] /\ pc \in [Procs -> PCs]
    BY DEF Goto, Types
<1>1. (pc[p] \in P <=> l \in P) => B = A
    BY <1>0
<1>2. pc[p] \in P /\ l \notin P => B = A \ {p} /\ p \in A
    BY <1>0
<1>3. pc[p] \notin P /\ l \in P => B = A \cup {p} /\ p \in Procs \ A
    BY <1>0
<1>4. A \in SUBSET Procs
    OBVIOUS
<1> HIDE DEF A, B
<1>5. /\ Cardinality(A) \in Nat
      /\ pc[p] \in P /\ l \notin P => Cardinality(B) = Cardinality(A) - 1
      /\ pc[p] \notin P /\ l \in P => Cardinality(B) = Cardinality(A) + 1
    BY <1>2, <1>3, <1>4, ProcsFinite
<1> QED BY <1>1, <1>5 DEF A, B

-----------------------------------------------------------------------------
(* Types and locks.                                                        *)

\* Variables keep their types.
LEMMA TypeStep == FiniteProcs /\ Types /\ Args /\ [Next]_vars => Types'
<1> SUFFICES ASSUME FiniteProcs, Types, Args, [Next]_vars PROVE Types'
    OBVIOUS
<1> USE DEF Types, PCs, EnqueuePC, DequeuePC, Goto, lockVars, condVars, LockSpin, LockMutex
<1>1. ASSUME NEW p \in Procs, Acquire(p) PROVE Types'
    BY <1>1 DEF Acquire, EnqueueLock, EnqueueMutex, DequeueLock, DequeueMutex, Wake
<1>2. ASSUME NEW p \in Procs, NEW t \in Threads, Start(p, t) PROVE Types'
    BY <1>2 DEF Start
<1>3. ASSUME NEW p \in Procs, Put(p) PROVE Types'
  <2>1. arg[p] \in Threads
      BY <1>3 DEF Put, Args
  <2>2. Append(queue, arg[p]) \in Seq(Threads)
      BY <2>1, AppendProperties
  <2> QED BY <1>3, <2>2 DEF Put
<1>4. ASSUME NEW p \in Procs, Signal(p) PROVE Types'
    BY <1>4 DEF Signal
<1>5. ASSUME NEW p \in Procs, Take(p) PROVE Types'
  <2>1. queue # <<>> => Head(queue) \in Threads /\ Tail(queue) \in Seq(Threads)
      BY HeadTailProperties
  <2> QED BY <1>5, <2>1 DEF Take
<1>6. ASSUME NEW p \in Procs,
             \/ Stop(p) \/ EnqueueMutexUnlock(p) \/ EnqueueUnlock(p) \/ DequeueUnlock(p)
             \/ DequeueSpinUnlock(p) \/ Wait(p) \/ DequeueMutexUnlock(p) \/ SpuriousWakeUp(p)
      PROVE  Types'
    BY <1>6 DEF Stop, EnqueueMutexUnlock, EnqueueUnlock, DequeueUnlock, DequeueSpinUnlock,
                Wait, DequeueMutexUnlock, SpuriousWakeUp
<1>7. CASE UNCHANGED vars
    BY <1>7 DEF vars
<1> QED BY <1>1, <1>2, <1>3, <1>4, <1>5, <1>6, <1>7 DEF Next, Other

\* Who is between taking and releasing a lock holds it.
LEMMA LocksStep == FiniteProcs /\ Types /\ Locks /\ Sleeping /\ [Next]_vars => Locks'
<1> SUFFICES ASSUME FiniteProcs, Types, Locks, Sleeping, [Next]_vars PROVE Locks'
    OBVIOUS
<1> USE DEF FiniteProcs, Types, Locks, SpinPC, MutexPC, Goto, lockVars, condVars, LockSpin,
            LockMutex
<1>1. ASSUME NEW p \in Procs, EnqueueLock(p) \/ DequeueLock(p) PROVE Locks'
    BY <1>1 DEF EnqueueLock, DequeueLock
<1>2. ASSUME NEW p \in Procs, EnqueueMutex(p) \/ DequeueMutex(p) \/ Wake(p) PROVE Locks'
    BY <1>2 DEF EnqueueMutex, DequeueMutex, Wake
<1>3. ASSUME NEW p \in Procs, (\E t \in Threads : Start(p, t)) \/ Stop(p) \/ Put(p) \/ Take(p)
      PROVE  Locks'
    BY <1>3 DEF Start, Stop, Put, Take
<1>4. ASSUME NEW p \in Procs, Signal(p) PROVE Locks'
  <2>1. CASE sleepers > 0 /\ waiting # {}
    <3>1. PICK q \in waiting : pc' = [pc EXCEPT ![p] = "e_munlock", ![q] = "d_wake"]
        BY <1>4, <2>1 DEF Signal
    <3>2. q \in Procs /\ pc[q] = "waiting" /\ pc[p] = "e_signal"
        BY <1>4, <3>1 DEF Sleeping, Signal
    <3> QED BY <1>4, <3>1, <3>2 DEF Signal
  <2>2. CASE ~(sleepers > 0 /\ waiting # {})
      BY <1>4, <2>2 DEF Signal
  <2> QED BY <2>1, <2>2
<1>5. ASSUME NEW p \in Procs, EnqueueMutexUnlock(p) \/ Wait(p) \/ DequeueMutexUnlock(p)
      PROVE  Locks'
    BY <1>5 DEF EnqueueMutexUnlock, Wait, DequeueMutexUnlock
<1>6. ASSUME NEW p \in Procs, EnqueueUnlock(p) \/ DequeueUnlock(p) \/ DequeueSpinUnlock(p)
      PROVE  Locks'
    BY <1>6 DEF EnqueueUnlock, DequeueUnlock, DequeueSpinUnlock
<1>7. ASSUME NEW p \in Procs, SpuriousWakeUp(p) PROVE Locks'
  <2>1. pc[p] = "waiting"
      BY <1>7 DEF SpuriousWakeUp, Sleeping
  <2> QED BY <1>7, <2>1 DEF SpuriousWakeUp
<1>8. CASE UNCHANGED vars
    BY <1>8 DEF vars
<1> QED BY <1>1, <1>2, <1>3, <1>4, <1>5, <1>6, <1>7, <1>8 DEF Next, Acquire, Other

-----------------------------------------------------------------------------
(* Who sleeps.                                                             *)

\* One processor moves: how the sleeping ones and those that will look change.
LEMMA SleepersMove ==
    ASSUME FiniteProcs, Types, NEW p \in Procs, NEW l, Goto(p, l)
    PROVE  LET P == {"waiting", "d_wake"}
           IN  /\ Cardinality(Sleepers) \in Nat
               /\ (pc[p] \in P <=> l \in P) => Sleepers' = Sleepers
               /\ pc[p] \in P /\ l \notin P
                     => Cardinality(Sleepers') = Cardinality(Sleepers) - 1
               /\ pc[p] \notin P /\ l \in P
                     => Cardinality(Sleepers') = Cardinality(Sleepers) + 1
BY CountMoves DEF Sleepers

LEMMA LookersMove ==
    ASSUME FiniteProcs, Types, NEW p \in Procs, NEW l, Goto(p, l)
    PROVE  /\ Cardinality(Lookers) \in Nat
           /\ (pc[p] \in LookingPC <=> l \in LookingPC) => Lookers' = Lookers
           /\ pc[p] \in LookingPC /\ l \notin LookingPC
                 => Cardinality(Lookers') = Cardinality(Lookers) - 1
           /\ pc[p] \notin LookingPC /\ l \in LookingPC
                 => Cardinality(Lookers') = Cardinality(Lookers) + 1
<1>1. Lookers = {q \in Procs : pc[q] \in LookingPC}
      /\ Lookers' = {q \in Procs : pc'[q] \in LookingPC}
    BY DEF Lookers, Looking, LookingPC
<1>2. LET A == {q \in Procs : pc[q] \in LookingPC}
          B == {q \in Procs : pc'[q] \in LookingPC}
      IN  /\ Cardinality(A) \in Nat
          /\ (pc[p] \in LookingPC <=> l \in LookingPC) => B = A
          /\ pc[p] \in LookingPC /\ l \notin LookingPC => Cardinality(B) = Cardinality(A) - 1
          /\ pc[p] \notin LookingPC /\ l \in LookingPC => Cardinality(B) = Cardinality(A) + 1
    BY CountMoves, Zenon
<1> QED BY <1>1, <1>2

\* ready_queue_enqueue finds somebody to signal if anybody is falling asleep or
\* waits: who falls asleep holds one of the locks.
LEMMA SignalWakes ==
    ASSUME FiniteProcs, Types, Locks, Sleeping, NEW p \in Procs, Signal(p)
    PROVE  /\ pc[p] = "e_signal"
           /\ UNCHANGED <<queue, lockVars, sleepers, running, arg>>
           /\ \/ /\ Asleep = {} /\ UNCHANGED waiting
                 /\ Goto(p, "e_munlock")
              \/ \E q \in waiting :
                    /\ q \in Procs /\ q # p /\ pc[q] = "waiting"
                    /\ waiting' = waiting \ {q}
                    /\ pc' = [pc EXCEPT ![p] = "e_munlock", ![q] = "d_wake"]
<1>1. pc[p] = "e_signal" /\ UNCHANGED <<queue, lockVars, sleepers, running, arg>>
    BY DEF Signal
<1>2. CASE waiting = {}
  <2>1. \A q \in Procs : pc[q] # "waiting"
      BY <1>2 DEF Sleeping
  <2>2. \A q \in Procs : pc[q] \notin {"d_mutex", "d_sunlock", "d_wait"}
      BY <1>1 DEF Locks, SpinPC, MutexPC
  <2> QED BY <1>1, <1>2, <2>1, <2>2 DEF Signal, Asleep
<1>3. CASE waiting # {}
  <2>1. waiting \subseteq Sleepers
      BY DEF Sleeping, Sleepers
  <2>2. sleepers > 0
      BY <1>3, <2>1, ProcsFinite DEF Sleeping, Sleepers
  <2>3. \A q \in waiting : q \in Procs /\ q # p /\ pc[q] = "waiting"
      BY <1>1 DEF Sleeping
  <2> QED BY <1>1, <1>3, <2>2, <2>3 DEF Signal
<1> QED BY <1>2, <1>3

\* pthread_num_sleeping counts the processors from pthread_cond_wait on, until
\* they have the mutex again.
LEMMA SleepingStep == FiniteProcs /\ Types /\ Locks /\ Sleeping /\ [Next]_vars => Sleeping'
<1> SUFFICES ASSUME FiniteProcs, Types, Locks, Sleeping, [Next]_vars PROVE Sleeping'
    OBVIOUS
<1>n. ASSUME NEW p \in Procs, NEW l, Goto(p, l), UNCHANGED condVars,
             pc[p] \notin {"waiting", "d_wake"}, l \notin {"waiting", "d_wake"}
      PROVE  Sleeping'
  <2>1. Sleepers' = Sleepers
      BY <1>n, SleepersMove
  <2>2. {q \in Procs : pc'[q] = "waiting"} = {q \in Procs : pc[q] = "waiting"}
      BY <1>n DEF Goto, Types
  <2> QED BY <1>n, <2>1, <2>2 DEF Sleeping, condVars
<1>1. ASSUME NEW p \in Procs,
             EnqueueLock(p) \/ EnqueueMutex(p) \/ DequeueLock(p) \/ DequeueMutex(p)
      PROVE  Sleeping'
    BY <1>1, <1>n DEF EnqueueLock, EnqueueMutex, DequeueLock, DequeueMutex
<1>2. ASSUME NEW p \in Procs, NEW t \in Threads, Start(p, t) PROVE Sleeping'
    BY <1>2, <1>n DEF Start
<1>3. ASSUME NEW p \in Procs,
             \/ Stop(p) \/ Put(p) \/ EnqueueMutexUnlock(p) \/ EnqueueUnlock(p) \/ Take(p)
             \/ DequeueUnlock(p) \/ DequeueSpinUnlock(p) \/ DequeueMutexUnlock(p)
      PROVE  Sleeping'
  <2>1. PICK l \in {"d_lock", "e_mutex", "e_unlock", "run", "d_unlock", "d_mutex", "stop",
                    "d_wait"} : Goto(p, l)
      BY <1>3 DEF Stop, Put, EnqueueMutexUnlock, EnqueueUnlock, Take, DequeueUnlock,
                  DequeueSpinUnlock, DequeueMutexUnlock
  <2>2. pc[p] \notin {"waiting", "d_wake"} /\ UNCHANGED condVars
      BY <1>3 DEF Stop, Put, EnqueueMutexUnlock, EnqueueUnlock, Take, DequeueUnlock,
                  DequeueSpinUnlock, DequeueMutexUnlock
  <2> QED BY <2>1, <2>2, <1>n
<1>4. ASSUME NEW p \in Procs, Signal(p) PROVE Sleeping'
  <2>1. CASE Goto(p, "e_munlock") /\ UNCHANGED waiting
      BY <1>4, <2>1, <1>n, SignalWakes DEF condVars
  <2>2. ASSUME NEW q \in waiting, q \in Procs, q # p, pc[q] = "waiting",
               waiting' = waiting \ {q},
               pc' = [pc EXCEPT ![p] = "e_munlock", ![q] = "d_wake"]
        PROVE  Sleeping'
    <3>1. pc[p] = "e_signal" /\ sleepers' = sleepers
        BY <1>4 DEF Signal
    <3>2. Sleepers' = Sleepers
        BY <2>2, <3>1 DEF Sleepers, Types
    <3>3. waiting' = {r \in Procs : pc'[r] = "waiting"}
        BY <2>2, <3>1 DEF Sleeping, Types
    <3> QED BY <3>1, <3>2, <3>3 DEF Sleeping
  <2> QED BY <1>4, <2>1, <2>2, SignalWakes
<1>5. ASSUME NEW p \in Procs, Wait(p) PROVE Sleeping'
  <2>1. pc[p] = "d_wait" /\ Goto(p, "waiting") /\ sleepers' = sleepers + 1
        /\ waiting' = waiting \cup {p}
      BY <1>5 DEF Wait
  <2>2. Cardinality(Sleepers') = Cardinality(Sleepers) + 1
      BY <2>1, SleepersMove
  <2>3. waiting' = {q \in Procs : pc'[q] = "waiting"}
      BY <2>1 DEF Goto, Types, Sleeping
  <2> QED BY <2>1, <2>2, <2>3 DEF Sleeping
<1>6. ASSUME NEW p \in Procs, Wake(p) PROVE Sleeping'
  <2>1. pc[p] = "d_wake" /\ Goto(p, "d_munlock") /\ sleepers' = sleepers - 1
        /\ waiting' = waiting
      BY <1>6 DEF Wake
  <2>2. Cardinality(Sleepers') = Cardinality(Sleepers) - 1
      BY <2>1, SleepersMove
  <2>3. waiting' = {q \in Procs : pc'[q] = "waiting"}
      BY <2>1 DEF Goto, Types, Sleeping
  <2> QED BY <2>1, <2>2, <2>3 DEF Sleeping
<1>7. ASSUME NEW p \in Procs, SpuriousWakeUp(p) PROVE Sleeping'
  <2>1. pc[p] = "waiting" /\ Goto(p, "d_wake") /\ sleepers' = sleepers
        /\ waiting' = waiting \ {p}
      BY <1>7 DEF SpuriousWakeUp, Sleeping
  <2>2. Sleepers' = Sleepers
      BY <2>1, SleepersMove
  <2>3. waiting' = {q \in Procs : pc'[q] = "waiting"}
      BY <2>1 DEF Goto, Types, Sleeping
  <2> QED BY <2>1, <2>2, <2>3 DEF Sleeping
<1>8. CASE UNCHANGED vars
    BY <1>8 DEF vars, Sleeping, Sleepers
<1> QED BY <1>1, <1>2, <1>3, <1>4, <1>5, <1>6, <1>7, <1>8 DEF Next, Acquire, Other

-----------------------------------------------------------------------------
(* What is queued.                                                         *)

\* ready_queue_dequeue takes the first uthread, and the others move up.
LEMMA TailOfQueue ==
    ASSUME Types, queue # <<>>, queue' = Tail(queue)
    PROVE  /\ Len(queue) \in Nat /\ 1 \in DOMAIN queue /\ Head(queue) = queue[1]
           /\ Len(queue') = Len(queue) - 1
           /\ \A i \in DOMAIN queue' : /\ i \in Nat /\ i + 1 \in DOMAIN queue /\ i + 1 # 1
                                       /\ queue'[i] = queue[i + 1]
BY DEF Types

\* ready_queue_enqueue puts its uthread last.
LEMMA AppendToQueue ==
    ASSUME Types, NEW t \in Threads, queue' = Append(queue, t)
    PROVE  /\ queue' \in Seq(Threads) /\ queue' # <<>>
           /\ Len(queue') = Len(queue) + 1 /\ Len(queue) \in Nat
           /\ queue'[Len(queue')] = t
           /\ \A i \in DOMAIN queue' : \/ i \in DOMAIN queue /\ queue'[i] = queue[i]
                                       \/ i = Len(queue) + 1 /\ queue'[i] = t
BY AppendProperties DEF Types

\* What ready_queue_enqueue finds: a uthread that is not queued.
LEMMA PutAppends ==
    ASSUME Args, NEW p \in Procs, Put(p)
    PROVE  arg[p] \in Threads /\ arg[p] \notin InQueue /\ queue' = Append(queue, arg[p])
BY DEF Args, Put, EnqueuePC

\* A uthread is in one processor's hands or queued.
LEMMA ArgsStep == FiniteProcs /\ Types /\ Locks /\ Sleeping /\ Args /\ Order /\ [Next]_vars => Args'
<1> SUFFICES ASSUME FiniteProcs, Types, Locks, Sleeping, Args, Order, [Next]_vars PROVE Args'
    OBVIOUS
<1>n. ASSUME NEW p \in Procs, NEW l, Goto(p, l), UNCHANGED <<queue, arg>>,
             l \in EnqueuePC => pc[p] \in EnqueuePC,
             l \in {"e_lock", "e_put"} => pc[p] \in {"e_lock", "e_put"},
             pc[p] \in EnqueuePC \cup {"d_unlock"} => l \in EnqueuePC \cup {"d_unlock"}
      PROVE  Args'
    BY <1>n DEF Goto, Types, Args, InQueue
<1> USE DEF EnqueuePC
<1>1. ASSUME NEW p \in Procs, Acquire(p) PROVE Args'
    BY <1>1, <1>n DEF Acquire, EnqueueLock, EnqueueMutex, DequeueLock, DequeueMutex, Wake
<1>2. ASSUME NEW p \in Procs, NEW t \in Threads, Start(p, t) PROVE Args'
    BY <1>2 DEF Start, Goto, Types, Args, InQueue
<1>3. ASSUME NEW p \in Procs, Put(p) PROVE Args'
  <2>1. arg[p] \in Threads /\ arg[p] \notin InQueue /\ queue' = Append(queue, arg[p])
      BY <1>3, PutAppends
  <2>2. InQueue' \subseteq InQueue \cup {arg[p]}
      BY <2>1, AppendToQueue DEF InQueue
  <2>3. arg' = arg /\ pc' = [pc EXCEPT ![p] = "e_mutex"] /\ pc[p] = "e_put"
      BY <1>3 DEF Put, Goto
  <2>4. \A q \in Procs : pc'[q] \in {"e_lock", "e_put"} => arg'[q] \notin InQueue'
    <3> SUFFICES ASSUME NEW q \in Procs, pc'[q] \in {"e_lock", "e_put"}
                 PROVE  arg[q] \notin InQueue'
        BY <2>3
    <3>1. q # p /\ pc[q] \in {"e_lock", "e_put"}
        BY <2>3 DEF Types
    <3>2. arg[q] \in Threads /\ arg[q] \notin InQueue /\ arg[q] # arg[p]
        BY <2>1, <3>1 DEF Args, FiniteProcs
    <3> QED BY <2>2, <3>2
  <2>5. \A q \in Procs : pc'[q] \in EnqueuePC => arg'[q] \in Threads
      BY <2>3 DEF Args, Types
  <2>6. \A q \in Procs : pc'[q] \notin EnqueuePC \cup {"d_unlock"} => arg'[q] = None
      BY <2>3 DEF Args, Types
  <2> QED BY <2>3, <2>4, <2>5, <2>6 DEF Args
<1>4. ASSUME NEW p \in Procs, Signal(p) PROVE Args'
  <2>1. pc[p] = "e_signal" /\ UNCHANGED <<queue, arg>>
      BY <1>4 DEF Signal
  <2>2. CASE Goto(p, "e_munlock")
      BY <2>1, <2>2, <1>n
  <2>3. ASSUME NEW q \in waiting, q \in Procs, pc[q] = "waiting", q # p,
               pc' = [pc EXCEPT ![p] = "e_munlock", ![q] = "d_wake"]
        PROVE  Args'
      BY <2>1, <2>3 DEF Types, Args, InQueue
  <2> QED BY <1>4, <2>2, <2>3, SignalWakes
<1>5. ASSUME NEW p \in Procs, EnqueueUnlock(p) \/ DequeueUnlock(p) PROVE Args'
    BY <1>5 DEF EnqueueUnlock, DequeueUnlock, Goto, Types, Args, InQueue
<1>6. ASSUME NEW p \in Procs, Take(p) PROVE Args'
  <2>1. CASE queue # <<>>
    <3>1. /\ queue' = Tail(queue) /\ arg' = [arg EXCEPT ![p] = queue[1]]
          /\ pc' = [pc EXCEPT ![p] = "d_unlock"] /\ pc[p] = "d_take"
        BY <1>6, <2>1 DEF Take, Goto, Types
    <3>2. queue[1] \in InQueue /\ InQueue' \subseteq InQueue
        BY <2>1, <3>1, TailOfQueue DEF InQueue
    <3>3. \A q \in Procs \ {p} : arg[q] # queue[1]
      <4> SUFFICES ASSUME NEW q \in Procs, q # p, arg[q] = queue[1] PROVE FALSE
          OBVIOUS
      <4>1. queue[1] \in Threads
          BY <2>1 DEF Types
      <4>2. pc[q] \in EnqueuePC \cup {"d_unlock"}
          BY <4>1 DEF Args, FiniteProcs
      <4>3. pc[q] \notin SpinPC
          BY <3>1 DEF Locks, SpinPC
      <4>4. pc[q] = "e_lock"
          BY <4>2, <4>3 DEF SpinPC
      <4> QED BY <3>2, <4>4 DEF Args
    <3> QED BY <3>1, <3>2, <3>3 DEF Args, Types, FiniteProcs
  <2>2. CASE queue = <<>>
      BY <1>6, <2>2 DEF Take, Goto, Types, Args, InQueue
  <2> QED BY <2>1, <2>2
<1>7. ASSUME NEW p \in Procs,
             \/ Stop(p) \/ EnqueueMutexUnlock(p) \/ DequeueSpinUnlock(p) \/ Wait(p)
             \/ DequeueMutexUnlock(p)
      PROVE  Args'
    BY <1>7, <1>n DEF Stop, EnqueueMutexUnlock, DequeueSpinUnlock, Wait, DequeueMutexUnlock
<1>8. ASSUME NEW p \in Procs, SpuriousWakeUp(p) PROVE Args'
  <2>1. pc[p] = "waiting"
      BY <1>8 DEF SpuriousWakeUp, Sleeping
  <2> QED BY <1>8, <2>1, <1>n DEF SpuriousWakeUp
<1>9. CASE UNCHANGED vars
    BY <1>9 DEF vars, Args, InQueue
<1> QED BY <1>1, <1>2, <1>3, <1>4, <1>5, <1>6, <1>7, <1>8, <1>9 DEF Next, Other

\* No uthread is queued twice, and one whose signal is still to be sent is last.
LEMMA OrderStep == FiniteProcs /\ Types /\ Locks /\ Sleeping /\ Args /\ Order /\ [Next]_vars => Order'
<1> SUFFICES ASSUME FiniteProcs, Types, Locks, Sleeping, Args, Order, [Next]_vars PROVE Order'
    OBVIOUS
<1> USE DEF UnsignalledPC
<1>n. ASSUME NEW p \in Procs, NEW l, Goto(p, l), queue' = queue,
             l \in UnsignalledPC => pc[p] \in UnsignalledPC /\ arg'[p] = arg[p],
             \A q \in Procs \ {p} : arg'[q] = arg[q]
      PROVE  Order'
    BY <1>n DEF Goto, Types, Order
<1>1. ASSUME NEW p \in Procs, Acquire(p) PROVE Order'
    BY <1>1, <1>n DEF Acquire, EnqueueLock, EnqueueMutex, DequeueLock, DequeueMutex, Wake
<1>2. ASSUME NEW p \in Procs, NEW t \in Threads, Start(p, t) PROVE Order'
    BY <1>2, <1>n DEF Start, Types
<1>3. ASSUME NEW p \in Procs, Put(p) PROVE Order'
  <2>1. arg[p] \in Threads /\ arg[p] \notin InQueue /\ queue' = Append(queue, arg[p])
      BY <1>3, PutAppends
  <2>2. arg' = arg /\ pc' = [pc EXCEPT ![p] = "e_mutex"] /\ pc[p] = "e_put"
      BY <1>3 DEF Put, Goto
  <2>3. \A i \in DOMAIN queue : queue[i] # arg[p]
      BY <2>1 DEF InQueue
  <2>4. \A i, j \in DOMAIN queue' : queue'[i] = queue'[j] => i = j
      BY <2>1, <2>3, AppendToQueue DEF Order
  <2>5. \A q \in Procs : pc'[q] \in UnsignalledPC => q = p
      BY <2>2 DEF Types, Locks, SpinPC
  <2> QED BY <2>1, <2>2, <2>4, <2>5, AppendToQueue DEF Order
<1>4. ASSUME NEW p \in Procs, Signal(p) PROVE Order'
    BY <1>4, SignalWakes DEF Goto, Types, Order
<1>5. ASSUME NEW p \in Procs, Take(p) PROVE Order'
  <2>1. CASE queue # <<>>
    <3>1. queue' = Tail(queue) /\ pc' = [pc EXCEPT ![p] = "d_unlock"] /\ pc[p] = "d_take"
        BY <1>5, <2>1 DEF Take, Goto, Types
    <3>2. \A q \in Procs : pc'[q] \notin UnsignalledPC
        BY <3>1 DEF Types, Locks, SpinPC
    <3>3. \A i, j \in DOMAIN queue' : queue'[i] = queue'[j] => i = j
      <4> TAKE i, j \in DOMAIN queue'
      <4>1. queue[i + 1] = queue[j + 1] => i + 1 = j + 1
          BY <2>1, <3>1, TailOfQueue DEF Order
      <4> QED BY <2>1, <3>1, <4>1, TailOfQueue
    <3> QED BY <3>2, <3>3 DEF Order
  <2>2. CASE queue = <<>>
      BY <1>5, <1>n, <2>2 DEF Take, Types
  <2> QED BY <2>1, <2>2
<1>6. ASSUME NEW p \in Procs,
             \/ Stop(p) \/ EnqueueMutexUnlock(p) \/ EnqueueUnlock(p) \/ DequeueUnlock(p)
             \/ DequeueSpinUnlock(p) \/ Wait(p) \/ DequeueMutexUnlock(p) \/ SpuriousWakeUp(p)
      PROVE  Order'
  <2>1. PICK l : Goto(p, l) /\ l \notin UnsignalledPC
      BY <1>6 DEF Stop, EnqueueMutexUnlock, EnqueueUnlock, DequeueUnlock, DequeueSpinUnlock,
                  Wait, DequeueMutexUnlock, SpuriousWakeUp
  <2>2. queue' = queue /\ \A q \in Procs \ {p} : arg'[q] = arg[q]
      BY <1>6 DEF Stop, EnqueueMutexUnlock, EnqueueUnlock, DequeueUnlock, DequeueSpinUnlock,
                  Wait, DequeueMutexUnlock, SpuriousWakeUp, Types
  <2> QED BY <2>1, <2>2, <1>n
<1>7. CASE UNCHANGED vars
    BY <1>7 DEF vars, Order
<1> QED BY <1>1, <1>2, <1>3, <1>4, <1>5, <1>6, <1>7 DEF Next, Other

-----------------------------------------------------------------------------
(* No wakeup is lost.                                                      *)

\* A step of one processor that leaves the queue alone and goes on looking.
LEMMA MoveEnough ==
    ASSUME FiniteProcs, Types, Enough, NEW p \in Procs, NEW l, Goto(p, l), queue' = queue,
           pc[p] \in LookingPC => l \in LookingPC,
           pc[p] \in UnsignalledPC <=> l \in UnsignalledPC,
           l \in AsleepPC => pc[p] \in AsleepPC
    PROVE  Enough'
<1>1. Asleep' # {} => Asleep # {}
    BY DEF Goto, Types, Asleep, AsleepPC
<1>2. Unsignalled' <=> Unsignalled
    BY DEF Goto, Types, Unsignalled, UnsignalledPC
<1>3. /\ Cardinality(Lookers) \in Nat
      /\ Cardinality(Lookers') = Cardinality(Lookers)
         \/ Cardinality(Lookers') = Cardinality(Lookers) + 1
    BY LookersMove
<1>4. Len(queue) \in Nat
    BY DEF Types
<1> QED BY <1>1, <1>2, <1>3, <1>4 DEF Enough

\* While a processor sleeps or falls asleep, the queue is not longer than the
\* processors that will look at it, but for one that will be signalled.
LEMMA EnoughStep == FiniteProcs /\ IInv /\ [Next]_vars => Enough'
<1> SUFFICES ASSUME FiniteProcs, IInv, [Next]_vars PROVE Enough'
    OBVIOUS
<1>i. Types /\ Locks /\ Sleeping /\ Args /\ Order /\ Enough
    BY DEF IInv
<1> USE DEF LookingPC, UnsignalledPC, AsleepPC, EnqueuePC
<1>1. ASSUME NEW p \in Procs, Acquire(p) PROVE Enough'
    BY <1>1, <1>i, MoveEnough DEF Acquire, EnqueueLock, EnqueueMutex, DequeueLock,
                                  DequeueMutex, Wake
<1>2. ASSUME NEW p \in Procs, NEW t \in Threads, Start(p, t) PROVE Enough'
    BY <1>2, <1>i, MoveEnough DEF Start
<1>3. ASSUME NEW p \in Procs, Put(p) PROVE Enough'
  <2>1. pc[p] = "e_put" /\ Goto(p, "e_mutex")
      BY <1>3 DEF Put
  <2>2. Len(queue') = Len(queue) + 1 /\ Len(queue) \in Nat
      BY <1>3, <1>i, PutAppends, AppendToQueue
  <2>3. ~Unsignalled /\ Unsignalled'
      BY <1>i, <2>1 DEF Unsignalled, Locks, SpinPC, Goto, Types
  <2>4. Cardinality(Lookers') = Cardinality(Lookers) /\ Cardinality(Lookers) \in Nat
      BY <1>i, <2>1, LookersMove
  <2>5. Asleep' # {} => Asleep # {}
      BY <1>i, <2>1 DEF Goto, Types, Asleep
  <2> QED BY <1>i, <2>2, <2>3, <2>4, <2>5 DEF Enough
<1>4. ASSUME NEW p \in Procs, Signal(p) PROVE Enough'
  <2>0. pc[p] = "e_signal" /\ queue' = queue /\ Len(queue) \in Nat
      BY <1>4, <1>i DEF Signal, Types
  <2>1. CASE Asleep = {} /\ Goto(p, "e_munlock")
      BY <1>i, <2>1 DEF Goto, Types, Asleep, Enough
  <2>2. ASSUME NEW q \in waiting, q \in Procs, q # p, pc[q] = "waiting",
               pc' = [pc EXCEPT ![p] = "e_munlock", ![q] = "d_wake"]
        PROVE  Enough'
    <3>1. Lookers' = Lookers \cup {q} /\ q \notin Lookers
        BY <1>i, <2>0, <2>2 DEF Lookers, Looking, Types
    <3>2. Lookers \in SUBSET Procs
        BY DEF Lookers
    <3>3. Cardinality(Lookers') = Cardinality(Lookers) + 1 /\ Cardinality(Lookers) \in Nat
        BY <2>2, <3>1, <3>2, ProcsFinite
    <3>4. Asleep # {}
        BY <2>2 DEF Asleep
    <3> QED BY <1>i, <2>0, <3>3, <3>4 DEF Enough
  <2> QED BY <1>4, <1>i, <2>1, <2>2, SignalWakes
<1>5. ASSUME NEW p \in Procs, Take(p) PROVE Enough'
  <2>1. CASE queue # <<>>
    <3>1. queue' = Tail(queue) /\ Goto(p, "d_unlock") /\ pc[p] = "d_take"
        BY <1>5, <2>1 DEF Take
    <3>2. Len(queue') = Len(queue) - 1 /\ Len(queue) \in Nat
        BY <1>i, <2>1, <3>1, TailOfQueue
    <3>3. Cardinality(Lookers') = Cardinality(Lookers) - 1 /\ Cardinality(Lookers) \in Nat
        BY <1>i, <3>1, LookersMove
    <3>4. Asleep' # {} => Asleep # {}
        BY <1>i, <3>1 DEF Goto, Types, Asleep
    <3>5. Unsignalled' <=> Unsignalled
        BY <1>i, <3>1 DEF Goto, Types, Unsignalled
    <3> QED BY <1>i, <3>2, <3>3, <3>4, <3>5 DEF Enough
  <2>2. CASE queue = <<>>
    <3>1. Len(queue') = 0
        BY <1>5, <2>2 DEF Take
    <3>2. Lookers' \in SUBSET Procs
        BY DEF Lookers
    <3>3. Cardinality(Lookers') \in Nat
        BY <3>2, ProcsFinite
    <3> QED BY <3>1, <3>3 DEF Enough
  <2> QED BY <2>1, <2>2
<1>6. ASSUME NEW p \in Procs,
             \/ Stop(p) \/ EnqueueMutexUnlock(p) \/ EnqueueUnlock(p)
             \/ DequeueSpinUnlock(p) \/ Wait(p) \/ DequeueMutexUnlock(p)
      PROVE  Enough'
    BY <1>6, <1>i, MoveEnough DEF Stop, EnqueueMutexUnlock, EnqueueUnlock, DequeueSpinUnlock,
                                  Wait, DequeueMutexUnlock
<1>7. ASSUME NEW p \in Procs, DequeueUnlock(p) PROVE Enough'
  <2>1. PICK l \in {"run", "stop"} : Goto(p, l)
      BY <1>7 DEF DequeueUnlock
  <2> QED BY <1>7, <1>i, <2>1, MoveEnough DEF DequeueUnlock
<1>8. ASSUME NEW p \in Procs, SpuriousWakeUp(p) PROVE Enough'
  <2>1. pc[p] = "waiting"
      BY <1>8, <1>i DEF SpuriousWakeUp, Sleeping
  <2> QED BY <1>8, <1>i, <2>1, MoveEnough DEF SpuriousWakeUp
<1>9. CASE UNCHANGED vars
    BY <1>9, <1>i DEF vars, Enough, Asleep, Unsignalled, Lookers, Looking
<1> QED BY <1>1, <1>2, <1>3, <1>4, <1>5, <1>6, <1>7, <1>8, <1>9 DEF Next, Other

-----------------------------------------------------------------------------
(* The invariant.                                                          *)

\* uthread_init leaves the queue empty, the locks free and nobody asleep.
LEMMA InitInv == FiniteProcs /\ Init => IInv
<1> SUFFICES ASSUME FiniteProcs, Init PROVE IInv
    OBVIOUS
<1>p. \A p \in Procs : pc[p] \in {"run", "stop"} /\ arg[p] = None
    BY DEF Init
<1>1. Types
    BY DEF Init, Types, PCs
<1>2. Locks
    BY <1>p DEF Init, Locks, SpinPC, MutexPC, FiniteProcs
<1>3. Sleeping
  <2>1. Sleepers = {} /\ {p \in Procs : pc[p] = "waiting"} = {}
      BY <1>p DEF Sleepers
  <2> QED BY <2>1, FS_EmptySet DEF Init, Sleeping
<1>4. Args
    BY <1>p DEF Init, Args, EnqueuePC
<1>5. Order
    BY <1>p DEF Init, Order, UnsignalledPC
<1>6. Asleep = {}
    BY <1>p DEF Asleep
<1> QED BY <1>1, <1>2, <1>3, <1>4, <1>5, <1>6 DEF IInv, Enough

\* The invariant holds of any scheduler around the queue.
THEOREM Invariance == ASSUME FiniteProcs PROVE Spec => []IInv
<1>1. Init => IInv
    BY InitInv
<1>2. IInv /\ [Next]_vars => IInv'
    BY TypeStep, LocksStep, SleepingStep, ArgsStep, OrderStep, EnoughStep DEF IInv
<1> QED BY <1>1, <1>2, PTL DEF Spec

\* No processor sleeps through an enqueue, for any number of processors: while
\* one sleeps and no signal is outstanding, there is a processor that will look
\* for every queued uthread.
THEOREM WakeupsArrive == ASSUME FiniteProcs PROVE Spec => []NoLostWakeup
<1>1. IInv => NoLostWakeup
  <2> SUFFICES ASSUME IInv, \E p \in Procs : pc[p] \in AsleepPC,
                      \A p \in Procs : pc[p] \notin UnsignalledPC
               PROVE  Len(queue) <= Cardinality(Lookers)
      BY DEF NoLostWakeup, AsleepPC, UnsignalledPC, Lookers
  <2>1. Asleep # {} /\ ~Unsignalled
      BY DEF Asleep, AsleepPC, Unsignalled, UnsignalledPC
  <2>2. Cardinality(Lookers) \in Nat
      BY ProcsFinite DEF Lookers
  <2> QED BY <2>1, <2>2 DEF IInv, Enough
<1> QED BY <1>1, Invariance, PTL

-----------------------------------------------------------------------------
(* The atomic queue.                                                       *)

\* A step that neither signals nor takes, and after which the same processors
\* sleep, is no step of the atomic queue.
LEMMA MoveStutters ==
    ASSUME Types, NEW p \in Procs, NEW l, Goto(p, l), queue' = queue,
           pc[p] \in UnsignalledPC <=> l \in UnsignalledPC,
           pc[p] \in AsleepPC <=> l \in AsleepPC
    PROVE  Settled' = Settled /\ Asleep' = Asleep
<1>1. Asleep' = Asleep
    BY DEF Goto, Types, Asleep, AsleepPC
<1>2. Unsignalled' <=> Unsignalled
    BY DEF Goto, Types, Unsignalled, UnsignalledPC
<1> QED BY <1>1, <1>2 DEF Settled

\* Putting the uthread on the queue is not yet the enqueue.
LEMMA PutStutters ==
    ASSUME IInv, FiniteProcs, NEW p \in Procs, Put(p)
    PROVE  Settled' = Settled /\ Asleep' = Asleep
<1>i. Types /\ Locks /\ Args
    BY DEF IInv
<1>1. pc[p] = "e_put" /\ Goto(p, "e_mutex")
    BY DEF Put
<1>2. ~Unsignalled /\ Unsignalled'
    BY <1>i, <1>1 DEF Unsignalled, Locks, SpinPC, Goto, Types
<1>3. Asleep' = Asleep
    BY <1>i, <1>1 DEF Goto, Types, Asleep
<1>4. queue' = Append(queue, arg[p]) /\ arg[p] \in Threads /\ queue \in Seq(Threads)
    BY <1>i, PutAppends DEF Types
<1>5. Len(queue') - 1 = Len(queue) /\ Len(queue) \in Nat
    BY <1>4, AppendProperties
<1>6. SubSeq(Append(queue, arg[p]), 1, Len(queue)) = queue
  <2> DEFINE s == Append(queue, arg[p])
             u == SubSeq(s, 1, Len(queue))
  <2>1. s \in Seq(Threads) /\ Len(s) = Len(queue) + 1 /\ \A k \in 1..Len(queue) : s[k] = queue[k]
      BY <1>4, AppendProperties
  <2>2. u \in Seq(Threads) /\ Len(u) = Len(queue) /\ \A k \in 1..Len(queue) : u[k] = s[k]
      BY <1>5, <2>1
  <2> HIDE DEF s, u
  <2>3. \A k \in 1..Len(queue) : u[k] = queue[k]
      BY <2>1, <2>2
  <2>4. u = queue
      BY <1>4, <2>2, <2>3, SeqEqual
  <2> QED BY <2>4 DEF s, u
<1> QED BY <1>2, <1>3, <1>4, <1>5, <1>6 DEF Settled

\* The signal is the enqueue.
LEMMA SignalEnqueues ==
    ASSUME IInv, FiniteProcs, NEW p \in Procs, Signal(p)
    PROVE  RQ!Enqueue(arg[p])
<1>i. Types /\ Locks /\ Sleeping /\ Args /\ Order
    BY DEF IInv
<1> DEFINE s == Settled
<1>1. /\ pc[p] = "e_signal" /\ queue' = queue /\ Unsignalled
      /\ queue \in Seq(Threads) /\ queue # <<>> /\ queue[Len(queue)] = arg[p]
    BY <1>i DEF Signal, Unsignalled, Order, UnsignalledPC, Types
<1>2. Len(queue) \in Nat /\ Len(queue) > 0
    BY <1>1
<1>3. /\ s = SubSeq(queue, 1, Len(queue) - 1) /\ s \in Seq(Threads)
      /\ Len(s) = Len(queue) - 1 /\ \A k \in 1..(Len(queue) - 1) : s[k] = queue[k]
  <2>1. s = SubSeq(queue, 1, Len(queue) - 1)
      BY <1>1 DEF Settled
  <2> DEFINE n == Len(queue) - 1
  <2>2. n \in Nat /\ n \in Int /\ 1 \in Int /\ \A k \in 1..n : queue[k] \in Threads
      BY <1>1, <1>2
  <2> HIDE DEF n
  <2>3. /\ SubSeq(queue, 1, n) \in Seq(Threads)
        /\ Len(SubSeq(queue, 1, n)) = IF 1 <= n THEN n - 1 + 1 ELSE 0
        /\ \A k \in 1 .. n - 1 + 1 : SubSeq(queue, 1, n)[k] = queue[1 + k - 1]
      BY <2>2, SubSeqProperties
  <2>4. Len(SubSeq(queue, 1, n)) = n /\ \A k \in 1..n : SubSeq(queue, 1, n)[k] = queue[k]
      BY <2>2, <2>3
  <2> QED BY <2>1, <2>3, <2>4 DEF n
<1>4. Append(s, arg[p]) = queue
  <2>1. arg[p] \in Threads
      BY <1>i, <1>1 DEF Args, EnqueuePC
  <2> HIDE DEF s
  <2>2. /\ Append(s, arg[p]) \in Seq(Threads) /\ Len(Append(s, arg[p])) = Len(queue)
        /\ \A k \in 1..(Len(queue) - 1) : Append(s, arg[p])[k] = s[k]
        /\ Append(s, arg[p])[Len(queue)] = arg[p]
      BY <1>2, <1>3, <2>1, AppendProperties
  <2>3. \A k \in 1..Len(queue) : Append(s, arg[p])[k] = queue[k]
      BY <1>1, <1>2, <1>3, <2>2
  <2> QED BY <1>1, <2>2, <2>3, SeqEqual
<1>5. \A k \in DOMAIN s : s[k] # arg[p]
  <2> TAKE k \in DOMAIN s
  <2>1. k \in 1..(Len(queue) - 1)
      BY <1>3
  <2>2. k \in DOMAIN queue /\ Len(queue) \in DOMAIN queue /\ k # Len(queue) /\ s[k] = queue[k]
      BY <1>1, <1>2, <1>3, <2>1
  <2> QED BY <1>i, <1>1, <2>2 DEF Order
<1>6. Settled' = Append(Settled, arg[p])
  <2>1. ~Unsignalled'
    <3>1. \A q \in Procs \ {p} : pc[q] \notin UnsignalledPC
        BY <1>i, <1>1 DEF Locks, SpinPC, UnsignalledPC
    <3>2. CASE Goto(p, "e_munlock")
        BY <1>i, <3>1, <3>2 DEF Goto, Types, Unsignalled, UnsignalledPC
    <3>3. ASSUME NEW q \in waiting, q \in Procs,
                 pc' = [pc EXCEPT ![p] = "e_munlock", ![q] = "d_wake"]
          PROVE  ~Unsignalled'
        BY <1>i, <3>1, <3>3 DEF Types, Unsignalled, UnsignalledPC
    <3> QED BY <1>i, <3>2, <3>3, SignalWakes
  <2> QED BY <1>1, <1>4, <2>1 DEF Settled
<1>7. \/ Asleep = {} /\ Asleep' = {}
      \/ \E q \in Asleep : Asleep' = Asleep \ {q}
  <2>1. CASE Asleep = {} /\ Goto(p, "e_munlock")
      BY <1>i, <2>1 DEF Goto, Types, Asleep
  <2>2. ASSUME NEW q \in waiting, q \in Procs, q # p, pc[q] = "waiting",
               pc' = [pc EXCEPT ![p] = "e_munlock", ![q] = "d_wake"]
        PROVE  \E r \in Asleep : Asleep' = Asleep \ {r}
    <3>1. q \in Asleep /\ Asleep' = Asleep \ {q}
        BY <1>i, <1>1, <2>2 DEF Asleep, Types
    <3> QED BY <3>1
  <2> QED BY <1>i, <2>1, <2>2, SignalWakes
<1> QED BY <1>5, <1>6, <1>7 DEF RQ!Enqueue, RQ!Queued

\* Every step under the locks is one step of the atomic queue or none.
LEMMA StepSimulates == FiniteProcs /\ IInv /\ [Next]_vars => [RQ!QNext]_<<Settled, Asleep>>
<1> SUFFICES ASSUME FiniteProcs, IInv, [Next]_vars PROVE [RQ!QNext]_<<Settled, Asleep>>
    OBVIOUS
<1>i. Types /\ Locks /\ Sleeping /\ Args /\ Order
    BY DEF IInv
<1> USE DEF UnsignalledPC, AsleepPC
<1>1. ASSUME NEW p \in Procs, Acquire(p) PROVE Settled' = Settled /\ Asleep' = Asleep
    BY <1>1, <1>i, MoveStutters DEF Acquire, EnqueueLock, EnqueueMutex, DequeueLock,
                                    DequeueMutex, Wake
<1>2. ASSUME NEW p \in Procs, NEW t \in Threads, Start(p, t)
      PROVE  Settled' = Settled /\ Asleep' = Asleep
    BY <1>2, <1>i, MoveStutters DEF Start
<1>3. ASSUME NEW p \in Procs,
             \/ Stop(p) \/ EnqueueMutexUnlock(p) \/ EnqueueUnlock(p)
             \/ DequeueSpinUnlock(p) \/ Wait(p) \/ DequeueMutexUnlock(p)
      PROVE  Settled' = Settled /\ Asleep' = Asleep
    BY <1>3, <1>i, MoveStutters DEF Stop, EnqueueMutexUnlock, EnqueueUnlock,
                                    DequeueSpinUnlock, Wait, DequeueMutexUnlock
<1>4. ASSUME NEW p \in Procs, DequeueUnlock(p) PROVE Settled' = Settled /\ Asleep' = Asleep
  <2>1. PICK l \in {"run", "stop"} : Goto(p, l)
      BY <1>4 DEF DequeueUnlock
  <2> QED BY <1>4, <1>i, <2>1, MoveStutters DEF DequeueUnlock
<1>5. ASSUME NEW p \in Procs, Signal(p) PROVE RQ!QNext
  <2>1. arg[p] \in Threads
      BY <1>5, <1>i DEF Signal, Args, EnqueuePC
  <2> QED BY <1>5, <2>1, SignalEnqueues DEF RQ!QNext
<1>6. ASSUME NEW p \in Procs, Take(p) PROVE [RQ!QNext]_<<Settled, Asleep>>
  <2>1. pc[p] = "d_take"
      BY <1>6 DEF Take
  <2>2. ~Unsignalled /\ Settled = queue
      BY <1>i, <2>1 DEF Locks, SpinPC, Unsignalled, Settled
  <2>3. ASSUME NEW l \in {"d_unlock", "d_mutex"}, Goto(p, l) PROVE Settled' = queue'
      BY <1>i, <2>2, <2>3 DEF Goto, Types, Unsignalled, Settled
  <2>4. CASE queue # <<>>
    <3>1. queue' = Tail(queue) /\ Goto(p, "d_unlock")
        BY <1>6, <2>4 DEF Take
    <3>2. Asleep' = Asleep
        BY <1>i, <2>1, <3>1 DEF Goto, Types, Asleep
    <3>3. Head(queue) \in Threads
        BY <1>i, <2>4, HeadTailProperties DEF Types
    <3>4. RQ!Take(Head(queue))
        BY <2>2, <2>3, <2>4, <3>1, <3>2 DEF RQ!Take
    <3> QED BY <3>3, <3>4 DEF RQ!QNext
  <2>5. CASE queue = <<>> /\ Goto(p, "d_unlock")
    <3>1. queue' = queue
        BY <1>6, <2>5 DEF Take
    <3>2. Asleep' = Asleep
        BY <1>i, <2>1, <2>5 DEF Goto, Types, Asleep
    <3> QED BY <2>2, <2>3, <2>5, <3>1, <3>2
  <2>6. CASE queue = <<>> /\ Goto(p, "d_mutex")
    <3>1. queue' = queue
        BY <1>6, <2>6 DEF Take
    <3>2. p \notin Asleep /\ Asleep' = Asleep \cup {p}
        BY <1>i, <2>1, <2>6 DEF Goto, Types, Asleep
    <3>3. RQ!Sleep(p)
        BY <2>2, <2>3, <2>6, <3>1, <3>2 DEF RQ!Sleep
    <3> QED BY <3>3 DEF RQ!QNext
  <2> QED BY <1>6, <2>4, <2>5, <2>6 DEF Take
<1>7. ASSUME NEW p \in Procs, SpuriousWakeUp(p) PROVE RQ!QNext
  <2>1. pc[p] = "waiting" /\ Goto(p, "d_wake") /\ queue' = queue
      BY <1>7, <1>i DEF SpuriousWakeUp, Sleeping
  <2>2. p \in Asleep /\ Asleep' = Asleep \ {p}
      BY <1>i, <2>1 DEF Goto, Types, Asleep
  <2>3. Settled' = Settled
      BY <1>i, <2>1 DEF Goto, Types, Unsignalled, Settled
  <2>4. RQ!WakeUp(p)
      BY <2>2, <2>3 DEF RQ!WakeUp
  <2> QED BY <2>4 DEF RQ!QNext
<1>8. ASSUME NEW p \in Procs, Put(p) PROVE Settled' = Settled /\ Asleep' = Asleep
    BY <1>8, PutStutters
<1>9. CASE UNCHANGED vars
    BY <1>9 DEF vars, Settled, Asleep, Unsignalled
<1> QED BY <1>1, <1>2, <1>3, <1>4, <1>5, <1>6, <1>7, <1>8, <1>9 DEF Next, Other

\* The locks, the counter and the condition variable are the atomic queue that
\* the scheduler is modelled over, for any number of processors and uthreads.
THEOREM Implementation == ASSUME FiniteProcs PROVE Spec => ImplementsReadyQueue
<1>1. Init => RQ!QInit
  <2> SUFFICES ASSUME Init PROVE Settled = <<>> /\ Asleep = {}
      BY DEF RQ!QInit
  <2>1. \A p \in Procs : pc[p] \in {"run", "stop"}
      BY DEF Init
  <2>2. Asleep = {} /\ ~Unsignalled
      BY <2>1 DEF Asleep, Unsignalled
  <2> QED BY <2>2 DEF Init, Settled
<1>2. IInv /\ [Next]_vars => [RQ!QNext]_(RQ!queueVars)
    BY StepSimulates DEF RQ!queueVars
<1> QED BY <1>1, <1>2, Invariance, PTL DEF Spec, ImplementsReadyQueue, RQ!QSpec
-----------------------------------------------------------------------------
(***************************************************************************)
(* What UthreadSched_proofs shows of unblocks for any processors and       *)
(* uthreads, of the uthreads of MCPackage: they keep SafeCalls.            *)
(***************************************************************************)
UnP == INSTANCE UthreadSched_proofs WITH
        state <- u_state, joiner <- u_joiner, freed <- u_freed,
        ready <- u_ready, sleeping <- u_sleeping, pc <- u_pc, cur <- u_cur,
        to <- u_to, from <- u_from, stop <- u_stop, target <- u_target,
        handles <- u_handles, waiters <- u_waiters, owed <- u_owed,
        running <- u_running, Calls <- CallsUnblock, Threads <- SchedThreads,
        Procs <- SchedProcs

\* The calls of CallsUnblock are among those the theorem is about.
LEMMA UnblockAssumptions ==
    /\ UnP!ProcsAssumption /\ UnP!BaseAssumption /\ UnP!CallsAssumption /\ UnP!NullAssumption
    /\ UnP!SafeCalls
<1>1. UnP!ProcsAssumption
  BY SchedAssumption DEF UnP!ProcsAssumption, P0, Main
<1>2. UnP!Bases \subseteq {b1, b2} /\ \A p, q \in SchedProcs : Base[p] = Base[q] => p = q
  BY SchedAssumption DEF UnP!Bases, Base
<1>3. UnP!BaseAssumption
  BY <1>2, SchedAssumption DEF UnP!BaseAssumption
<1>4. UnP!CallsAssumption
  BY SchedAssumption DEF UnP!CallsAssumption, UnP!CallNames, CallsUnblock, Main
<1>5. UnP!NullAssumption
  BY <1>2, SchedAssumption DEF UnP!NullAssumption, UnP!TCB
<1>6. UnP!SafeCalls
  BY DEF UnP!SafeCalls, CallsUnblock
<1> QED BY <1>1, <1>3, <1>4, <1>5, <1>6

\* A step of the package is one of the uthreads that unblock, or leaves them alone.
LEMMA UnblockSteps == [PackageNext]_packageVars => [UnP!NextU]_<<UnP!vars, UnP!history>>
<1> SUFFICES ASSUME [PackageNext]_packageVars, ~UNCHANGED Unvars
             PROVE  UnP!NextU
  BY DEF Unvars, UnP!vars, UnP!history, UnP!tcbVars, UnP!queueVars, UnP!procVars, UnP!clientVars
<1>1. Un!NextU
  BY DEF PackageNext, packageVars, OthersStay
<1> QED
  BY <1>1 DEF Un!NextU, UnP!NextU, Un!ResumePays, UnP!ResumePays, Un!OtherStep,
              UnP!OtherStep, Un!UnblockAny, UnP!UnblockAny, Un!Start,
              UnP!Start, Un!history, UnP!history, Un!Dequeue, UnP!Dequeue,
              Un!SpuriousWakeUp, UnP!SpuriousWakeUp, Un!Save, UnP!Save,
              Un!Switch, UnP!Switch, Un!PostDying, UnP!PostDying,
              Un!PostRunable, UnP!PostRunable, Un!Reap, UnP!Reap, Un!Requeue,
              UnP!Requeue, Un!Resume, UnP!Resume, Un!Calling, UnP!Calling,
              Un!Idle, UnP!Idle, Un!Create, UnP!Create, Un!Yield, UnP!Yield,
              Un!Block, UnP!Block, Un!Unblock, UnP!Unblock, Un!UseHandle,
              UnP!UseHandle, Un!Join, UnP!Join, Un!Detach, UnP!Detach,
              Un!ReleaseTarget, UnP!ReleaseTarget, Un!Release, UnP!Release,
              Un!JoinLocked, UnP!JoinLocked, Un!Exit, UnP!Exit, Un!Goto,
              UnP!Goto, Un!Stop, UnP!Stop, Un!tcbVars, UnP!tcbVars,
              Un!procVars, UnP!procVars, Un!clientVars, UnP!clientVars,
              Un!vars, UnP!vars, Un!queueVars, UnP!queueVars, Un!Queued,
              UnP!Queued, Un!Enqueue, UnP!Enqueue, Un!Take, UnP!Take,
              Un!Sleep, UnP!Sleep, Un!WakeUp, UnP!WakeUp, Un!Bases, UnP!Bases,
              Un!TCB, UnP!TCB

\* For whatever uthreads run on the two processors, in any order: one that is
\* unblocked while it runs comes back from its next uthread_block.
THEOREM UnblockedUthreadsRun == PackageSpec => []RunningUnblockRemembered
<1>1. PackageInit => UnP!InitU
  BY DEF PackageInit, Un!InitU, UnP!InitU, Un!Init, UnP!Init, Un!QInit, UnP!QInit, Un!TCB, UnP!TCB,
         Un!Bases, UnP!Bases
<1>2. UnP!RunningUnblockRemembered => RunningUnblockRemembered
  BY DEF RunningUnblockRemembered, Un!RunningUnblockRemembered, UnP!RunningUnblockRemembered,
         Un!Remembered, UnP!Remembered, Un!Queued, UnP!Queued, Un!Running, UnP!Running
<1>3. UnP!SpecU => []UnP!RunningUnblockRemembered
  BY UnblockAssumptions, UnP!UnblockIsKept, PTL
<1> QED BY <1>1, <1>2, <1>3, UnblockSteps, PTL DEF PackageSpec, UnP!SpecU
-----------------------------------------------------------------------------
(***************************************************************************)
(* What UthreadSched_proofs shows of the earlier scheduler, of the         *)
(* uthreads of MCPackage: they keep SafeExits.                             *)
(***************************************************************************)
EaP == INSTANCE UthreadSched_proofs WITH
        state <- e_state, joiner <- e_joiner, freed <- e_freed,
        ready <- e_ready, sleeping <- e_sleeping, pc <- e_pc, cur <- e_cur,
        to <- e_to, from <- e_from, stop <- e_stop, target <- e_target,
        handles <- e_handles, waiters <- e_waiters, Calls <- CallsEarly,
        Threads <- SchedThreads, Procs <- SchedProcs,
        owed <- u_owed, running <- u_running    \* no part of this scheduler

\* The uthread that terminates does nothing else.
LEMMA EarlyAssumptions ==
    /\ EaP!ProcsAssumption /\ EaP!BaseAssumption /\ EaP!CallsAssumption /\ EaP!NullAssumption
    /\ EaP!SafeExits
<1>1. EaP!ProcsAssumption
  BY SchedAssumption DEF EaP!ProcsAssumption, P0, Main
<1>2. EaP!Bases \subseteq {b1, b2} /\ \A p, q \in SchedProcs : Base[p] = Base[q] => p = q
  BY SchedAssumption DEF EaP!Bases, Base
<1>3. EaP!BaseAssumption
  BY <1>2, SchedAssumption DEF EaP!BaseAssumption
<1>4. EaP!CallsAssumption
  BY SchedAssumption DEF EaP!CallsAssumption, EaP!CallNames, CallsEarly, Main
<1>5. EaP!NullAssumption
  BY <1>2, SchedAssumption DEF EaP!NullAssumption, EaP!TCB
<1>6. EaP!SafeExits
  BY DEF EaP!SafeExits, CallsEarly
<1> QED BY <1>1, <1>3, <1>4, <1>5, <1>6

\* A step of the package is one of the earlier scheduler, or leaves it alone.
LEMMA EarlySteps == [PackageNext]_packageVars => [EaP!NextEarly]_(EaP!vars)
<1> SUFFICES ASSUME [PackageNext]_packageVars, ~UNCHANGED Eavars
             PROVE  EaP!NextEarly
  BY DEF Eavars, EaP!vars, EaP!tcbVars, EaP!queueVars, EaP!procVars, EaP!clientVars
<1>1. Ea!NextEarly
  BY DEF PackageNext, packageVars, OthersStay
<1> QED
  BY <1>1 DEF Ea!NextEarly, EaP!NextEarly, Ea!StepEarly, EaP!StepEarly,
             Ea!DequeueEarly, EaP!DequeueEarly, Ea!PostEarly, EaP!PostEarly,
             Ea!YieldEarly, EaP!YieldEarly, Ea!Save, EaP!Save, Ea!Switch,
             EaP!Switch, Ea!Reap, EaP!Reap, Ea!Resume, EaP!Resume, Ea!Calling,
             EaP!Calling, Ea!Create, EaP!Create, Ea!Block, EaP!Block, Ea!Unblock,
             EaP!Unblock, Ea!UseHandle, EaP!UseHandle, Ea!Join, EaP!Join, Ea!Detach,
             EaP!Detach, Ea!ReleaseTarget, EaP!ReleaseTarget, Ea!Release,
             EaP!Release, Ea!JoinLocked, EaP!JoinLocked, Ea!Exit, EaP!Exit, Ea!Goto,
             EaP!Goto, Ea!Stop, EaP!Stop, Ea!tcbVars, EaP!tcbVars, Ea!procVars,
             EaP!procVars, Ea!clientVars, EaP!clientVars, Ea!vars, EaP!vars,
             Ea!queueVars, EaP!queueVars, Ea!Queued, EaP!Queued, Ea!Enqueue,
             EaP!Enqueue, Ea!Take, EaP!Take, Ea!Bases, EaP!Bases, Ea!TCB, EaP!TCB

\* The earlier scheduler runs no uthread twice, uses none that was freed and
\* loses none, in any order of the steps of the two processors and however many
\* uthreads they run.
THEOREM EarlyUthreadsKept == PackageSpec => []EarlyThreadsKept
<1>1. PackageInit => EaP!InitEarly
  BY DEF PackageInit, Ea!InitEarly, EaP!InitEarly, Ea!TCB, EaP!TCB, Ea!Bases, EaP!Bases
<1>2. EaP!EarlyThreadsKept => EarlyThreadsKept
  BY DEF EarlyThreadsKept, Ea!EarlyThreadsKept, EaP!EarlyThreadsKept,
         Ea!OneProcessor, EaP!OneProcessor, Ea!NoUseAfterFree, EaP!NoUseAfterFree,
         Ea!NoLostThread, EaP!NoLostThread, Ea!Touched, EaP!Touched, Ea!Queued, EaP!Queued,
         Ea!Running, EaP!Running, Ea!Joining, EaP!Joining, Ea!Yielding, EaP!Yielding
<1>3. EaP!SpecEarly => []EaP!EarlyThreadsKept
  BY EarlyAssumptions, EaP!EarlyThreads, PTL
<1> QED BY <1>1, <1>2, <1>3, EarlySteps, PTL DEF PackageSpec, EaP!SpecEarly
-----------------------------------------------------------------------------
(***************************************************************************)
(* What DiskReads_proofs shows for any number of blocks and handlers, of   *)
(* the disk readers of MCPackage.                                          *)
(***************************************************************************)
DiP == INSTANCE DiskReads_proofs WITH
        version <- d_version, cur <- d_cur, pc <- d_pc, step <- d_step,
        next <- d_next, ready <- d_ready, dead <- d_dead,
        joining <- d_joining, sleeping <- d_sleeping,
        signalled <- d_signalled, reads <- d_reads, ripe <- d_ripe,
        completed <- d_completed, pending_read_queue <- d_pending_read_queue,
        pending <- d_pending, sum <- d_sum, lock <- d_lock, mask <- d_mask,
        isInterrupt <- d_isInterrupt, frames <- d_frames

\* A step of the package is one of the disk readers, or leaves them alone.
LEMMA DiskSteps == [PackageNext]_packageVars => [DiP!Next]_(DiP!vars)
<1> SUFFICES ASSUME [PackageNext]_packageVars, ~UNCHANGED Diskvars
             PROVE  DiP!Next
  BY DEF Diskvars, DiP!vars, DiP!uthreadVars, DiP!idleVars, DiP!diskVars, DiP!programVars, DiP!signalVars
<1>1. Disk!Next
  BY DEF PackageNext, packageVars, OthersStay
<1>2. /\ Disk!ScheduleLock => DiP!ScheduleLock
      /\ Disk!prq_enqueue => DiP!prq_enqueue
      /\ Disk!EnqueueLock => DiP!EnqueueLock
      /\ Disk!queue_enqueue => DiP!queue_enqueue
      /\ Disk!SetFlag => DiP!SetFlag
      /\ Disk!PollFlag => DiP!PollFlag
      /\ Disk!PollCount => DiP!PollCount
  BY DEF Disk!Free, DiP!Free, Disk!idleVars, DiP!idleVars, Disk!diskVars, DiP!diskVars,
         Disk!programVars, DiP!programVars, Disk!signalVars, DiP!signalVars, Disk!Depth, DiP!Depth,
         Disk!SpinLock, DiP!SpinLock, Disk!SpinUnlock, DiP!SpinUnlock, Disk!At, DiP!At,
         Disk!Goto, DiP!Goto, Disk!Reading, DiP!Reading, Disk!ScheduleLock, DiP!ScheduleLock,
         Disk!prq_enqueue, DiP!prq_enqueue, Disk!EnqueueLock, DiP!EnqueueLock,
         Disk!queue_enqueue, DiP!queue_enqueue, Disk!SetFlag, DiP!SetFlag,
         Disk!PollFlag, DiP!PollFlag, Disk!PollCount, DiP!PollCount
<1>3. /\ Disk!uthread_create => DiP!uthread_create
      /\ Disk!uthread_join => DiP!uthread_join
      /\ Disk!SumUp => DiP!SumUp
      /\ Disk!StartJoiner => DiP!StartJoiner
      /\ Disk!Die => DiP!Die
      /\ Disk!StopLock => DiP!StopLock
  BY DEF Disk!ToSet, DiP!ToSet, Disk!main, DiP!main, Disk!Free, DiP!Free,
         Disk!idleVars, DiP!idleVars, Disk!diskVars, DiP!diskVars,
         Disk!programVars, DiP!programVars, Disk!Depth, DiP!Depth, Disk!SpinLock, DiP!SpinLock,
         Disk!SpinUnlock, DiP!SpinUnlock, Disk!At, DiP!At, Disk!Goto, DiP!Goto,
         Disk!InReady, DiP!InReady, Disk!Put, DiP!Put, Disk!ReadyLock, DiP!ReadyLock,
         Disk!uthread_create, DiP!uthread_create, Disk!NextJoin, DiP!NextJoin,
         Disk!uthread_join, DiP!uthread_join, Disk!SumUp, DiP!SumUp,
         Disk!StartJoiner, DiP!StartJoiner, Disk!Die, DiP!Die, Disk!StopLock, DiP!StopLock
<1>4. /\ Disk!ready_queue_dequeue => DiP!ready_queue_dequeue
      /\ Disk!FallAsleep => DiP!FallAsleep
      /\ Disk!WakeUp => DiP!WakeUp
      /\ Disk!SpuriousWakeUp => DiP!SpuriousWakeUp
      /\ Disk!Awake => DiP!Awake
      /\ Disk!uthread_switch => DiP!uthread_switch
  BY DEF Disk!main, DiP!main, Disk!base, DiP!base, Disk!Nobody, DiP!Nobody, Disk!Free, DiP!Free,
         Disk!idleVars, DiP!idleVars, Disk!diskVars, DiP!diskVars,
         Disk!programVars, DiP!programVars, Disk!signalVars, DiP!signalVars, Disk!Depth, DiP!Depth,
         Disk!SpinUnlock, DiP!SpinUnlock, Disk!PthreadLock, DiP!PthreadLock,
         Disk!PthreadUnlock, DiP!PthreadUnlock, Disk!At, DiP!At, Disk!Goto, DiP!Goto,
         Disk!ready_queue_dequeue, DiP!ready_queue_dequeue, Disk!FallAsleep, DiP!FallAsleep,
         Disk!WakeUp, DiP!WakeUp, Disk!SpuriousWakeUp, DiP!SpuriousWakeUp, Disk!Awake, DiP!Awake,
         Disk!Resumed, DiP!Resumed, Disk!uthread_switch, DiP!uthread_switch
<1>5. /\ Disk!HandlerLock => DiP!HandlerLock
      /\ Disk!HandlerTakes => DiP!HandlerTakes
      /\ Disk!HandlerReturns => DiP!HandlerReturns
      /\ Disk!Deliver => DiP!Deliver
      /\ Disk!Delivered => DiP!Delivered
      /\ Disk!ClearFlag => DiP!ClearFlag
      /\ Disk!PopLock => DiP!PopLock
      /\ Disk!queue_dequeue => DiP!queue_dequeue
  BY DEF Disk!Front, DiP!Front, Disk!Free, DiP!Free, Disk!uthreadVars, DiP!uthreadVars,
         Disk!idleVars, DiP!idleVars, Disk!diskVars, DiP!diskVars,
         Disk!programVars, DiP!programVars, Disk!signalVars, DiP!signalVars, Disk!Depth, DiP!Depth,
         Disk!SpinLock, DiP!SpinLock, Disk!SpinUnlock, DiP!SpinUnlock, Disk!Top, DiP!Top,
         Disk!HandlerAt, DiP!HandlerAt, Disk!HandlerGoto, DiP!HandlerGoto,
         Disk!HandlerLock, DiP!HandlerLock, Disk!HandlerTakes, DiP!HandlerTakes,
         Disk!HandlerReturns, DiP!HandlerReturns, Disk!Deliver, DiP!Deliver,
         Disk!Delivered, DiP!Delivered, Disk!ClearFlag, DiP!ClearFlag, Disk!PopLock, DiP!PopLock,
         Disk!queue_dequeue, DiP!queue_dequeue
<1>6. /\ Disk!uthread_unblock => DiP!uthread_unblock
      /\ Disk!WakeLock => DiP!WakeLock
      /\ Disk!WakeSignal => DiP!WakeSignal
      /\ Disk!WakeUnlock => DiP!WakeUnlock
      /\ Disk!HandleRead => DiP!HandleRead
  BY DEF Disk!ToSet, DiP!ToSet, Disk!Free, DiP!Free, Disk!uthreadVars, DiP!uthreadVars,
         Disk!idleVars, DiP!idleVars, Disk!diskVars, DiP!diskVars,
         Disk!programVars, DiP!programVars, Disk!signalVars, DiP!signalVars, Disk!Depth, DiP!Depth,
         Disk!SpinLock, DiP!SpinLock, Disk!SpinUnlock, DiP!SpinUnlock,
         Disk!PthreadLock, DiP!PthreadLock, Disk!PthreadUnlock, DiP!PthreadUnlock,
         Disk!Top, DiP!Top, Disk!HandlerAt, DiP!HandlerAt, Disk!HandlerGoto, DiP!HandlerGoto,
         Disk!InReady, DiP!InReady, Disk!Put, DiP!Put, Disk!uthread_unblock, DiP!uthread_unblock,
         Disk!WakeLock, DiP!WakeLock, Disk!WakeSignal, DiP!WakeSignal,
         Disk!WakeUnlock, DiP!WakeUnlock, Disk!handle_read, DiP!handle_read,
         Disk!HandleRead, DiP!HandleRead
<1>7. /\ Disk!TimePasses => DiP!TimePasses
      /\ Disk!Interrupt => DiP!Interrupt
  BY DEF Disk!main, DiP!main, Disk!Nobody, DiP!Nobody, Disk!uthreadVars, DiP!uthreadVars,
         Disk!idleVars, DiP!idleVars, Disk!diskVars, DiP!diskVars,
         Disk!programVars, DiP!programVars, Disk!signalVars, DiP!signalVars, Disk!Depth, DiP!Depth,
         Disk!TimePasses, DiP!TimePasses, Disk!Interrupt, DiP!Interrupt
<1> QED
  BY <1>1, <1>2, <1>3, <1>4, <1>5, <1>6, <1>7 DEF Disk!Next, DiP!Next, Disk!UthreadStep, DiP!UthreadStep,
     Disk!HandlerStep, DiP!HandlerStep

\* And it begins as one.
LEMMA DiskStarts == PackageInit => DiP!Limits /\ DiP!Init
BY DiskAssumption DEF PackageInit, Disk!Init, DiP!Init, DiP!Limits, Disk!Versions, DiP!Versions, Disk!Uthreads,
   DiP!Uthreads, Disk!base, DiP!base, Disk!main, DiP!main, Disk!Locks, DiP!Locks, Disk!Free, DiP!Free,
   Disk!Nobody, DiP!Nobody

\* For any number of blocks and all four programs, the result of a read is used
\* when the disk has done it, whatever interrupts what.
THEOREM ResultsAreThere == PackageSpec => []ResultsDelivered
<1>1. DiP!ResultsDelivered => ResultsDelivered
  BY DEF ResultsDelivered, Disk!ResultsDelivered, DiP!ResultsDelivered, Disk!HasResult, DiP!HasResult,
         Disk!Readers, DiP!Readers
<1>2. DiP!Limits => (DiP!Spec => []DiP!ResultsDelivered)
  BY DiP!ReadResults
<1>3. DiP!Limits
  BY DiskAssumption DEF DiP!Limits
<1> QED BY <1>1, <1>2, <1>3, DiskStarts, DiskSteps, PTL DEF PackageSpec, DiP!Spec

\* For any number of blocks and all four programs, a handler of SIGALRM waits
\* for ever only in the two ways that are known.
THEOREM HandlersHangAsKnown == PackageSpec => []OnlyKnownHangs
<1>1. DiP!OnlyKnownHangs => OnlyKnownHangs
  BY DEF OnlyKnownHangs, Disk!OnlyKnownHangs, DiP!OnlyKnownHangs, Disk!Hangs, DiP!Hangs, Disk!Wanted, DiP!Wanted,
         Disk!Top, DiP!Top, Disk!Depth, DiP!Depth, Disk!Free, DiP!Free, Disk!base, DiP!base
<1>2. DiP!Limits => (DiP!Spec => []DiP!OnlyKnownHangs)
  BY DiP!ReadHangs
<1>3. DiP!Limits
  BY DiskAssumption DEF DiP!Limits
<1> QED BY <1>1, <1>2, <1>3, DiskStarts, DiskSteps, PTL DEF PackageSpec, DiP!Spec
=============================================================================
