---------------------------- MODULE UthreadQueue ----------------------------
(***************************************************************************)
(* The queues of uthread.c, linked through the uthreads themselves: a      *)
(* uthread has one next pointer, whatever queue it is on, and the last one *)
(* of a queue has none.  uthread_enqueue takes a uthread with a next       *)
(* pointer, and the last one of this queue, for one that is queued         *)
(* already.  The last one of another queue it cannot tell from a free one; *)
(* the callers see to it that this does not happen (they dequeue a uthread *)
(* before they start it).                                                  *)
(***************************************************************************)
EXTENDS Naturals, Sequences

CONSTANTS Queues, TCBs, Null

ASSUME NullAssumption == Null \notin TCBs

VARIABLES
    head, tail,     \* of each queue, or Null
    next,           \* of each uthread, or Null
    content         \* history: the uthreads of each queue, first one first

pointers == <<head, tail, next>>
linkVars == <<pointers, content>>

On(q, t) == \E i \in DOMAIN content[q] : content[q][i] = t

\* uthread_initqueue
InitQueues == /\ head = [q \in Queues |-> Null]
        /\ tail = [q \in Queues |-> Null]
        /\ next = [t \in TCBs |-> Null]
        /\ content = [q \in Queues |-> <<>>]

\* Variant: only the next pointer is looked at.
EnqueuedByNext(q, t) == next[t] # Null

\* "already enqueued!"
Enqueued(q, t) == next[t] # Null \/ t = tail[q]

\* The caller knows that t is not the last uthread of another queue.
uthread_enqueue(q, t) ==
    /\ \A r \in Queues \ {q} : tail[r] # t
    /\ IF Enqueued(q, t) THEN UNCHANGED pointers
       ELSE /\ next' = [u \in TCBs |-> IF u = tail[q] THEN t ELSE next[u]]
            /\ tail' = [tail EXCEPT ![q] = t]
            /\ head' = IF head[q] = Null THEN [head EXCEPT ![q] = t] ELSE head
    /\ content' = IF \E r \in Queues : On(r, t) THEN content
                  ELSE [content EXCEPT ![q] = Append(@, t)]

\* Variant: the tail is left behind when the last uthread goes.
DequeueKeepsTail(q) ==
    /\ head[q] # Null
    /\ head' = [head EXCEPT ![q] = next[head[q]]]
    /\ next' = [next EXCEPT ![head[q]] = Null]
    /\ content' = [content EXCEPT ![q] = Tail(@)]
    /\ UNCHANGED tail

\* With an empty queue nothing changes, and the caller gets a null uthread.
uthread_dequeue(q) ==
    /\ head[q] # Null
    /\ head' = [head EXCEPT ![q] = next[head[q]]]
    /\ next' = [next EXCEPT ![head[q]] = Null]
    /\ tail' = IF next[head[q]] = Null THEN [tail EXCEPT ![q] = Null] ELSE tail
    /\ content' = [content EXCEPT ![q] = Tail(@)]

NextQueues == \E q \in Queues : uthread_dequeue(q) \/ \E t \in TCBs : uthread_enqueue(q, t)

SpecQueues == InitQueues /\ [][NextQueues]_linkVars

-----------------------------------------------------------------------------
\* The pointers of queue q run through content[q] from its head to its tail.
LinkedThrough(q) ==
    LET c == content[q] IN
    /\ IF c = <<>> THEN head[q] = Null /\ tail[q] = Null
       ELSE head[q] = c[1] /\ tail[q] = c[Len(c)] /\ next[c[Len(c)]] = Null
    /\ \A i \in 1..(Len(c) - 1) : next[c[i]] = c[i + 1]

\* Whatever is enqueued, also again and on another queue, the pointers are
\* first-in first-out queues that share no uthread and hold none twice, and a
\* uthread that is on none has no next pointer left from the last one.
QueuesLinked ==
    /\ \A q \in Queues : LinkedThrough(q)
    /\ \A q, r \in Queues : \A i \in DOMAIN content[q], j \in DOMAIN content[r] :
          content[q][i] = content[r][j] => q = r /\ i = j
    /\ \A t \in TCBs : next[t] # Null => \E q \in Queues : On(q, t)
=============================================================================
