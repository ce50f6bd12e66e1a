---------------------------- MODULE BoundedBuffer ----------------------------
(***************************************************************************)
(* examples/uthread/examples/bounded-buffer.c: a ring between as many      *)
(* producers as consumers, with one mutex and two condition variables.  A  *)
(* step is a section under queue_mutex, up to uthread_cond_wait or to the  *)
(* unlock.  A value is the producer that put it.                           *)
(***************************************************************************)
EXTENDS Integers, Waiting

CONSTANTS
    Producers,
    Consumers,
    QUEUE_SIZE,
    NUM_ITERATIONS

VARIABLES
    queue, queue_head, queue_tail,  \* the ring
    val,            \* what the last queue_dequeue returned
    not_empty,      \* the threads that wait on queue_not_empty
    not_full,       \* the threads that wait on queue_not_full
    iterations,     \* i of producer and consumer
    pc              \* where each thread is

ring == <<queue, queue_head, queue_tail, val>>
vars == <<ring, not_empty, not_full, iterations, pc>>

Threads == Producers \cup Consumers
Slots == 0..(QUEUE_SIZE - 1)

TypeOK ==
    /\ queue \in [Slots -> Producers]
    /\ queue_head \in Slots /\ queue_tail \in Slots
    /\ val \in Producers
    /\ not_empty \in Seq(Consumers)
    /\ not_full \in Seq(Producers)
    /\ iterations \in [Threads -> 0..NUM_ITERATIONS]
    /\ pc \in [Threads -> {"runs", "waits", "woken"}]

\* queue_init; what the ring holds at first is never read.
Init ==
    /\ queue = [s \in Slots |-> CHOOSE p \in Producers : TRUE]
    /\ val = CHOOSE p \in Producers : TRUE
    /\ queue_head = 0 /\ queue_tail = 0
    /\ not_empty = <<>> /\ not_full = <<>>
    /\ iterations = [t \in Threads |-> 0]
    /\ pc = [t \in Threads |-> "runs"]

\* Variant: the index is not taken back to the start of the array.
nextNoWrap(i) == i + 1

next(i) == (i + 1) % QUEUE_SIZE

\* t runs its section: it called queue_enqueue or queue_dequeue, or its wait returned.
Runs(t) == pc[t] \in {"runs", "woken"} /\ iterations[t] < NUM_ITERATIONS

Waits(t) == pc' = [pc EXCEPT ![t] = "waits"] /\ UNCHANGED <<ring, iterations>>

\* t is done with one iteration and has signalled the first of q.
Done(t, q) ==
    /\ iterations' = [iterations EXCEPT ![t] = @ + 1]
    /\ pc' = [u \in Threads |-> IF u = t THEN "runs"
                                ELSE IF u \in Signalled(q, 1) THEN "woken" ELSE pc[u]]

\* Variant: the test for a full buffer is missing.
enqueueFull(p) ==
    /\ Runs(p)
    /\ queue' = [queue EXCEPT ![queue_tail] = p]
    /\ queue_tail' = next(queue_tail)
    /\ not_empty' = LeftAfter(not_empty, 1)
    /\ Done(p, not_empty)
    /\ UNCHANGED <<queue_head, val, not_full>>

queue_enqueue(p) ==
    /\ Runs(p)
    /\ IF next(queue_tail) = queue_head
       THEN Waits(p) /\ not_full' = Append(not_full, p) /\ UNCHANGED not_empty
       ELSE /\ queue' = [queue EXCEPT ![queue_tail] = p]
            /\ queue_tail' = next(queue_tail)
            /\ not_empty' = LeftAfter(not_empty, 1)
            /\ Done(p, not_empty)
            /\ UNCHANGED <<queue_head, val, not_full>>

\* Variant: the consumer signals only when the buffer was full.
dequeueSignalsAtFull(c) ==
    /\ Runs(c)
    /\ IF queue_head = queue_tail
       THEN Waits(c) /\ not_empty' = Append(not_empty, c) /\ UNCHANGED not_full
       ELSE LET q == IF next(queue_tail) = queue_head THEN not_full ELSE <<>> IN
            /\ val' = queue[queue_head]
            /\ queue_head' = next(queue_head)
            /\ not_full' = IF q = <<>> THEN not_full ELSE LeftAfter(not_full, 1)
            /\ Done(c, q)
            /\ UNCHANGED <<queue, queue_tail, not_empty>>

queue_dequeue(c) ==
    /\ Runs(c)
    /\ IF queue_head = queue_tail
       THEN Waits(c) /\ not_empty' = Append(not_empty, c) /\ UNCHANGED not_full
       ELSE /\ val' = queue[queue_head]
            /\ queue_head' = next(queue_head)
            /\ not_full' = LeftAfter(not_full, 1)
            /\ Done(c, not_full)
            /\ UNCHANGED <<queue, queue_tail, not_empty>>

Step(t) == (t \in Producers /\ queue_enqueue(t)) \/ (t \in Consumers /\ queue_dequeue(t))

Next == \E t \in Threads : Step(t)

Spec == Init /\ [][Next]_vars

-----------------------------------------------------------------------------
\* The values between head and tail of the ring.
Contents == [i \in 1..((queue_tail - queue_head + QUEUE_SIZE) % QUEUE_SIZE) |->
                queue[(queue_head + i - 1) % QUEUE_SIZE]]

Q == INSTANCE BoundedQueue WITH
        Values <- Producers, Capacity <- QUEUE_SIZE - 1, contents <- Contents

\* The ring is a queue of QUEUE_SIZE - 1 values: none is overwritten before it
\* is read, none is read twice or out of order.
ImplementsBoundedQueue == Q!BQSpec

AllDone == \A t \in Threads : iterations[t] = NUM_ITERATIONS
=============================================================================
