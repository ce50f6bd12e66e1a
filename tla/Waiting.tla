------------------------------ MODULE Waiting ------------------------------
(***************************************************************************)
(* What the programs that use condition variables and semaphores need of   *)
(* them: threads wait in the order they came, and a signal takes the first *)
(* off the queue.  A program's step is a whole section under its mutex, as *)
(* UthreadMutex and UthreadSem justify; the thread taken off the queue     *)
(* runs its next section when it gets the mutex again, in any order.       *)
(***************************************************************************)
EXTENDS Naturals, Sequences

Least(m, n) == IF m < n THEN m ELSE n

\* The threads that n signals wake, and the queue they leave.
Signalled(q, n) == {q[i] : i \in 1..Least(n, Len(q))}
LeftAfter(q, n) == SubSeq(q, n + 1, Len(q))
=============================================================================
