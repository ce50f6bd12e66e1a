------------------------------ MODULE Handoffs -----------------------------
(***************************************************************************)
(* Four small programs whose threads hand over to each other: q1.c of a10, *)
(* which joins a thread before it creates the next; q2.c, which counts up  *)
(* and down under a mutex; q4.c, which passes a turn on with a condition   *)
(* variable for each; and ping_pong_sem.c of examples/uthread.  Where      *)
(* there is a mutex with conditions a step is a whole section under it.    *)
(***************************************************************************)
EXTENDS Integers, Sequences, Waiting

CONSTANTS
    N,          \* how often a thread of q2.c counts up
    Rounds      \* of ping and pong

VARIABLES
    version,
    pc,
    printed,        \* q1 and q4: what was printed, 3 by main
    canGo, waiters, \* q4: canGo1 and canGo2, and the queues of cond1 and cond2
    cnt, mx, local, \* q2: the counter, who has the mutex, what a thread read of cnt
    go,             \* ping_pong_sem: the values of go_ping and go_pong
    i               \* the loops of q2 and of ping_pong_sem
vars == <<version, pc, printed, canGo, waiters, cnt, mx, local, go, i>>

Versions == {"q1", "q2", "q4", "ping_pong_sem"}
Nobody == -1
Players == {0, 1}                                   \* ping and pong
Threads == IF version = "ping_pong_sem" THEN Players ELSE 0..2

Init ==
    /\ version \in Versions
    /\ pc = [t \in 0..3 |-> "starts"]
    /\ printed = <<>>
    /\ canGo = [t \in {1, 2} |-> 0] /\ waiters = [t \in {1, 2} |-> <<>>]
    /\ cnt = 0 /\ mx = Nobody /\ local = [t \in 0..2 |-> 0]
    /\ go = [t \in Players |-> 0]
    /\ i = [t \in 0..2 |-> 0]

To(t, place) == pc' = [pc EXCEPT ![t] = place]

-----------------------------------------------------------------------------
\* q1: main creates thread t when it has joined the one before.
Prints(t) ==
    /\ version = "q1" /\ pc[t] = "starts"
    /\ t > 0 => pc[t - 1] = "done"
    /\ printed' = Append(printed, t) /\ To(t, "done")
    /\ UNCHANGED <<version, canGo, waiters, cnt, mx, local, go, i>>

\* main prints when it has joined all.
MainPrints ==
    /\ version \in {"q1", "q4"} /\ pc[3] = "starts"
    /\ \A t \in 0..2 : pc[t] = "done"
    /\ printed' = Append(printed, 3) /\ To(3, "done")
    /\ UNCHANGED <<version, canGo, waiters, cnt, mx, local, go, i>>

\* q4: p0, p1 and p2.
TakesTurn(t) ==
    /\ version = "q4" /\ pc[t] \in {"starts", "woken"}
    /\ IF t > 0 /\ canGo[t] = 0
       THEN /\ waiters' = [waiters EXCEPT ![t] = Append(@, t)] /\ To(t, "waits")
            /\ UNCHANGED <<printed, canGo>>
       ELSE /\ printed' = Append(printed, t)
            /\ IF t = 2 THEN To(t, "done") /\ UNCHANGED <<canGo, waiters>>
               ELSE /\ canGo' = [canGo EXCEPT ![t + 1] = 1]
                    /\ waiters' = [waiters EXCEPT ![t + 1] = LeftAfter(@, 1)]
                    /\ pc' = [u \in DOMAIN pc |-> IF u = t THEN "done"
                                                  ELSE IF u \in Signalled(waiters[t + 1], 1) THEN "woken" ELSE pc[u]]
    /\ UNCHANGED <<version, cnt, mx, local, go, i>>

-----------------------------------------------------------------------------
\* Variant: the mutex is not waited for.
LockAnyway(t) ==
    /\ version = "q2" /\ pc[t] = "starts"
    /\ mx' = t /\ To(t, "reads")
    /\ UNCHANGED <<version, printed, canGo, waiters, cnt, local, go, i>>

\* q2: count locks the mutex, and cnt += 1 and cnt -= 1 are a read and a write.
Lock(t) ==
    /\ version = "q2" /\ pc[t] = "starts" /\ mx = Nobody
    /\ mx' = t /\ To(t, "reads")
    /\ UNCHANGED <<version, printed, canGo, waiters, cnt, local, go, i>>

Reads(t) ==
    /\ version = "q2" /\ pc[t] = "reads"
    /\ local' = [local EXCEPT ![t] = cnt] /\ To(t, "writes")
    /\ UNCHANGED <<version, printed, canGo, waiters, cnt, mx, go, i>>

Writes(t) ==
    /\ version = "q2" /\ pc[t] = "writes"
    /\ cnt' = local[t] + (IF i[t] < N THEN 1 ELSE -1)
    /\ i' = [i EXCEPT ![t] = @ + 1]
    /\ To(t, IF i[t] + 1 < 2 * N THEN "reads" ELSE "unlocks")
    /\ UNCHANGED <<version, printed, canGo, waiters, mx, local, go>>

Unlock(t) ==
    /\ version = "q2" /\ pc[t] = "unlocks"
    /\ mx' = Nobody /\ To(t, "done")
    /\ UNCHANGED <<version, printed, canGo, waiters, cnt, local, go, i>>

-----------------------------------------------------------------------------
\* Variant: the semaphore gives a permit that it does not have.
WaitsNot(t) ==
    /\ version = "ping_pong_sem" /\ pc[t] = "waits"
    /\ go' = [go EXCEPT ![t] = @ - 1]
    /\ i' = [i EXCEPT ![t] = @ + 1]
    /\ To(t, IF i[t] + 1 < Rounds THEN "starts" ELSE "done")
    /\ UNCHANGED <<version, printed, canGo, waiters, cnt, mx, local>>

\* ping and pong: signal the other's semaphore, then wait on the own one.
Signals(t) ==
    /\ version = "ping_pong_sem" /\ pc[t] = "starts"
    /\ go' = [go EXCEPT ![1 - t] = @ + 1] /\ To(t, "waits")
    /\ UNCHANGED <<version, printed, canGo, waiters, cnt, mx, local, i>>

Waits(t) ==
    /\ version = "ping_pong_sem" /\ pc[t] = "waits" /\ go[t] > 0
    /\ go' = [go EXCEPT ![t] = @ - 1]
    /\ i' = [i EXCEPT ![t] = @ + 1]
    /\ To(t, IF i[t] + 1 < Rounds THEN "starts" ELSE "done")
    /\ UNCHANGED <<version, printed, canGo, waiters, cnt, mx, local>>

Step(t) ==
    \/ Prints(t) \/ TakesTurn(t) \/ Lock(t) \/ Reads(t) \/ Writes(t) \/ Unlock(t)
    \/ t \in Players /\ (Signals(t) \/ Waits(t))
Next == MainPrints \/ \E t \in 0..2 : Step(t)

Spec == Init /\ [][Next]_vars

-----------------------------------------------------------------------------
AllDone == /\ \A t \in Threads : pc[t] = "done"
           /\ version \in {"q1", "q4"} => pc[3] = "done"

\* The words of q1.c and q4.c come in order, whoever locks the mutex first, and
\* ping and pong are never more than a line apart.
InOrder == /\ printed = [k \in 1..Len(printed) |-> k - 1]
           /\ i[0] - i[1] \in -1..1 \/ version # "ping_pong_sem"

\* q2.c: cnt is zero whenever nobody has the mutex.
CountsBack == mx = Nobody => cnt = 0
=============================================================================
