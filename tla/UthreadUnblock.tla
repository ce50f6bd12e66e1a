--------------------------- MODULE UthreadUnblock ---------------------------
(***************************************************************************)
(* UthreadSched with a history variable for what uthread.h promises of     *)
(* uthread_unblock: a thread unblocked while it is not blocked is owed an  *)
(* immediate return from its next uthread_block.                           *)
(***************************************************************************)
EXTENDS UthreadSched

VARIABLES
    owed,       \* threads unblocked while not blocked, since they last woke up
    running     \* those of them that were running then and not on the ready queue

history == <<owed, running>>

InitU == Init /\ owed = {} /\ running = {}

\* Variant: nothing to do for a thread that is not blocked.
StartIfBlocked(u) == IF state[u] = "BLOCKED" THEN Enqueue(u) ELSE UNCHANGED queueVars

\* uthread_start.
Start(u) == Enqueue(u)

\* uthread_unblock (u) by a client that does not know whether u is blocked.
UnblockAny(p, u) ==
    /\ Calling(p, "unblock_any")
    /\ u # cur[p]
    /\ state[u] \notin {"NONE", "DYING", "DEAD"}
    /\ Start(u)
    /\ UNCHANGED <<tcbVars, procVars, clientVars>>
    /\ owed' = IF state[u] = "BLOCKED" THEN owed ELSE owed \cup {u}
    /\ running' = IF state[u] = "RUNNING" /\ u \notin Queued THEN running \cup {u} ELSE running

ResumePays(p) ==
    /\ Resume(p)
    /\ IF state[cur[p]] = "BLOCKED"
       THEN owed' = owed \ {cur[p]} /\ running' = running \ {cur[p]}
       ELSE UNCHANGED history

OtherStep(p) ==
    /\ \/ Dequeue(p) \/ SpuriousWakeUp(p) \/ Save(p) \/ Switch(p)
       \/ PostDying(p) \/ PostRunable(p) \/ Reap(p) \/ Requeue(p)
       \/ Idle(p) \/ Yield(p) \/ Block(p) \/ Exit(p)
       \/ JoinLocked(p) \/ Release(p)
       \/ \E t \in Threads : \/ Create(p, t) \/ Unblock(p, t)
                             \/ Join(p, t) \/ Detach(p, t)
    /\ UNCHANGED history

NextU == \E p \in Procs : \/ ResumePays(p) \/ OtherStep(p)
                          \/ \E u \in Threads : UnblockAny(p, u)

SpecU == InitU /\ [][NextU]_<<vars, history>>

-----------------------------------------------------------------------------
\* A thread of T that has blocked is on its way to run again.
Remembered(T) ==
    \A t \in T : state[t] = "BLOCKED" =>
        t \in Queued \/ Running(t) \/ \E p \in Procs : to[p] = t

\* uthread.h:37: "if the target thread is not currently blocked, the target's
\* next call to uthread_block will return immediately".
UnblockRemembered == Remembered(owed)

\* The part of that promise that the code keeps: the target was running, in the
\* program or on its way into uthread_block, and not on the ready queue.
RunningUnblockRemembered == Remembered(running)
=============================================================================
