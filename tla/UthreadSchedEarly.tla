-------------------------- MODULE UthreadSchedEarly -------------------------
(***************************************************************************)
(* The scheduler of a9/sRead and a9/treasureHunt, an earlier version of    *)
(* the one in UthreadSched.  A uthread that yields puts itself on the      *)
(* ready queue before it stops, nobody looks at the state of from_thread   *)
(* again to requeue it, and an idle processor does not sleep: its base     *)
(* uthread is on the ready queue as well and yields for ever.              *)
(***************************************************************************)
EXTENDS UthreadSched

\* uthread_create puts the base uthread of P0 on the ready queue.
InitEarly ==
    /\ state = [t \in TCB |-> IF t = Base[P0] THEN "NASCENT"
                              ELSE IF t = Main \/ t \in Bases THEN "RUNNING"
                              ELSE "NONE"]
    /\ joiner = [t \in TCB |-> None]
    /\ freed = {}
    /\ ready = <<Base[P0]>> /\ sleeping = {}
    /\ pc = [p \in Procs |-> "user"]
    /\ cur = [p \in Procs |-> IF p = P0 THEN Main ELSE Base[p]]
    /\ to = [p \in Procs |-> None]
    /\ from = [p \in Procs |-> None]
    /\ stop = [p \in Procs |-> "BLOCKED"]
    /\ target = [t \in TCB |-> None]
    /\ handles = {} /\ waiters = {}

\* ready_queue_dequeue loops until a uthread is queued.
DequeueEarly(p) ==
    /\ pc[p] = "dequeue"
    /\ \E t \in Queued : Take(t) /\ to' = [to EXCEPT ![p] = t]
    /\ Goto(p, "save")
    /\ UNCHANGED <<tcbVars, cur, from, stop, clientVars>>

\* Variant: the uthread is requeued after the switch, as in a11.
PostRequeues(p) ==
    /\ pc[p] = "post"
    /\ \/ /\ state[from[p]] = "DYING" /\ Goto(p, "reap")
          /\ UNCHANGED queueVars
       \/ /\ state[from[p]] = "RUNABLE" /\ Goto(p, "resume")
          /\ Enqueue(from[p])
       \/ /\ state[from[p]] \notin {"DYING", "RUNABLE"} /\ Goto(p, "resume")
          /\ UNCHANGED queueVars
    /\ UNCHANGED <<tcbVars, cur, to, from, stop, clientVars>>

\* After the switch only a uthread that terminates is looked after.
PostEarly(p) ==
    /\ pc[p] = "post"
    /\ Goto(p, IF state[from[p]] = "DYING" THEN "reap" ELSE "resume")
    /\ UNCHANGED <<tcbVars, queueVars, cur, to, from, stop, clientVars>>

\* uthread_yield: on the ready queue first, while it still runs.
YieldEarly(p) ==
    /\ pc[p] = "user"
    /\ cur[p] \in Bases \/ Calling(p, "yield")
    /\ Enqueue(cur[p])
    /\ Stop(p, "RUNABLE")
    /\ UNCHANGED <<tcbVars, cur, to, from, clientVars>>

StepEarly(p) ==
    \/ DequeueEarly(p) \/ Save(p) \/ Switch(p)
    \/ PostEarly(p) \/ Reap(p) \/ Resume(p)
    \/ YieldEarly(p) \/ Block(p) \/ Exit(p)
    \/ JoinLocked(p) \/ Release(p)
    \/ \E t \in Threads : \/ Create(p, t) \/ Unblock(p, t)
                          \/ Join(p, t) \/ Detach(p, t)

NextEarly == \E p \in Procs : StepEarly(p)

SpecEarly == InitEarly /\ [][NextEarly]_vars

-----------------------------------------------------------------------------
\* A uthread that yields is dequeued elsewhere while it is still being saved,
\* blocks and yields again in any order: it never runs on two processors, is
\* never used after it was freed and never lost.
EarlyThreadsKept == OneProcessor /\ NoUseAfterFree /\ NoLostThread
=============================================================================
