---------------------------- MODULE UthreadSched ----------------------------
(***************************************************************************)
(* The uthread scheduler (a11/uthreads/uthread.c): uthreads multiplexed    *)
(* over kernel threads, the "processors".  A processor that stops its      *)
(* uthread dequeues another one, saves the old one, spins until the new    *)
(* one has been saved by whoever ran it last, switches stacks, and then,   *)
(* on the new stack, disposes of the uthread it came from.                 *)
(*                                                                         *)
(* Sections protected by one spinlock are atomic here: the ready queue     *)
(* under ready_queue_spinlock (its idle protocol is refined in             *)
(* ReadyQueueIdle) and join/detach/exit under join_spinlock.  Every read   *)
(* the code makes outside a lock is a step of its own.                     *)
(***************************************************************************)
EXTENDS ReadyQueue, Integers, FiniteSets

CONSTANTS
    P0,         \* the processor that called uthread_init
    Main,       \* the uthread that called uthread_init
    Base,       \* [Procs -> base uthreads]: what a processor runs when idle
    Calls,      \* [Threads -> SUBSET CallNames]: the API calls each one makes
    None,       \* a null uthread_t
    Detached    \* the value (uthread_t) -1 of joiner

CallNames == {"create", "yield", "block", "unblock", "unblock_any",
              "join", "detach", "exit"}

Bases == {Base[p] : p \in Procs}
TCB == Threads \cup Bases

ASSUME ProcsAssumption == P0 \in Procs /\ Main \in Threads
ASSUME BaseAssumption ==
    /\ \A p, q \in Procs : Base[p] = Base[q] => p = q
    /\ Bases \cap Threads = {}
ASSUME CallsAssumption == /\ Calls \in [Threads -> SUBSET CallNames]
                          /\ "exit" \notin Calls[Main]
ASSUME NullAssumption == /\ None # Detached
                         /\ {None, Detached} \cap TCB = {}

VARIABLES
    state,      \* TCB.state; NONE before uthread_alloc
    joiner,     \* TCB.joiner
    freed,      \* TCBs given back to the allocator
    pc,         \* where each processor is in the code
    cur,        \* the uthread whose stack it runs on: uthread_self()
    to,         \* to_thread of uthread_switch
    from,       \* from_thread of uthread_switch
    stop,       \* stopping_thread_state of uthread_stop
    target,     \* the argument of the uthread_join or uthread_detach in progress
    handles,    \* uthreads that nobody has joined or detached yet
    waiters     \* uthreads on some waiter queue of the client

tcbVars == <<state, joiner, freed>>
procVars == <<pc, cur, to, from, stop>>
clientVars == <<target, handles, waiters>>
vars == <<tcbVars, queueVars, procVars, clientVars>>

States == {"NONE", "NASCENT", "RUNNING", "RUNABLE", "BLOCKED", "DYING", "DEAD"}

TypeOK ==
    /\ state \in [TCB -> States]
    /\ joiner \in [TCB -> TCB \cup {None, Detached}]
    /\ freed \subseteq TCB
    /\ ready \in Seq(TCB)
    /\ sleeping \subseteq Procs
    /\ pc \in [Procs -> {"user", "join", "release", "dequeue", "save", "spin",
                         "post", "recheck", "reap", "requeue", "resume"}]
    /\ cur \in [Procs -> TCB]
    /\ to \in [Procs -> TCB \cup {None}]
    /\ from \in [Procs -> TCB \cup {None}]
    /\ stop \in [Procs -> {"RUNABLE", "BLOCKED", "DYING"}]
    /\ target \in [TCB -> Threads \cup {None}]
    /\ handles \subseteq Threads
    /\ waiters \subseteq Threads

\* uthread_init: Main runs on P0, whose base uthread is NASCENT and idle; the
\* other processors run their base uthreads.
Init ==
    /\ state = [t \in TCB |-> IF t = Base[P0] THEN "NASCENT"
                              ELSE IF t = Main \/ t \in Bases THEN "RUNNING"
                              ELSE "NONE"]
    /\ joiner = [t \in TCB |-> None]
    /\ freed = {}
    /\ QInit
    /\ pc = [p \in Procs |-> "user"]
    /\ cur = [p \in Procs |-> IF p = P0 THEN Main ELSE Base[p]]
    /\ to = [p \in Procs |-> None]
    /\ from = [p \in Procs |-> None]
    /\ stop = [p \in Procs |-> "BLOCKED"]
    /\ target = [t \in TCB |-> None]
    /\ handles = {}
    /\ waiters = {}

-----------------------------------------------------------------------------
Goto(p, l) == pc' = [pc EXCEPT ![p] = l]

\* uthread_stop (s), called by the uthread that runs on p.
Stop(p, s) == /\ stop' = [stop EXCEPT ![p] = s]
              /\ Goto(p, "dequeue")

\* ready_queue_dequeue: the head of the queue, or the base uthread of this
\* processor, or, when that is what runs already, sleep.
Dequeue(p) ==
    /\ pc[p] = "dequeue"
    /\ p \notin sleeping
    /\ \/ \E t \in Queued : /\ Take(t)
                            /\ to' = [to EXCEPT ![p] = t]
                            /\ Goto(p, "save")
       \/ /\ ready = <<>> /\ cur[p] # Base[p]
          /\ to' = [to EXCEPT ![p] = Base[p]]
          /\ Goto(p, "save")
          /\ UNCHANGED queueVars
       \/ /\ cur[p] = Base[p]
          /\ Sleep(p)
          /\ UNCHANGED <<to, pc>>
    /\ UNCHANGED <<tcbVars, cur, from, stop, clientVars>>

\* pthread_cond_wait may return without a signal: the loop dequeues again.
SpuriousWakeUp(p) ==
    /\ WakeUp(p)
    /\ UNCHANGED <<tcbVars, procVars, clientVars>>

-----------------------------------------------------------------------------
(* uthread_switch.                                                         *)

\* Variant: spin before the state of from_thread is set.
SaveAfterSpin(p) ==
    /\ pc[p] = "save"
    /\ state[to[p]] # "RUNNING"
    /\ state' = [state EXCEPT ![cur[p]] = stop[p]]
    /\ Goto(p, "spin")
    /\ UNCHANGED <<joiner, freed, queueVars, cur, to, from, stop, clientVars>>

\* Registers and stack pointer saved, then the state of from_thread is set.
Save(p) ==
    /\ pc[p] = "save"
    /\ state' = [state EXCEPT ![cur[p]] = stop[p]]
    /\ Goto(p, "spin")
    /\ UNCHANGED <<joiner, freed, queueVars, cur, to, from, stop, clientVars>>

\* Variant: do not wait for to_thread to be saved.
SwitchNoSpin(p) ==
    /\ pc[p] = "spin"
    /\ from' = [from EXCEPT ![p] = cur[p]]
    /\ cur' = [cur EXCEPT ![p] = to[p]]
    /\ to' = [to EXCEPT ![p] = None]
    /\ Goto(p, "post")
    /\ UNCHANGED <<tcbVars, queueVars, stop, clientVars>>

\* Spin while to_thread still runs elsewhere, then adopt its stack.
Switch(p) ==
    /\ pc[p] = "spin"
    /\ state[to[p]] # "RUNNING"
    /\ from' = [from EXCEPT ![p] = cur[p]]
    /\ cur' = [cur EXCEPT ![p] = to[p]]
    /\ to' = [to EXCEPT ![p] = None]
    /\ Goto(p, "post")
    /\ UNCHANGED <<tcbVars, queueVars, stop, clientVars>>

\* if (from_thread->state == TS_DYING) ...
PostDying(p) ==
    /\ pc[p] = "post"
    /\ Goto(p, IF state[from[p]] = "DYING" THEN "reap" ELSE "recheck")
    /\ UNCHANGED <<tcbVars, queueVars, cur, to, from, stop, clientVars>>

\* Variant: requeue from_thread only if it is BLOCKED, the inverted test.
PostInverted(p) ==
    /\ pc[p] = "recheck"
    /\ Goto(p, IF state[from[p]] = "RUNABLE" THEN "resume" ELSE "requeue")
    /\ UNCHANGED <<tcbVars, queueVars, cur, to, from, stop, clientVars>>

\* ... else if (from_thread->state == TS_RUNABLE) ...
PostRunable(p) ==
    /\ pc[p] = "recheck"
    /\ Goto(p, IF state[from[p]] = "RUNABLE" THEN "requeue" ELSE "resume")
    /\ UNCHANGED <<tcbVars, queueVars, cur, to, from, stop, clientVars>>

\* Variant: a terminated thread is always DEAD, even when nobody will join it.
ReapNoFree(p) ==
    /\ pc[p] = "reap"
    /\ state' = [state EXCEPT ![from[p]] = "DEAD"]
    /\ Goto(p, "resume")
    /\ UNCHANGED <<joiner, freed, queueVars, cur, to, from, stop, clientVars>>

\* Under the join lock: free a detached thread, mark any other one DEAD.
Reap(p) ==
    /\ pc[p] = "reap"
    /\ IF joiner[from[p]] = Detached
       THEN freed' = freed \cup {from[p]} /\ UNCHANGED state
       ELSE state' = [state EXCEPT ![from[p]] = "DEAD"] /\ UNCHANGED freed
    /\ Goto(p, "resume")
    /\ UNCHANGED <<joiner, queueVars, cur, to, from, stop, clientVars>>

Requeue(p) ==
    /\ pc[p] = "requeue"
    /\ Enqueue(from[p])
    /\ Goto(p, "resume")
    /\ UNCHANGED <<tcbVars, cur, to, from, stop, clientVars>>

\* to_thread = uthread_self () runs: from its start procedure if NASCENT, else
\* from where it stopped, which is inside uthread_join if it has a target.
Resume(p) ==
    /\ pc[p] = "resume"
    /\ state' = [state EXCEPT ![cur[p]] = "RUNNING"]
    /\ from' = [from EXCEPT ![p] = None]
    /\ Goto(p, IF target[cur[p]] = None THEN "user" ELSE "release")
    /\ UNCHANGED <<joiner, freed, queueVars, cur, to, stop, clientVars>>

-----------------------------------------------------------------------------
(* The public interface, called by the uthread cur[p].                     *)

Calling(p, c) == /\ pc[p] = "user"
                 /\ cur[p] \in Threads
                 /\ c \in Calls[cur[p]]

\* pthread_base: a base uthread only ever stops itself.
Idle(p) ==
    /\ pc[p] = "user"
    /\ cur[p] = Base[p]
    /\ Stop(p, "BLOCKED")
    /\ UNCHANGED <<tcbVars, queueVars, cur, to, from, clientVars>>

Create(p, t) ==
    /\ Calling(p, "create")
    /\ state[t] = "NONE"
    /\ state' = [state EXCEPT ![t] = "NASCENT"]
    /\ Enqueue(t)
    /\ handles' = handles \cup {t}
    /\ UNCHANGED <<joiner, freed, procVars, target, waiters>>

Yield(p) ==
    /\ Calling(p, "yield")
    /\ Stop(p, "RUNABLE")
    /\ UNCHANGED <<tcbVars, queueVars, cur, to, from, clientVars>>

\* A client enters a waiter queue, releases its spinlock and calls
\* uthread_block; it can be unblocked from the moment it is on the queue.
Block(p) ==
    /\ Calling(p, "block")
    /\ waiters' = waiters \cup {cur[p]}
    /\ Stop(p, "BLOCKED")
    /\ UNCHANGED <<tcbVars, queueVars, cur, to, from, target, handles>>

\* A client takes u off a waiter queue and calls uthread_unblock (u).
Unblock(p, u) ==
    /\ Calling(p, "unblock")
    /\ u \in waiters
    /\ waiters' = waiters \ {u}
    /\ Enqueue(u)
    /\ UNCHANGED <<tcbVars, procVars, target, handles>>

\* uthread_join and uthread_detach read joiner before they take the lock and
\* do nothing when it is not null.  A handle is used once here: uthread.h:20 says
\* that join and detach are mutually exclusive, and nobody joins a thread twice.
UseHandle(p, t, call, next) ==
    /\ Calling(p, call)
    /\ t \in handles /\ t # cur[p]
    /\ handles' = handles \ {t}
    /\ IF joiner[t] = None
       THEN target' = [target EXCEPT ![cur[p]] = t] /\ Goto(p, next)
       ELSE UNCHANGED <<target, pc>>
    /\ UNCHANGED <<tcbVars, queueVars, cur, to, from, stop, waiters>>

Join(p, t) == UseHandle(p, t, "join", "join")
Detach(p, t) == UseHandle(p, t, "detach", "release")

\* Variant: free the thread whatever its state.
ReleaseFrees(p) ==
    /\ freed' = freed \cup {target[cur[p]]}
    /\ target' = [target EXCEPT ![cur[p]] = None]
    /\ Goto(p, "user")
    /\ UNCHANGED <<joiner, stop>>

\* The common end of uthread_join and uthread_detach, under the join lock: free
\* a DEAD thread, leave it to its processor to free any other one.
ReleaseTarget(p) ==
    /\ LET t == target[cur[p]] IN
       IF state[t] = "DEAD"
       THEN freed' = freed \cup {t} /\ UNCHANGED joiner
       ELSE joiner' = [joiner EXCEPT ![t] = Detached] /\ UNCHANGED freed
    /\ target' = [target EXCEPT ![cur[p]] = None]
    /\ Goto(p, "user")
    /\ UNCHANGED stop

Release(p) ==
    /\ pc[p] = "release"
    /\ ReleaseTarget(p)
    /\ UNCHANGED <<state, queueVars, cur, to, from, handles, waiters>>

\* uthread_join under the join lock: wait unless the thread is terminating.
JoinLocked(p) ==
    /\ pc[p] = "join"
    /\ IF state[target[cur[p]]] \in {"DYING", "DEAD"}
       THEN ReleaseTarget(p)
       ELSE /\ joiner' = [joiner EXCEPT ![target[cur[p]]] = cur[p]]
            /\ Stop(p, "BLOCKED")
            /\ UNCHANGED <<freed, target>>
    /\ UNCHANGED <<state, queueVars, cur, to, from, handles, waiters>>

\* Variant: the joiner is not started.
ExitNoStart(p) ==
    /\ Calling(p, "exit")
    /\ state' = [state EXCEPT ![cur[p]] = "DYING"]
    /\ Stop(p, "DYING")
    /\ UNCHANGED <<joiner, freed, queueVars, cur, to, from, clientVars>>

\* The start procedure returns: under the join lock the thread is DYING and
\* its joiner is started; then it stops for good.
Exit(p) ==
    /\ Calling(p, "exit")
    /\ state' = [state EXCEPT ![cur[p]] = "DYING"]
    /\ IF joiner[cur[p]] \in TCB THEN Enqueue(joiner[cur[p]])
                                 ELSE UNCHANGED queueVars
    /\ Stop(p, "DYING")
    /\ UNCHANGED <<joiner, freed, cur, to, from, clientVars>>

-----------------------------------------------------------------------------
Step(p) ==
    \/ Dequeue(p) \/ Save(p) \/ Switch(p)
    \/ PostDying(p) \/ PostRunable(p) \/ Reap(p) \/ Requeue(p) \/ Resume(p)
    \/ Idle(p) \/ Yield(p) \/ Block(p) \/ Exit(p)
    \/ JoinLocked(p) \/ Release(p)
    \/ \E t \in Threads : \/ Create(p, t) \/ Unblock(p, t)
                          \/ Join(p, t) \/ Detach(p, t)

Next == \E p \in Procs : Step(p) \/ SpuriousWakeUp(p)

Spec == Init /\ [][Next]_vars

\* The kernel schedules every processor that can take a step.
Fairness == \A p \in Procs : WF_vars(Step(p))
FairSpec == Spec /\ Fairness
-----------------------------------------------------------------------------
(* Properties.                                                             *)

\* A processor executes on the stack of its uthread, except while it spins.
Running(t) == \E p \in Procs : cur[p] = t /\ pc[p] # "spin"

\* No uthread runs on two processors: no stack is used by two of them at once
\* (uthread_switch saves a thread before anyone else may resume it).
OneProcessor ==
    \A p, q \in Procs :
        p # q /\ pc[p] # "spin" /\ pc[q] # "spin" => cur[p] # cur[q]

\* The TCBs that the next step of p reads or writes.
Touched(p) ==
    (IF pc[p] = "spin" THEN {to[p]} ELSE {cur[p]})
    \cup (IF pc[p] = "save" THEN {to[p]} ELSE {})
    \cup (IF pc[p] \in {"post", "recheck", "reap", "requeue"} THEN {from[p]} ELSE {})
    \cup (IF pc[p] \in {"join", "release"} THEN {target[cur[p]]} ELSE {})

\* No processor touches, frees again or finds on the ready queue a TCB that
\* the switch, uthread_join or uthread_detach has freed.
NoUseAfterFree ==
    /\ \A p \in Procs : Touched(p) \cap freed = {}
    /\ Queued \cap freed = {}

\* The uthread that exits will start the uthread t.
Joining(t) == /\ target[t] # None
              /\ joiner[target[t]] = t
              /\ state[target[t]] \notin {"DYING", "DEAD"}

\* p switched away from t, which yielded, and has still to requeue it.
Yielding(p, t) == \/ cur[p] = t /\ pc[p] = "spin" /\ stop[p] = "RUNABLE"
                  \/ from[p] = t /\ state[t] = "RUNABLE"

\* Every live uthread runs, is queued or about to be run or requeued, or waits
\* for a call that will start it: no step of the scheduler loses a thread.
NoLostThread ==
    \A t \in Threads : state[t] \notin {"NONE", "DYING", "DEAD"} =>
        \/ Running(t)
        \/ t \in Queued \cup waiters
        \/ Joining(t)
        \/ \E p \in Procs : to[p] = t \/ Yielding(p, t)

\* A terminated uthread that was joined or detached is freed in the end, by
\* its joiner or by the processor it last ran on.
TerminatedIsFreed ==
    \A t \in Threads : (state[t] = "DYING" /\ joiner[t] = Detached) ~> (t \in freed)

\* The program's own code runs, outside every call of the library.
InProgram(t) == \E p \in Procs : cur[p] = t /\ pc[p] = "user"

\* Every uthread on the ready queue gets back to its program in the end.
QueuedRuns == \A t \in Threads : (t \in Queued) ~> InProgram(t)

\* When a uthread terminates, the one that waits in uthread_join for it returns.
JoinReturns ==
    \A t, j \in Threads :
        (state[t] = "DYING" /\ joiner[t] = j) ~> InProgram(j)
=============================================================================
