------------------------------ MODULE Monitor ------------------------------
(***************************************************************************)
(* What uthread_mutex_cond.h promises: a mutex that one writer or any      *)
(* number of readers hold, and condition variables whose waiters are       *)
(* signalled in the order they came, by a thread that holds the mutex.     *)
(* A signalled thread must lock the mutex again.  UthreadMutex shows that  *)
(* uthread_mutex_cond.c implements this; the programs that use monitors    *)
(* are modelled over it.                                                   *)
(***************************************************************************)
EXTENDS Sequences

CONSTANTS
    Threads,    \* the uthreads
    Conds,      \* the condition variables of the mutex
    NoThread    \* nobody holds the mutex

VARIABLES
    owner,      \* the thread that holds the mutex exclusively, or NoThread
    readers,    \* the threads that hold it readonly
    waiting     \* the threads that wait on each condition variable, first first

monitorVars == <<owner, readers, waiting>>

MonitorInit == /\ owner = NoThread
               /\ readers = {}
               /\ waiting = [c \in Conds |-> <<>>]

Waiters == UNION {{waiting[c][i] : i \in DOMAIN waiting[c]} : c \in Conds}

Acquire(t) == /\ owner = NoThread /\ readers = {}
              /\ t \notin Waiters
              /\ owner' = t
              /\ UNCHANGED <<readers, waiting>>

AcquireReadonly(t) == /\ owner = NoThread
                      /\ t \notin Waiters \cup readers
                      /\ readers' = readers \cup {t}
                      /\ UNCHANGED <<owner, waiting>>

Release(t) == /\ owner = t \/ t \in readers
              /\ owner' = NoThread
              /\ readers' = readers \ {t}
              /\ UNCHANGED waiting

\* Release the mutex and wait, in one step.
CWait(t, c) == /\ owner = t
               /\ owner' = NoThread
               /\ waiting' = [waiting EXCEPT ![c] = Append(@, t)]
               /\ UNCHANGED readers

CSignal(t, c) == /\ owner = t
                 /\ waiting' = [waiting EXCEPT ![c] = IF @ = <<>> THEN @ ELSE Tail(@)]
                 /\ UNCHANGED <<owner, readers>>

CBroadcast(t, c) == /\ owner = t
                    /\ waiting' = [waiting EXCEPT ![c] = <<>>]
                    /\ UNCHANGED <<owner, readers>>

MonitorNext ==
    \E t \in Threads :
        \/ Acquire(t) \/ AcquireReadonly(t) \/ Release(t)
        \/ \E c \in Conds : CWait(t, c) \/ CSignal(t, c) \/ CBroadcast(t, c)

MonitorSpec == MonitorInit /\ [][MonitorNext]_monitorVars
=============================================================================
