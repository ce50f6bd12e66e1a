----------------------------- MODULE MCPackage ------------------------------
(***************************************************************************)
(* The parts of the uthread package that are checked besides the           *)
(* scheduler, the mutex and the semaphore, for TLC: the intrusive queue,   *)
(* the ready queue with sleeping processors, uthread_unblock of any        *)
(* uthread, the earlier scheduler, and the disk with its interrupts.  One  *)
(* of them runs; the variables of the others stay as they were.            *)
(***************************************************************************)
EXTENDS UthreadQueue, ReadyQueueIdle, TLC

CONSTANTS
    p1, p2, p3, t1, t2, t3, mainThread, b1, b2,
    SchedProcs, SchedThreads, Detached, \* of the schedulers
    Blocks, MaxDepth                \* of the disk

P0 == p1
Main == mainThread
Base == [p \in SchedProcs |-> IF p = p1 THEN b1 ELSE b2]

\* Both processors have a base uthread of their own, and NULL and (uthread_t) -1
\* are no uthreads.
ASSUME SchedAssumption ==
    /\ p1 \in SchedProcs /\ SchedProcs \subseteq {p1, p2}
    /\ mainThread \in SchedThreads
    /\ b1 # b2 /\ {b1, b2} \cap SchedThreads = {}
    /\ None # Detached /\ {None, Detached} \cap (SchedThreads \cup {b1, b2}) = {}

\* The programs that read from the disk read something.
ASSUME DiskAssumption == Blocks \in Nat \ {0} /\ MaxDepth \in Nat

\* Who calls what: in one part uthreads unblock any other one and block, in the
\* other one yields and blocks and one terminates.
CallsUnblock == [t \in SchedThreads |-> CASE t = Main -> {"create", "unblock_any"}
                                      [] t = t1 -> {"block", "unblock_any"}
                                      [] OTHER -> {"block"}]
CallsEarly == [t \in SchedThreads |-> CASE t = Main -> {"create", "join", "unblock"}
                                    [] t = t1 -> {"yield", "block"}
                                    [] OTHER -> {"exit"}]

VARIABLES
    part,           \* the part that runs
    u_state, u_joiner, u_freed, u_ready, u_sleeping, u_pc, u_cur, u_to,
    u_from, u_stop, u_target, u_handles, u_waiters, u_owed, u_running,
    e_state, e_joiner, e_freed, e_ready, e_sleeping, e_pc, e_cur, e_to,
    e_from, e_stop, e_target, e_handles, e_waiters,
    d_version, d_cur, d_pc, d_step, d_next, d_ready, d_dead, d_joining,
    d_sleeping, d_signalled, d_reads, d_ripe, d_completed,
    d_pending_read_queue, d_pending, d_sum, d_lock, d_mask, d_isInterrupt,
    d_frames

Un == INSTANCE UthreadUnblock WITH
        state <- u_state, joiner <- u_joiner, freed <- u_freed,
        ready <- u_ready, sleeping <- u_sleeping, pc <- u_pc, cur <- u_cur,
        to <- u_to, from <- u_from, stop <- u_stop, target <- u_target,
        handles <- u_handles, waiters <- u_waiters, owed <- u_owed,
        running <- u_running, Calls <- CallsUnblock, Threads <- SchedThreads,
        Procs <- SchedProcs

Ea == INSTANCE UthreadSchedEarly WITH
        state <- e_state, joiner <- e_joiner, freed <- e_freed,
        ready <- e_ready, sleeping <- e_sleeping, pc <- e_pc, cur <- e_cur,
        to <- e_to, from <- e_from, stop <- e_stop, target <- e_target,
        handles <- e_handles, waiters <- e_waiters, Calls <- CallsEarly,
        Threads <- SchedThreads, Procs <- SchedProcs

Disk == INSTANCE DiskReads WITH
        version <- d_version, cur <- d_cur, pc <- d_pc, step <- d_step,
        next <- d_next, ready <- d_ready, dead <- d_dead,
        joining <- d_joining, sleeping <- d_sleeping,
        signalled <- d_signalled, reads <- d_reads, ripe <- d_ripe,
        completed <- d_completed, pending_read_queue <- d_pending_read_queue,
        pending <- d_pending, sum <- d_sum, lock <- d_lock, mask <- d_mask,
        isInterrupt <- d_isInterrupt, frames <- d_frames

Unvars == <<u_state, u_joiner, u_freed, u_ready, u_sleeping, u_pc, u_cur,
           u_to, u_from, u_stop, u_target, u_handles, u_waiters, u_owed,
           u_running>>
Eavars == <<e_state, e_joiner, e_freed, e_ready, e_sleeping, e_pc, e_cur,
           e_to, e_from, e_stop, e_target, e_handles, e_waiters>>
Diskvars == <<d_version, d_cur, d_pc, d_step, d_next, d_ready, d_dead,
           d_joining, d_sleeping, d_signalled, d_reads, d_ripe, d_completed,
           d_pending_read_queue, d_pending, d_sum, d_lock, d_mask,
           d_isInterrupt, d_frames>>

Parts == {"queue", "idle", "unblock", "early", "disk"}

PackageInit ==
    /\ part \in Parts
    /\ InitQueues
    /\ Init /\ (part # "idle" => running = [p \in Procs |-> None])
    /\ Un!InitU
    /\ Ea!InitEarly
    /\ Disk!Init /\ (part # "disk" => d_version = "sRead")

\* The other parts do not move.
OthersStay(name) ==
    /\ UNCHANGED part
    /\ name # "queue" => UNCHANGED linkVars
    /\ name # "idle" => UNCHANGED vars
    /\ name # "unblock" => UNCHANGED Unvars
    /\ name # "early" => UNCHANGED Eavars
    /\ name # "disk" => UNCHANGED Diskvars

PackageNext ==
    \/ part = "queue" /\ NextQueues /\ OthersStay("queue")
    \/ part = "idle" /\ Next /\ OthersStay("idle")
    \/ part = "unblock" /\ Un!NextU /\ OthersStay("unblock")
    \/ part = "early" /\ Ea!NextEarly /\ OthersStay("early")
    \/ part = "disk" /\ Disk!Next /\ OthersStay("disk")

packageVars == <<part, linkVars, vars, Unvars, Eavars, Diskvars>>

\* What ReadyQueueIdle and DiskReads say of the parts that promise to get on.
Fairness ==
    /\ \A p \in Procs :
          /\ WF_packageVars(part = "idle" /\ Other(p) /\ OthersStay("idle"))
          /\ SF_packageVars(part = "idle" /\ Acquire(p) /\ OthersStay("idle"))
    /\ WF_packageVars(part = "disk" /\ Disk!UthreadStep /\ OthersStay("disk"))
    /\ WF_packageVars(part = "disk" /\ Disk!HandlerStep /\ OthersStay("disk"))
    /\ WF_packageVars(part = "disk" /\ Disk!TimePasses /\ OthersStay("disk"))
    /\ SF_packageVars(part = "disk" /\ Disk!Interrupt /\ OthersStay("disk"))

PackageSpec == PackageInit /\ [][PackageNext]_packageVars /\ Fairness

-----------------------------------------------------------------------------
\* uthread_unblock of a thread that runs lets its next uthread_block return.
RunningUnblockRemembered == Un!RunningUnblockRemembered

\* a9/sRead/uthread.c: yielding and blocking in any order, no uthread is lost,
\* run on two processors or used after it was freed.
EarlyThreadsKept == Ea!EarlyThreadsKept

\* a9: whoever uses the result of a read has it, whatever interrupts what.
ResultsDelivered == Disk!ResultsDelivered

\* a9: a handler waits for ever only in the two ways that are known.
OnlyKnownHangs == Disk!OnlyKnownHangs

\* a9: otherwise every read is delivered and the program comes to its end.
ReadsComplete == part = "disk" ~> Disk!Over
=============================================================================
