----------------------------- MODULE MCPrograms -----------------------------
(***************************************************************************)
(* The programs that use the uthread package, for TLC.  One of them runs;  *)
(* the variables of the others stay as they were.  A fairness condition    *)
(* and a promise to finish are those of the program that runs.             *)
(***************************************************************************)
EXTENDS Philosophers, FiniteSets, Sequences

CONSTANTS
    c1, c2, c3, p1, p2,
    Cars, MaxOccupancy, Crossings, CrossingsSem,    \* traffic.c and traffic_sem.c
    Rounds,                                         \* smoke.c
    Producers, Consumers, QUEUE_SIZE, NUM_ITERATIONS, PoolItems,
    Meeting,                                        \* q3.c
    CountTo, PingPongs,                             \* q2.c and ping_pong_sem.c
    Elements, Addresses,                            \* racedemo.c
    MatrixSize, tpr, Relaxations                    \* sor.c

ASSUME CarsAssumption == /\ IsFiniteSet(Cars) /\ MaxOccupancy \in Nat
                         /\ Crossings \in Nat /\ CrossingsSem \in Nat
ASSUME RoundsAssumption == Rounds \in Nat
ASSUME BufferAssumption == /\ Producers # {} /\ QUEUE_SIZE \in Nat \ {0} /\ NUM_ITERATIONS \in Nat
ASSUME MeetingAssumption == IsFiniteSet(Meeting)
ASSUME HandoffsAssumption == CountTo \in Nat \ {0}
ASSUME PoolAssumption == PoolItems \in Nat
ASSUME StackAssumption == Elements \in Nat /\ IsFiniteSet(Addresses) /\ 0 \notin Addresses
ASSUME SorAssumption == MatrixSize \in Nat /\ tpr \in Nat \ {0} /\ Relaxations \in Nat \ {0}

VARIABLES
    program,        \* the program that runs
    t_direction, t_count, t_active, t_queue, t_dir, t_trips, t_pc,
    s_direction, s_count, s_inStreet, s_numWaiting, s_active, s_value,
    s_queue, s_dir, s_trips, s_pc,
    k_waiters, k_have, k_num_active_threads, k_offered, k_signal_count,
    k_smoke_count, k_woken, k_pc,
    b_queue, b_queue_head, b_queue_tail, b_val, b_not_empty, b_not_full,
    b_iterations, b_pc,
    o_version, o_items, o_waiters, o_iterations, o_pc,
    r_count, r_waiters, r_pc,
    h_version, h_pc, h_printed, h_canGo, h_waiters, h_cnt, h_mx, h_local,
    h_go, h_i,
    d_version, d_top, d_next, d_lock, d_allocated, d_pushes, d_pops,
    d_push_pc, d_pop_pc, d_push_e, d_pop_e, d_crashed,
    m_matrix, m_temp_matrix, m_todo, m_phase, m_i, m_arrived

T == INSTANCE Traffic WITH
        direction <- t_direction, count <- t_count, active <- t_active,
        queue <- t_queue, dir <- t_dir, trips <- t_trips, pc <- t_pc,
        Iterations <- Crossings

TS == INSTANCE TrafficSem WITH
        direction <- s_direction, count <- s_count, inStreet <- s_inStreet,
        numWaiting <- s_numWaiting, active <- s_active, value <- s_value,
        queue <- s_queue, dir <- s_dir, trips <- s_trips, pc <- s_pc,
        Iterations <- CrossingsSem

Sm == INSTANCE Smoke WITH
        waiters <- k_waiters, have <- k_have,
        num_active_threads <- k_num_active_threads, offered <- k_offered,
        signal_count <- k_signal_count, smoke_count <- k_smoke_count,
        woken <- k_woken, pc <- k_pc, Iterations <- Rounds

BB == INSTANCE BoundedBuffer WITH
        queue <- b_queue, queue_head <- b_queue_head,
        queue_tail <- b_queue_tail, val <- b_val, not_empty <- b_not_empty,
        not_full <- b_not_full, iterations <- b_iterations, pc <- b_pc

Po == INSTANCE Pool WITH
        version <- o_version, items <- o_items, waiters <- o_waiters,
        iterations <- o_iterations, pc <- o_pc, MAX_ITEMS <- PoolItems

Rv == INSTANCE Rendezvous WITH
        count <- r_count, waiters <- r_waiters, pc <- r_pc,
        Threads <- Meeting

Ha == INSTANCE Handoffs WITH
        version <- h_version, pc <- h_pc, printed <- h_printed,
        canGo <- h_canGo, waiters <- h_waiters, cnt <- h_cnt, mx <- h_mx,
        local <- h_local, go <- h_go, i <- h_i, N <- CountTo,
        Rounds <- PingPongs

Rs == INSTANCE RaceStack WITH
        version <- d_version, top <- d_top, next <- d_next, lock <- d_lock,
        allocated <- d_allocated, pushes <- d_pushes, pops <- d_pops,
        push_pc <- d_push_pc, pop_pc <- d_pop_pc, push_e <- d_push_e,
        pop_e <- d_pop_e, crashed <- d_crashed, n <- Elements

Sr == INSTANCE Sor WITH
        matrix <- m_matrix, temp_matrix <- m_temp_matrix, todo <- m_todo,
        phase <- m_phase, i <- m_i, arrived <- m_arrived, N <- MatrixSize,
        Iterations <- Relaxations

Tvars == <<t_direction, t_count, t_active, t_queue, t_dir, t_trips, t_pc>>
TSvars == <<s_direction, s_count, s_inStreet, s_numWaiting, s_active,
           s_value, s_queue, s_dir, s_trips, s_pc>>
Smvars == <<k_waiters, k_have, k_num_active_threads, k_offered,
           k_signal_count, k_smoke_count, k_woken, k_pc>>
BBvars == <<b_queue, b_queue_head, b_queue_tail, b_val, b_not_empty,
           b_not_full, b_iterations, b_pc>>
Povars == <<o_version, o_items, o_waiters, o_iterations, o_pc>>
Rvvars == <<r_count, r_waiters, r_pc>>
Havars == <<h_version, h_pc, h_printed, h_canGo, h_waiters, h_cnt, h_mx,
           h_local, h_go, h_i>>
Rsvars == <<d_version, d_top, d_next, d_lock, d_allocated, d_pushes, d_pops,
           d_push_pc, d_pop_pc, d_push_e, d_pop_e, d_crashed>>
Srvars == <<m_matrix, m_temp_matrix, m_todo, m_phase, m_i, m_arrived>>

Programs == {"traffic", "traffic_sem", "smoke", "phil", "buffer", "pool", "q3", "handoffs", "racedemo", "sor"}

ProgramsInit ==
    /\ program \in Programs
    /\ T!Init
    /\ TS!Init
    /\ Sm!Init
    /\ Init /\ (program # "phil" => version = "ordered")
    /\ BB!Init
    /\ Po!Init /\ (program # "pool" => o_version = "spin")
    /\ Rv!Init
    /\ Ha!Init /\ (program # "handoffs" => h_version = "q1")
    /\ Rs!Init /\ (program # "racedemo" => d_version = "single")
    /\ Sr!Init

\* The other programs do not move.
OthersStay(name) ==
    /\ UNCHANGED program
    /\ name # "traffic" => UNCHANGED Tvars
    /\ name # "traffic_sem" => UNCHANGED TSvars
    /\ name # "smoke" => UNCHANGED Smvars
    /\ name # "phil" => UNCHANGED vars
    /\ name # "buffer" => UNCHANGED BBvars
    /\ name # "pool" => UNCHANGED Povars
    /\ name # "q3" => UNCHANGED Rvvars
    /\ name # "handoffs" => UNCHANGED Havars
    /\ name # "racedemo" => UNCHANGED Rsvars
    /\ name # "sor" => UNCHANGED Srvars

ProgramsNext ==
    \/ program = "traffic" /\ T!Next /\ OthersStay("traffic")
    \/ program = "traffic_sem" /\ TS!Next /\ OthersStay("traffic_sem")
    \/ program = "smoke" /\ Sm!Next /\ OthersStay("smoke")
    \/ program = "phil" /\ Next /\ OthersStay("phil")
    \/ program = "buffer" /\ BB!Next /\ OthersStay("buffer")
    \/ program = "pool" /\ Po!Next /\ OthersStay("pool")
    \/ program = "q3" /\ Rv!Next /\ OthersStay("q3")
    \/ program = "handoffs" /\ Ha!Next /\ OthersStay("handoffs")
    \/ program = "racedemo" /\ Rs!Next /\ OthersStay("racedemo")
    \/ program = "sor" /\ Sr!Next /\ OthersStay("sor")

programsVars == <<program, Tvars, TSvars, Smvars, vars, BBvars, Povars, Rvvars, Havars, Rsvars, Srvars>>

\* A thread that can run runs in the end.
Fairness ==
    /\ WF_programsVars(program = "smoke" /\ Sm!AgentRuns /\ OthersStay("smoke"))
    /\ \A r \in Sm!Resource : /\ WF_programsVars(program = "smoke" /\ Sm!HelperRuns(r) /\ OthersStay("smoke"))
                              /\ WF_programsVars(program = "smoke" /\ Sm!SmokerRuns(r) /\ OthersStay("smoke"))
    /\ \A p \in Phils : WF_programsVars(program = "phil" /\ Phil(p) /\ OthersStay("phil"))
    /\ \A t \in BB!Threads : WF_programsVars(program = "buffer" /\ BB!Step(t) /\ OthersStay("buffer"))
    /\ \A t \in Po!Threads : WF_programsVars(program = "pool" /\ Po!Step(t) /\ OthersStay("pool"))
    /\ \A t \in Meeting : WF_programsVars(program = "q3" /\ Rv!Step(t) /\ OthersStay("q3"))
    /\ WF_programsVars(program = "handoffs" /\ Ha!MainPrints /\ OthersStay("handoffs"))
    /\ \A t \in 0..2 : WF_programsVars(program = "handoffs" /\ Ha!Step(t) /\ OthersStay("handoffs"))
    /\ \A t \in Sr!Threads : WF_programsVars(program = "sor" /\ Sr!Step(t) /\ OthersStay("sor"))

ProgramsSpec == ProgramsInit /\ [][ProgramsNext]_programsVars /\ Fairness

-----------------------------------------------------------------------------
\* traffic.c: however the cars are signalled and overtake each other, the street
\* holds at most MaxOccupancy cars and all go the way it is marked.
OneWayStreet == T!OneWayStreet

\* traffic_sem.c: the counters agree with the cars and with the semaphores.
CountersAgree == TS!CountersAgree

\* Nobody goes before its turn: the smoker that smokes is the one the agent's
\* pair calls for (smoke.c); no thread is at its b before all are past their a
\* (q3.c); the words come in order and ping never leads pong by two lines
\* (q1.c, q4.c, ping_pong_sem.c).
TurnsKept == Sm!SmokersMatchOffers /\ Rv!NobodyLeavesEarly /\ Ha!InOrder

\* The types of the variables of all programs with monitors and semaphores.
ProgramsTypeOK ==
    program \in Programs /\ T!TypeOK /\ TS!TypeOK /\ Sm!TypeOK /\ TypeOK /\ BB!TypeOK /\ Po!TypeOK /\ Rv!TypeOK

\* What the threads share survives all interleavings: items stays in range in
\* pc_spinlock.c and pc_mutex_cond.c, whatever a thread saw without the lock;
\* q2.c counts back to zero; the stack of racedemo.c holds what is allocated
\* wherever its lock excludes; sor.c leaves the matrix of one thread.
SharedDataIntact == ProgramsTypeOK /\ Po!ItemsInRange /\ Ha!CountsBack /\ Rs!StackIntact /\ Sr!SameAsSequential

\* bounded-buffer.c: the ring is a first-in first-out queue of QUEUE_SIZE - 1.
ImplementsBoundedQueue == BB!ImplementsBoundedQueue

\* No wakeup is lost and nobody waits for ever: in smoke.c when the helpers wait
\* before the agent begins, in phil-ordered.c, in bounded-buffer.c, in
\* pc_spinlock.c and pc_mutex_cond.c, in q1.c to q4.c, in ping_pong_sem.c and at
\* the barriers of sor.c every thread comes to its end.
ProgramsFinish ==
    /\ (program = "smoke" /\ Sm!Ready) ~> Sm!Returned
    /\ (program = "phil" /\ version = "ordered") ~> AllDone
    /\ program = "buffer" ~> BB!AllDone
    /\ program = "pool" ~> Po!AllDone
    /\ program = "q3" ~> Rv!AllDone
    /\ program = "handoffs" ~> Ha!AllDone
    /\ program = "sor" ~> Sr!AllDone
=============================================================================
