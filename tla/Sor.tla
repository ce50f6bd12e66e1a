-------------------------------- MODULE Sor --------------------------------
(***************************************************************************)
(* examples/uthread/examples/sor.c: tpr * tpr threads relax a matrix, each *)
(* its own square of it, and wait for each other at a barrier between      *)
(* reading the matrix and writing it.  The barrier belongs to an older     *)
(* uthread package: it lets all go when all have come, and starts again.   *)
(* A thread computes one element at a time.                                *)
(***************************************************************************)
EXTENDS Integers, FiniteSets, FiniteSetsExt

CONSTANTS N, tpr, Iterations        \* of sor; main sees to it that tpr divides N

Cells == (0..(N - 1)) \X (0..(N - 1))
Threads == (0..(tpr - 1)) \X (0..(tpr - 1))

VARIABLES matrix, temp_matrix, todo, phase, i, arrived
vars == <<matrix, temp_matrix, todo, phase, i, arrived>>

\* start_row to end_row and start_col to end_col of a thread.
Square(t) == {c \in Cells : /\ c[1] \in ((t[1] * N) \div tpr)..(((t[1] + 1) * N) \div tpr - 1)
                            /\ c[2] \in ((t[2] * N) \div tpr)..(((t[2] + 1) * N) \div tpr - 1)}

matrix_get(m, row, col) == m[<<(row + N) % N, (col + N) % N>>]

\* What relax_one_step makes of one element.
Relaxed(m, c) ==
    FoldSet(LAMBDA d, total : total + matrix_get(m, c[1] + d[1], c[2] + d[2]), 0, (-1..1) \X (-1..1)) \div 9

initial_values == [c \in Cells |-> c[1] * 1000 + c[2] * 10]

Init ==
    /\ matrix = initial_values
    /\ temp_matrix = [c \in Cells |-> 0]
    /\ todo = [t \in Threads |-> Square(t)]
    /\ phase = [t \in Threads |-> "relax"]
    /\ i = [t \in Threads |-> 0]
    /\ arrived = {}

\* The loops over the square of t, row by row.
First(t) == CHOOSE c \in todo[t] : \A d \in todo[t] : c[1] * N + c[2] <= d[1] * N + d[2]

relax_one_step(t) ==
    /\ phase[t] = "relax" /\ todo[t] # {}
    /\ temp_matrix' = [temp_matrix EXCEPT ![First(t)] = Relaxed(matrix, First(t))]
    /\ todo' = [todo EXCEPT ![t] = @ \ {First(t)}]
    /\ UNCHANGED <<matrix, phase, i, arrived>>

matrix_copy(t) ==
    /\ phase[t] = "copy" /\ todo[t] # {}
    /\ matrix' = [matrix EXCEPT ![First(t)] = temp_matrix[First(t)]]
    /\ todo' = [todo EXCEPT ![t] = @ \ {First(t)}]
    /\ UNCHANGED <<temp_matrix, phase, i, arrived>>

\* What the threads go on with, behind the barrier that they are at.
Proceed(ts) ==
    LET copied(t) == phase[t] = "copy" IN
    /\ todo' = [t \in Threads |-> IF t \in ts THEN Square(t) ELSE todo[t]]
    /\ i' = [t \in Threads |-> IF t \in ts /\ copied(t) THEN i[t] + 1 ELSE i[t]]
    /\ phase' = [t \in Threads |-> IF t \notin ts THEN phase[t] ELSE IF ~copied(t) THEN "copy"
                                   ELSE IF i[t] + 1 < Iterations THEN "relax" ELSE "done"]

\* Variant: there is no barrier before the copy.
barrier_arrive_once(t) ==
    /\ phase[t] # "done" /\ todo[t] = {} /\ t \notin arrived
    /\ IF phase[t] = "relax" THEN Proceed({t}) /\ arrived' = arrived
       ELSE IF arrived \cup {t} = Threads THEN Proceed(Threads) /\ arrived' = {}
       ELSE arrived' = arrived \cup {t} /\ UNCHANGED <<todo, phase, i>>
    /\ UNCHANGED <<matrix, temp_matrix>>

uthread_barrier_arrive(t) ==
    /\ phase[t] # "done" /\ todo[t] = {} /\ t \notin arrived
    /\ IF arrived \cup {t} = Threads THEN Proceed(Threads) /\ arrived' = {}
       ELSE arrived' = arrived \cup {t} /\ UNCHANGED <<todo, phase, i>>
    /\ UNCHANGED <<matrix, temp_matrix>>

Step(t) == relax_one_step(t) \/ matrix_copy(t) \/ uthread_barrier_arrive(t)
Next == \E t \in Threads : Step(t)

Spec == Init /\ [][Next]_vars

-----------------------------------------------------------------------------
AllDone == \A t \in Threads : phase[t] = "done"

\* The control case: one thread relaxes all of the matrix, k times.
control_matrix[k \in 0..Iterations] ==
    IF k = 0 THEN initial_values ELSE [c \in Cells |-> Relaxed(control_matrix[k - 1], c)]

\* However the threads overtake each other, one that reads the matrix sees what
\* a single thread would have made of it by then, and so does main at the end.
SameAsSequential ==
    \A t \in Threads : /\ phase[t] = "relax" => matrix = control_matrix[i[t]]
                       /\ phase[t] = "done" => matrix = control_matrix[Iterations]
=============================================================================
