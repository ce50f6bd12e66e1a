------------------------------ MODULE Traffic ------------------------------
(***************************************************************************)
(* a11/traffic.c: cars share a street that takes MaxOccupancy of them, all *)
(* in one direction, under one mutex and two condition variables.  The     *)
(* histograms are left out.                                                *)
(***************************************************************************)
EXTENDS Integers, FiniteSets, Waiting

CONSTANTS
    Cars,
    MaxOccupancy,   \* MAX_OCCUPANCY
    Iterations      \* NUM_ITERATIONS

VARIABLES
    direction,      \* Street.direction
    count,          \* Street.count
    active,         \* Street.num_each_dir
    queue,          \* the cars that wait on Street.east and Street.west
    dir,            \* the direction a car has drawn
    trips,          \* how often a car has crossed
    pc              \* where each car is

street == <<direction, count, active, queue>>
vars == <<street, dir, trips, pc>>

EAST == "east"
WEST == "west"
Directions == {EAST, WEST}
oppositeEnd(g) == IF g = EAST THEN WEST ELSE EAST

TypeOK ==
    /\ direction \in Directions
    /\ count \in 0..MaxOccupancy
    /\ active \in [Directions -> 0..Cardinality(Cars)]
    /\ queue \in [Directions -> Seq(Cars)]
    /\ dir \in [Cars -> Directions]
    /\ trips \in [Cars -> 0..Iterations]
    /\ pc \in [Cars -> {"start", "away", "waiting", "woken", "crossing", "done"}]

initializeStreet ==
    /\ direction = EAST
    /\ count = 0
    /\ active = [g \in Directions |-> 0]
    /\ queue = [g \in Directions |-> <<>>]

Init ==
    /\ initializeStreet
    /\ dir = [c \in Cars |-> EAST]
    /\ trips = [c \in Cars |-> 0]
    /\ pc = [c \in Cars |-> "start"]

Goto(c, l) == pc' = [pc EXCEPT ![c] = l]

\* car draws its direction and is counted.
Start(c) ==
    /\ pc[c] = "start"
    /\ \E g \in Directions : /\ dir' = [dir EXCEPT ![c] = g]
                            /\ active' = [active EXCEPT ![g] = @ + 1]
    /\ Goto(c, "away")
    /\ UNCHANGED <<direction, count, queue, trips>>

\* Variant: a car turns the street whenever it is not full.
GoOrWaitTurns(c, g, d) ==
    /\ direction' = d
    /\ IF count >= MaxOccupancy
       THEN /\ queue' = [queue EXCEPT ![g] = Append(@, c)]
            /\ Goto(c, "waiting") /\ UNCHANGED count
       ELSE count' = count + 1 /\ Goto(c, "crossing") /\ UNCHANGED queue
    /\ UNCHANGED <<active, dir, trips>>

\* The loop of enterStreet: one test of it, and what follows.
GoOrWait(c, g, d) ==
    /\ direction' = d
    /\ IF g # d \/ count >= MaxOccupancy
       THEN /\ queue' = [queue EXCEPT ![g] = Append(@, c)]
            /\ Goto(c, "waiting") /\ UNCHANGED count
       ELSE count' = count + 1 /\ Goto(c, "crossing") /\ UNCHANGED queue
    /\ UNCHANGED <<active, dir, trips>>

enterStreet(c) ==
    /\ pc[c] = "away" /\ trips[c] < Iterations
    /\ GoOrWait(c, dir[c],
                IF count = 0 /\ active[dir[c]] # 0 THEN dir[c] ELSE direction)

\* uthread_cond_wait returns: the test is made again.
Retest(c) ==
    /\ pc[c] = "woken"
    /\ GoOrWait(c, dir[c], direction)

\* leaveStreet signals g n times and returns.
Signal(g, n, c) ==
    /\ queue' = [queue EXCEPT ![g] = LeftAfter(@, n)]
    /\ pc' = [d \in Cars |-> IF d = c THEN "away"
                             ELSE IF d \in Signalled(queue[g], n) THEN "woken" ELSE pc[d]]

leaveStreet(c) ==
    LET opposite == oppositeEnd(direction)
        turns == count = 1 /\ active[opposite] # 0
        g == IF turns THEN opposite ELSE direction
        signals == IF turns THEN MaxOccupancy
                   ELSE IF count - 1 < MaxOccupancy /\ active[g] # 0 THEN 1 ELSE 0
    IN  /\ pc[c] = "crossing"
        /\ count' = count - 1
        /\ direction' = g
        /\ Signal(g, signals, c)
        /\ trips' = [trips EXCEPT ![c] = @ + 1]
        /\ UNCHANGED <<active, dir>>

\* car, after its loop
Finish(c) ==
    /\ pc[c] = "away" /\ trips[c] = Iterations
    /\ active' = [active EXCEPT ![dir[c]] = @ - 1]
    /\ Goto(c, "done")
    /\ UNCHANGED <<direction, count, queue, dir, trips>>

Car(c) == Start(c) \/ enterStreet(c) \/ Retest(c) \/ leaveStreet(c) \/ Finish(c)

Next == \E c \in Cars : Car(c)

Spec == Init /\ [][Next]_vars

-----------------------------------------------------------------------------
InStreet == {c \in Cars : pc[c] = "crossing"}

\* However the cars are signalled and overtake each other, the street holds at
\* most MaxOccupancy cars and all of them go the way it is marked.
OneWayStreet ==
    /\ count = Cardinality(InStreet)
    /\ count <= MaxOccupancy
    /\ \A c \in InStreet : dir[c] = direction

\* leaveStreet turns the street only when, in its own words, "not all cars in
\* opposite direction are finished".
TurnsForUnfinishedCars ==
    [][\A c \in Cars :
          leaveStreet(c) /\ direction' # direction =>
             \E d \in Cars : dir[d] = direction' /\ pc[d] # "start" /\ trips[d] < Iterations]_vars
=============================================================================
