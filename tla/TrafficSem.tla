----------------------------- MODULE TrafficSem -----------------------------
(***************************************************************************)
(* a11/traffic_sem.c: the street of traffic.c with semaphores.  A car that *)
(* may not enter waits on the semaphore of its direction and enters when   *)
(* that returns, without another look at the street.  Street.lock is a     *)
(* semaphore of one permit; a section under it is one step.  The           *)
(* histograms are left out.                                                *)
(***************************************************************************)
EXTENDS Integers, FiniteSets, Waiting

CONSTANTS
    Cars,
    MaxOccupancy,   \* MAX_OCCUPANCY
    Iterations      \* NUM_ITERATIONS

VARIABLES
    direction,      \* Street.direction
    count,          \* Street.count
    inStreet,       \* Street.num_each_dir_in_street
    numWaiting,     \* Street.num_each_dir_waiting
    active,         \* Street.num_active_each_dir
    value,          \* the values of Street.dir_sems
    queue,          \* the cars that wait on Street.dir_sems
    dir,            \* the direction a car has drawn
    trips,          \* how often a car has crossed
    pc              \* where each car is

counts == <<count, inStreet, numWaiting, active>>
sems == <<value, queue>>
vars == <<direction, counts, sems, dir, trips, pc>>

EAST == "east"
WEST == "west"
Directions == {EAST, WEST}
oppositeEnd(g) == IF g = EAST THEN WEST ELSE EAST

TypeOK ==
    /\ direction \in Directions
    /\ count \in 0..Cardinality(Cars)
    /\ inStreet \in [Directions -> 0..Cardinality(Cars)]
    /\ numWaiting \in [Directions -> 0..Cardinality(Cars)]
    /\ active \in [Directions -> 0..Cardinality(Cars)]
    /\ value \in [Directions -> Int]
    /\ queue \in [Directions -> Seq(Cars)]
    /\ dir \in [Cars -> Directions]
    /\ trips \in [Cars -> 0..Iterations]
    /\ pc \in [Cars -> {"start", "away", "wait", "queued", "passed", "crossing", "done"}]

Init ==
    /\ direction = EAST
    /\ count = 0
    /\ inStreet = [g \in Directions |-> 0]
    /\ numWaiting = [g \in Directions |-> 0]
    /\ active = [g \in Directions |-> 0]
    /\ value = [g \in Directions |-> 0]
    /\ queue = [g \in Directions |-> <<>>]
    /\ dir = [c \in Cars |-> EAST]
    /\ trips = [c \in Cars |-> 0]
    /\ pc = [c \in Cars |-> "start"]

Goto(c, l) == pc' = [pc EXCEPT ![c] = l]

\* car draws its direction and is counted.
Start(c) ==
    /\ pc[c] = "start"
    /\ \E g \in Directions : /\ dir' = [dir EXCEPT ![c] = g]
                            /\ active' = [active EXCEPT ![g] = @ + 1]
    /\ Goto(c, "away")
    /\ UNCHANGED <<direction, count, inStreet, numWaiting, sems, trips>>

\* Signal the semaphore of g n times; c goes to l.
Signals(g, n, c, l) ==
    /\ value' = [value EXCEPT ![g] = @ + n]
    /\ queue' = [queue EXCEPT ![g] = LeftAfter(@, n)]
    /\ pc' = [d \in Cars |-> IF d = c THEN l
                             ELSE IF d \in Signalled(queue[g], n) THEN "passed" ELSE pc[d]]

\* c is counted into the street.
Counted(g) ==
    /\ count' = count + 1
    /\ inStreet' = [inStreet EXCEPT ![g] = @ + 1]

enterStreet(c) ==
    LET g == dir[c]
        turns == count = 0 /\ g # direction /\ active[g] # 0
        d == IF turns THEN g ELSE direction
        enters == g = d /\ inStreet[g] < MaxOccupancy
        signals == IF g = direction
                   THEN IF count < MaxOccupancy THEN MaxOccupancy - count ELSE 0
                   ELSE IF turns THEN MaxOccupancy ELSE 0
    IN  /\ pc[c] = "away" /\ trips[c] < Iterations
        /\ direction' = d
        /\ Signals(g, signals, c, IF enters THEN "crossing" ELSE "wait")
        /\ IF enters
           THEN Counted(g) /\ UNCHANGED numWaiting
           ELSE /\ numWaiting' = [numWaiting EXCEPT ![g] = @ + 1]
                /\ UNCHANGED <<count, inStreet>>
        /\ UNCHANGED <<active, dir, trips>>

\* uthread_sem_wait on the semaphore of its direction
Wait(c) ==
    LET g == dir[c] IN
    /\ pc[c] = "wait"
    /\ value' = [value EXCEPT ![g] = @ - 1]
    /\ IF value'[g] < 0
       THEN queue' = [queue EXCEPT ![g] = Append(@, c)] /\ Goto(c, "queued")
       ELSE UNCHANGED queue /\ Goto(c, "passed")
    /\ UNCHANGED <<direction, counts, dir, trips>>

\* Variant: a car that enters is still counted as waiting.
EnterKeepsWaiting(c) ==
    /\ pc[c] = "passed"
    /\ Counted(dir[c])
    /\ Goto(c, "crossing")
    /\ UNCHANGED <<direction, numWaiting, active, sems, dir, trips>>

\* uthread_sem_wait has returned: the car enters.
Enter(c) ==
    /\ pc[c] = "passed"
    /\ Counted(dir[c])
    /\ numWaiting' = [numWaiting EXCEPT ![dir[c]] = @ - 1]
    /\ Goto(c, "crossing")
    /\ UNCHANGED <<direction, active, sems, dir, trips>>

leaveStreet(c) ==
    LET turns == count = 1 /\ active[oppositeEnd(direction)] # 0
        g == IF turns THEN oppositeEnd(direction) ELSE direction
        signals == IF turns THEN MaxOccupancy
                   ELSE IF count - 1 < MaxOccupancy /\ active[g] # 0 THEN 1 ELSE 0
    IN  /\ pc[c] = "crossing"
        /\ count' = count - 1
        /\ inStreet' = [inStreet EXCEPT ![dir[c]] = @ - 1]
        /\ direction' = g
        /\ Signals(g, signals, c, "away")
        /\ trips' = [trips EXCEPT ![c] = @ + 1]
        /\ UNCHANGED <<numWaiting, active, dir>>

\* car, after its loop
Finish(c) ==
    /\ pc[c] = "away" /\ trips[c] = Iterations
    /\ active' = [active EXCEPT ![dir[c]] = @ - 1]
    /\ Goto(c, "done")
    /\ UNCHANGED <<direction, count, inStreet, numWaiting, sems, dir, trips>>

Car(c) == Start(c) \/ enterStreet(c) \/ Wait(c) \/ Enter(c) \/ leaveStreet(c) \/ Finish(c)

Next == \E c \in Cars : Car(c)

Spec == Init /\ [][Next]_vars

-----------------------------------------------------------------------------
\* MAX_OCCUPANCY: the array occupancyHistogram has no room for more.
AtMostMaxOccupancy == count <= MaxOccupancy

\* The counters that are read without the semaphores agree with them: the cars
\* on a semaphore are all counted as waiting, and the street is the sum of its
\* two directions.
CountersAgree ==
    /\ count = inStreet[EAST] + inStreet[WEST]
    /\ \A g \in Directions :
          /\ numWaiting[g] = Cardinality({c \in Cars : dir[c] = g /\ pc[c] \in {"wait", "queued", "passed"}})
          /\ Len(queue[g]) = (IF value[g] < 0 THEN -value[g] ELSE 0)
=============================================================================
