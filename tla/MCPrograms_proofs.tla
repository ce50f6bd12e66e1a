------------------------- MODULE MCPrograms_proofs -------------------------
(***************************************************************************)
(* What the programs that use the uthread package rely on, for any number  *)
(* of threads, any sizes and any number of rounds.  A program runs while   *)
(* the variables of the others stay as they were (OnlyOneRuns), so each of *)
(* them is proved about by itself, in a section of its own: an invariant,  *)
(* that every step of the program keeps it, and what it says.              *)
(***************************************************************************)
EXTENDS MCPrograms, Waiting, SequenceTheorems, FiniteSetTheorems, WellFoundedInduction, TLAPS

-----------------------------------------------------------------------------
(* The dining philosophers, for any number of them and any number of meals:  *)
(* phil-ordered and phil-random never stop before all are done, and          *)
(* phil-rightfork stops only with every right fork taken.                    *)
(*                                                                           *)
(* When nobody can go on, a fork that somebody waits for is in the hand of   *)
(* a philosopher who waits for a second fork.  If it took the left one       *)
(* first, then its right neighbour has the other one and is in the same      *)
(* place; so are its neighbour and everybody around the table.  In           *)
(* phil-ordered the last philosopher cannot be, in phil-random somebody      *)
(* saw the flag of its neighbour's fork up (Circle).                         *)

\* The forks philosopher p has in its hands, by its program counter.
Has(p, f) ==
    \/ f = first[p] /\ pc[p] \in {"pick", "look", "second", "pick_second", "eat", "put_right"}
    \/ f = second(p) /\ pc[p] \in {"pick_second", "eat", "put_right"}
    \/ f = leftfork(p) /\ pc[p] = "put_left"

Order ==
    \A p \in Phils :
        /\ first[p] \in {leftfork(p), rightfork(p)}
        /\ pc[p] \notin {"think", "done"} => first[p] \in First(p)

Locks == \A f, p \in Phils : lock[f] = p <=> Has(p, f)

\* A fork without an owner is up; its owner takes it down before it goes on.
FlagsOf(p) ==
    /\ pc[p] = "pick" => free[first[p]]
    /\ pc[p] = "pick_second" => free[second(p)]
    /\ pc[p] \in {"look", "second", "pick_second", "eat", "put_right"} => ~free[first[p]]
    /\ pc[p] \in {"eat", "put_right"} => ~free[second(p)]

Flags == /\ \A f \in Phils : lock[f] = None => free[f]
         /\ \A p \in Phils : FlagsOf(p)

WaitsFor(p, f) == pc[p] = "second" /\ second(p) = f

\* The last one to look saw the other fork up.
Circle ==
    /\ \A p \in Phils : pc[p] = "look" => version = "random"
    /\ version = "random" =>
          /\ \E p \in Phils : ~WaitsFor(p, rightfork(p))
          /\ \E p \in Phils : ~WaitsFor(p, leftfork(p))

\* Who is at the table has a meal to come.
Hungry ==
    \A p \in Phils :
        pc[p] \notin {"think", "put_right", "put_left", "done"} => meals[p] < num_meals

IInv == TypeOK /\ Order /\ Hungry /\ Locks /\ Flags /\ Circle

\* The fork to the right, without the remainder.
LEMMA RightFork ==
    \A p \in Phils : /\ rightfork(p) = IF p = num_phils - 1 THEN 0 ELSE p + 1
                     /\ rightfork(p) \in Phils
                     /\ rightfork(p) # p
<1> TAKE p \in Phils
<1>1. num_phils \in Nat /\ num_phils >= 2 /\ p \in Nat /\ p < num_phils
    BY PhilsAssumption DEF Phils
<1>2. CASE p = num_phils - 1
    <2>1. (p + 1) % num_phils = 0
        BY <1>1, <1>2
    <2> QED BY <1>1, <1>2, <2>1 DEF rightfork, Phils
<1>3. CASE p # num_phils - 1
    <2>1. (p + 1) % num_phils = p + 1
        BY <1>1, <1>3
    <2> QED BY <1>1, <1>3, <2>1 DEF rightfork, Phils
<1> QED BY <1>2, <1>3

\* No two philosophers have the same right fork.
LEMMA RightForkInjective ==
    \A p, q \in Phils : rightfork(p) = rightfork(q) => p = q
BY RightFork, PhilsAssumption DEF Phils

LEMMA LeastElement ==
    ASSUME NEW A, A \subseteq Nat, A # {}
    PROVE  \E m \in A : \A n \in A : m <= n
<1> DEFINE R == OpToRel(<, Nat)
<1>1. PICK m \in A : \A n \in A : ~(<<n, m>> \in R)
    BY NatLessThanWellFounded, WFMin
<1>2. \A x, y \in Nat : x < y => <<x, y>> \in R
    BY DEF OpToRel
<1> HIDE DEF R
<1>3. ASSUME NEW n \in A PROVE m <= n
    <2>1. n \in Nat /\ m \in Nat /\ ~(n < m)
        BY <1>1, <1>2
    <2> QED BY <2>1
<1> QED BY <1>3

\* Who goes around the table to the right comes to everybody.
LEMMA RingRight ==
    ASSUME NEW A, A \subseteq Phils, A # {}, \A p \in A : rightfork(p) \in A
    PROVE  A = Phils
<1> DEFINE last == num_phils - 1
           B == Phils \ A
           back == {last - p : p \in A}
<1>0. num_phils \in Nat /\ last \in Nat /\ Phils = 0..last
    BY PhilsAssumption DEF Phils
<1>1. last \in A
    <2>1. back \subseteq Nat /\ back # {}
        <3>1. \A p \in A : last - p \in Nat
            BY <1>0
        <3> QED BY <3>1
    <2>2. PICK m \in back : \A n \in back : m <= n
        BY <2>1, LeastElement
    <2>3. PICK p \in A : m = last - p
        BY <2>2
    <2>4. p \in 0..last /\ rightfork(p) \in A
        BY <1>0, <2>3
    <2>5. last - p <= last - rightfork(p)
        BY <2>2, <2>3, <2>4
    <2>6. p = last
        BY <1>0, <2>4, <2>5, RightFork
    <2> QED BY <2>6, <2>3
<1>2. 0 \in A
    BY <1>0, <1>1, RightFork
<1>3. CASE B # {}
    <2>1. B \subseteq Nat
        BY <1>0
    <2>2. PICK m \in B : \A n \in B : m <= n
        BY <1>3, <2>1, LeastElement
    <2>3. m \in 0..last /\ m # 0 /\ m - 1 \in 0..last
        BY <1>0, <1>2, <2>2
    <2>4. m - 1 \in A
        BY <1>0, <2>2, <2>3
    <2>5. rightfork(m - 1) = m
        BY <1>0, <2>3, RightFork
    <2> QED BY <2>2, <2>4, <2>5
<1> QED BY <1>3

\* And so does who goes to the left.
LEMMA RingLeft ==
    ASSUME NEW A, A \subseteq Phils, A # {},
           \A p \in Phils : rightfork(p) \in A => p \in A
    PROVE  A = Phils
<1>1. \A p \in Phils \ A : rightfork(p) \in Phils \ A
    BY RightFork
<1>2. Phils \ A = {}
    <2>1. ASSUME Phils \ A # {} PROVE Phils \ A = Phils
        BY <1>1, <2>1, RingRight
    <2> QED BY <2>1
<1> QED BY <1>2

-----------------------------------------------------------------------------
LEMMA Forks ==
    \A p \in Phils : leftfork(p) \in Phils /\ rightfork(p) \in Phils /\ leftfork(p) # rightfork(p)
BY RightFork DEF leftfork

LEMMA NoneIsNobody == None \notin Phils
BY NoneAssumption DEF Phils

LEMMA FirstIsNextTo ==
    \A p \in Phils : First(p) \subseteq {leftfork(p), rightfork(p)}
BY DEF First

\* The second fork is the other one.
LEMMA TwoForks ==
    ASSUME TypeOK, Order, NEW p \in Phils
    PROVE  /\ first[p] \in Phils /\ second(p) \in Phils
           /\ first[p] # second(p)
           /\ {first[p], second(p)} = {leftfork(p), rightfork(p)}
BY Forks DEF Order, second

LEMMA InitInv == Init => IInv
<1> SUFFICES ASSUME Init PROVE IInv
    OBVIOUS
<1>1. TypeOK
    BY MealsAssumption DEF Init, TypeOK
<1>2. Order
    BY DEF Init, Order, leftfork
<1>6. Hungry
    BY DEF Init, Hungry
<1>3. Locks
    BY NoneIsNobody DEF Init, Locks, Has
<1>4. Flags
    BY DEF Init, Flags, FlagsOf
<1>5. Circle
    <2>1. 0 \in Phils
        BY PhilsAssumption DEF Phils
    <2> QED BY <2>1 DEF Init, Circle, WaitsFor
<1> QED BY <1>1, <1>2, <1>3, <1>4, <1>5, <1>6 DEF IInv

LEMMA TypeStep ==
    ASSUME IInv, [Next]_vars
    PROVE  TypeOK'
<1> USE DEF TypeOK, Goto
<1>0. TypeOK /\ Order /\ Hungry
    BY DEF IInv
<1>1. ASSUME NEW p \in Phils, Think(p) PROVE TypeOK'
    <2>1. First(p) \subseteq Phils
        BY Forks, FirstIsNextTo
    <2> QED BY <1>0, <1>1, <2>1 DEF Think
<1>2. ASSUME NEW p \in Phils, LockFirst(p) PROVE TypeOK'
    BY <1>0, <1>2, TwoForks DEF LockFirst, Lock
<1>3. ASSUME NEW p \in Phils, PickFirst(p) PROVE TypeOK'
    BY <1>0, <1>3, TwoForks DEF PickFirst
<1>4. ASSUME NEW p \in Phils, Look(p) PROVE TypeOK'
    BY <1>0, <1>4, TwoForks DEF Look, Put
<1>5. ASSUME NEW p \in Phils, LockSecond(p) PROVE TypeOK'
    BY <1>0, <1>5, TwoForks DEF LockSecond, Lock
<1>6. ASSUME NEW p \in Phils, PickSecond(p) PROVE TypeOK'
    BY <1>0, <1>6, TwoForks DEF PickSecond
<1>7. ASSUME NEW p \in Phils, Eat(p) PROVE TypeOK'
    <2>1. meals[p] \in Nat /\ meals[p] + 1 \in 0..num_meals
        BY <1>0, <1>7, MealsAssumption DEF Hungry, Eat
    <2> QED BY <1>0, <1>7, <2>1 DEF Eat
<1>8. ASSUME NEW p \in Phils, PutRight(p) PROVE TypeOK'
    BY <1>0, <1>8, Forks DEF PutRight, Put
<1>9. ASSUME NEW p \in Phils, PutLeft(p) PROVE TypeOK'
    BY <1>0, <1>9, Forks DEF PutLeft, Put
<1>10. CASE UNCHANGED vars
    BY <1>0, <1>10 DEF vars
<1> QED BY <1>1, <1>2, <1>3, <1>4, <1>5, <1>6, <1>7, <1>8, <1>9, <1>10 DEF Next, Phil

LEMMA HungryStep ==
    ASSUME IInv, [Next]_vars
    PROVE  Hungry'
<1>0. TypeOK /\ Hungry
    BY DEF IInv
<1>1. ASSUME NEW p \in Phils, Eat(p) PROVE Hungry'
    BY <1>0, <1>1 DEF Eat, Goto, Hungry, TypeOK
<1>2. ASSUME NEW p \in Phils, Phil(p), ~Eat(p) PROVE Hungry'
    BY <1>0, <1>2 DEF Phil, Think, LockFirst, PickFirst, Look, LockSecond, PickSecond, PutRight, PutLeft,
                      Goto, Hungry, TypeOK
<1>3. CASE UNCHANGED vars
    BY <1>0, <1>3 DEF vars, Hungry
<1> QED BY <1>1, <1>2, <1>3 DEF Next

LEMMA OrderStep ==
    ASSUME IInv, [Next]_vars
    PROVE  Order'
<1>0. TypeOK /\ Order
    BY DEF IInv
<1>1. ASSUME NEW p \in Phils, Think(p) PROVE Order'
    BY <1>0, <1>1, FirstIsNextTo DEF Think, Goto, Order, First, TypeOK
<1>2. ASSUME NEW p \in Phils, Phil(p), ~Think(p) PROVE Order'
    BY <1>0, <1>2 DEF Phil, LockFirst, PickFirst, Look, LockSecond, PickSecond, Eat, PutRight, PutLeft,
                      Goto, Order, First, TypeOK
<1>3. CASE UNCHANGED vars
    BY <1>0, <1>3 DEF vars, Order, First
<1> QED BY <1>1, <1>2, <1>3 DEF Next

\* A step of p moves nobody else, and so leaves what the others have.
LEMMA OthersKeep ==
    ASSUME TypeOK, NEW p \in Phils, Phil(p)
    PROVE  /\ \A q \in Phils \ {p} : /\ pc'[q] = pc[q]
                                     /\ first'[q] = first[q]
                                     /\ second(q)' = second(q)
                                     /\ \A f : Has(q, f)' <=> Has(q, f)
           /\ ~Think(p) => first' = first /\ second(p)' = second(p)
<1>1. \A q \in Phils \ {p} : pc'[q] = pc[q] /\ first'[q] = first[q]
    BY DEF Phil, Think, LockFirst, PickFirst, Look, LockSecond, PickSecond, Eat, PutRight, PutLeft, Goto, TypeOK
<1>2. ~Think(p) => first' = first
    BY DEF Phil, LockFirst, PickFirst, Look, LockSecond, PickSecond, Eat, PutRight, PutLeft
<1> QED BY <1>1, <1>2 DEF Has, second

\* Who takes a free fork, and otherwise keeps what it has, has it alone.
LEMMA TakeKeepsLocks ==
    ASSUME TypeOK, Locks, NEW p \in Phils, NEW g \in Phils, Phil(p), Lock(p, g),
           \A f \in Phils : Has(p, f)' <=> Has(p, f) \/ f = g
    PROVE  Locks'
<1>1. ASSUME NEW f \in Phils, NEW q \in Phils PROVE lock'[f] = q <=> Has(q, f)'
    BY <1>1, OthersKeep, NoneIsNobody DEF Locks, Lock, TypeOK
<1> QED BY <1>1 DEF Locks

\* And who puts one of its forks down has it no more.
LEMMA PutKeepsLocks ==
    ASSUME TypeOK, Locks, NEW p \in Phils, NEW g \in Phils, Phil(p), Put(g), Has(p, g),
           \A f \in Phils : Has(p, f)' <=> Has(p, f) /\ f # g
    PROVE  Locks'
<1>1. ASSUME NEW f \in Phils, NEW q \in Phils PROVE lock'[f] = q <=> Has(q, f)'
    BY <1>1, OthersKeep, NoneIsNobody DEF Locks, Put, TypeOK
<1> QED BY <1>1 DEF Locks

LEMMA SameKeepsLocks ==
    ASSUME TypeOK, Locks, NEW p \in Phils, Phil(p), lock' = lock,
           \A f \in Phils : Has(p, f)' <=> Has(p, f)
    PROVE  Locks'
<1>1. ASSUME NEW f \in Phils, NEW q \in Phils PROVE lock'[f] = q <=> Has(q, f)'
    BY <1>1, OthersKeep DEF Locks
<1> QED BY <1>1 DEF Locks

LEMMA LocksStep ==
    ASSUME IInv, [Next]_vars
    PROVE  Locks'
<1>0. TypeOK /\ Order /\ Locks /\ Circle
    BY DEF IInv
<1> USE DEF Goto
<1>1. ASSUME NEW p \in Phils, Think(p) PROVE Locks'
    <2>1. \A f \in Phils : Has(p, f)' <=> Has(p, f)
        BY <1>0, <1>1 DEF Think, Has, TypeOK
    <2> QED BY <1>0, <1>1, <2>1, SameKeepsLocks DEF Phil, Think
<1>2. ASSUME NEW p \in Phils, LockFirst(p) PROVE Locks'
    <2>1. first[p] \in Phils /\ \A f \in Phils : Has(p, f)' <=> Has(p, f) \/ f = first[p]
        BY <1>0, <1>2 DEF LockFirst, Has, TypeOK
    <2> QED BY <1>0, <1>2, <2>1, TakeKeepsLocks DEF Phil, LockFirst
<1>3. ASSUME NEW p \in Phils, PickFirst(p) PROVE Locks'
    <2>1. \A f \in Phils : Has(p, f)' <=> Has(p, f)
        BY <1>0, <1>3 DEF PickFirst, Has, TypeOK
    <2> QED BY <1>0, <1>3, <2>1, SameKeepsLocks DEF Phil, PickFirst
<1>4. ASSUME NEW p \in Phils, Look(p) PROVE Locks'
    <2>1. CASE free[second(p)]
        <3>1. \A f \in Phils : Has(p, f)' <=> Has(p, f)
            BY <1>0, <1>4, <2>1 DEF Look, Has, TypeOK
        <3> QED BY <1>0, <1>4, <2>1, <3>1, SameKeepsLocks DEF Phil, Look
    <2>2. CASE ~free[second(p)]
        <3>1. /\ first[p] \in Phils /\ Has(p, first[p])
              /\ \A f \in Phils : Has(p, f)' <=> Has(p, f) /\ f # first[p]
            BY <1>0, <1>4, <2>2 DEF Look, Has, TypeOK
        <3> QED BY <1>0, <1>4, <2>2, <3>1, PutKeepsLocks DEF Phil, Look
    <2> QED BY <2>1, <2>2
<1>5. ASSUME NEW p \in Phils, LockSecond(p) PROVE Locks'
    <2>1. second(p)' = second(p)
        BY <1>5 DEF LockSecond, second
    <2>2. second(p) \in Phils /\ \A f \in Phils : Has(p, f)' <=> Has(p, f) \/ f = second(p)
        BY <1>0, <1>5, <2>1, TwoForks DEF LockSecond, Has, TypeOK
    <2> QED BY <1>0, <1>5, <2>2, TakeKeepsLocks DEF Phil, LockSecond
<1>6. ASSUME NEW p \in Phils, PickSecond(p) PROVE Locks'
    <2>1. second(p)' = second(p)
        BY <1>6 DEF PickSecond, second
    <2>2. \A f \in Phils : Has(p, f)' <=> Has(p, f)
        BY <1>0, <1>6, <2>1 DEF PickSecond, Has, TypeOK
    <2> QED BY <1>0, <1>6, <2>2, SameKeepsLocks DEF Phil, PickSecond
<1>7. ASSUME NEW p \in Phils, Eat(p) PROVE Locks'
    <2>1. second(p)' = second(p)
        BY <1>7 DEF Eat, second
    <2>2. \A f \in Phils : Has(p, f)' <=> Has(p, f)
        BY <1>0, <1>7, <2>1 DEF Eat, Has, TypeOK
    <2> QED BY <1>0, <1>7, <2>2, SameKeepsLocks DEF Phil, Eat
<1>8. ASSUME NEW p \in Phils, PutRight(p) PROVE Locks'
    <2>1. second(p)' = second(p)
        BY <1>8 DEF PutRight, second
    <2>2. \A f \in Phils : Has(p, f) <=> f \in {leftfork(p), rightfork(p)}
        BY <1>0, <1>8, TwoForks DEF PutRight, Has
    <2>3. \A f \in Phils : Has(p, f)' <=> f = leftfork(p)
        BY <1>0, <1>8, <2>1 DEF PutRight, Has, TypeOK, leftfork
    <2> QED BY <1>0, <1>8, <2>2, <2>3, Forks, PutKeepsLocks DEF Phil, PutRight
<1>9. ASSUME NEW p \in Phils, PutLeft(p) PROVE Locks'
    <2>1. \A f \in Phils : Has(p, f) <=> f = leftfork(p)
        BY <1>9 DEF PutLeft, Has
    <2>2. \A f \in Phils : ~Has(p, f)'
        BY <1>0, <1>9 DEF PutLeft, Has, TypeOK
    <2> QED BY <1>0, <1>9, <2>1, <2>2, Forks, PutKeepsLocks DEF Phil, PutLeft
<1>10. CASE UNCHANGED vars
    BY <1>0, <1>10 DEF vars, Locks, Has, second
<1> QED BY <1>1, <1>2, <1>3, <1>4, <1>5, <1>6, <1>7, <1>8, <1>9, <1>10 DEF Next, Phil

\* The flags of forks that others have are out of reach.
LEMMA OthersFlags ==
    ASSUME TypeOK, Order, Locks, Flags, NEW p \in Phils, Phil(p),
           \A f \in Phils : ~Has(p, f) => free'[f] = free[f]
    PROVE  \A q \in Phils \ {p} : FlagsOf(q)'
<1> TAKE q \in Phils \ {p}
<1>1. pc'[q] = pc[q] /\ first'[q] = first[q] /\ second(q)' = second(q)
    BY OthersKeep
<1>2. \A f \in Phils : Has(q, f) => free'[f] = free[f]
    BY DEF Locks
<1>3. FlagsOf(q) /\ first[q] \in Phils /\ second(q) \in Phils
    BY TwoForks DEF Flags
<1> QED BY <1>1, <1>2, <1>3 DEF FlagsOf, Has

LEMMA FlagsStep ==
    ASSUME IInv, [Next]_vars
    PROVE  Flags'
<1>0. TypeOK /\ Order /\ Locks /\ Flags
    BY DEF IInv
<1> USE DEF Goto
<1>1. ASSUME NEW p \in Phils, Think(p) PROVE Flags'
    <2>1. FlagsOf(p)'
        BY <1>0, <1>1 DEF Think, FlagsOf, TypeOK
    <2>2. \A q \in Phils \ {p} : FlagsOf(q)'
        BY <1>0, <1>1, OthersFlags DEF Phil, Think
    <2> QED BY <1>0, <1>1, <2>1, <2>2 DEF Think, Flags
<1>2. ASSUME NEW p \in Phils, LockFirst(p) PROVE Flags'
    <2>1. first[p] \in Phils /\ free[first[p]]
        BY <1>0, <1>2, TwoForks DEF LockFirst, Lock, Flags
    <2>2. FlagsOf(p)'
        BY <1>0, <1>2, <2>1 DEF LockFirst, FlagsOf, TypeOK
    <2>3. \A q \in Phils \ {p} : FlagsOf(q)'
        BY <1>0, <1>2, OthersFlags DEF Phil, LockFirst
    <2>4. \A f \in Phils : lock'[f] = None => free'[f]
        BY <1>0, <1>2, <2>1, NoneIsNobody DEF LockFirst, Lock, Flags, TypeOK
    <2> QED BY <2>2, <2>3, <2>4 DEF Flags
<1>3. ASSUME NEW p \in Phils, PickFirst(p) PROVE Flags'
    <2>1. first[p] \in Phils /\ Has(p, first[p])
        BY <1>0, <1>3, TwoForks DEF PickFirst, Has
    <2>2. FlagsOf(p)'
        BY <1>0, <1>3, <2>1 DEF PickFirst, FlagsOf, TypeOK
    <2>3. \A q \in Phils \ {p} : FlagsOf(q)'
        BY <1>0, <1>3, <2>1, OthersFlags DEF Phil, PickFirst, TypeOK
    <2>4. \A f \in Phils : lock'[f] = None => free'[f]
        BY <1>0, <1>3, <2>1, NoneIsNobody DEF PickFirst, Locks, Flags, TypeOK
    <2> QED BY <2>2, <2>3, <2>4 DEF Flags
<1>4. ASSUME NEW p \in Phils, Look(p) PROVE Flags'
    <2>1. first[p] \in Phils /\ Has(p, first[p])
        BY <1>0, <1>4, TwoForks DEF Look, Has
    <2>2. FlagsOf(p)'
        BY <1>0, <1>4, <2>1 DEF Look, FlagsOf, Flags, TypeOK
    <2>3. \A q \in Phils \ {p} : FlagsOf(q)'
        BY <1>0, <1>4, <2>1, OthersFlags DEF Phil, Look, Put, TypeOK
    <2>4. \A f \in Phils : lock'[f] = None => free'[f]
        BY <1>0, <1>4, <2>1 DEF Look, Put, Flags, TypeOK
    <2> QED BY <2>2, <2>3, <2>4 DEF Flags
<1>5. ASSUME NEW p \in Phils, LockSecond(p) PROVE Flags'
    <2>1. second(p)' = second(p) /\ second(p) \in Phils /\ free[second(p)]
        BY <1>0, <1>5, TwoForks DEF LockSecond, Lock, Flags, second
    <2>2. FlagsOf(p)'
        BY <1>0, <1>5, <2>1 DEF LockSecond, FlagsOf, Flags, TypeOK
    <2>3. \A q \in Phils \ {p} : FlagsOf(q)'
        BY <1>0, <1>5, OthersFlags DEF Phil, LockSecond
    <2>4. \A f \in Phils : lock'[f] = None => free'[f]
        BY <1>0, <1>5, <2>1, NoneIsNobody DEF LockSecond, Lock, Flags, TypeOK
    <2> QED BY <2>2, <2>3, <2>4 DEF Flags
<1>6. ASSUME NEW p \in Phils, PickSecond(p) PROVE Flags'
    <2>1. /\ second(p)' = second(p) /\ second(p) \in Phils /\ first[p] \in Phils
          /\ first[p] # second(p) /\ Has(p, second(p))
        BY <1>0, <1>6, TwoForks DEF PickSecond, Has, second
    <2>2. FlagsOf(p)'
        BY <1>0, <1>6, <2>1 DEF PickSecond, FlagsOf, Flags, TypeOK
    <2>3. \A q \in Phils \ {p} : FlagsOf(q)'
        BY <1>0, <1>6, <2>1, OthersFlags DEF Phil, PickSecond, TypeOK
    <2>4. \A f \in Phils : lock'[f] = None => free'[f]
        BY <1>0, <1>6, <2>1, NoneIsNobody DEF PickSecond, Locks, Flags, TypeOK
    <2> QED BY <2>2, <2>3, <2>4 DEF Flags
<1>7. ASSUME NEW p \in Phils, Eat(p) PROVE Flags'
    <2>1. second(p)' = second(p)
        BY <1>7 DEF Eat, second
    <2>2. FlagsOf(p)'
        BY <1>0, <1>7, <2>1 DEF Eat, FlagsOf, Flags, TypeOK
    <2>3. \A q \in Phils \ {p} : FlagsOf(q)'
        BY <1>0, <1>7, OthersFlags DEF Phil, Eat
    <2> QED BY <1>0, <1>7, <2>2, <2>3 DEF Eat, Flags
<1>8. ASSUME NEW p \in Phils, PutRight(p) PROVE Flags'
    <2>1. rightfork(p) \in Phils /\ Has(p, rightfork(p))
        BY <1>0, <1>8, TwoForks DEF PutRight, Has
    <2>2. FlagsOf(p)'
        BY <1>0, <1>8 DEF PutRight, FlagsOf, TypeOK
    <2>3. \A q \in Phils \ {p} : FlagsOf(q)'
        BY <1>0, <1>8, <2>1, OthersFlags DEF Phil, PutRight, Put, TypeOK
    <2>4. \A f \in Phils : lock'[f] = None => free'[f]
        BY <1>0, <1>8, <2>1 DEF PutRight, Put, Flags, TypeOK
    <2> QED BY <2>2, <2>3, <2>4 DEF Flags
<1>9. ASSUME NEW p \in Phils, PutLeft(p) PROVE Flags'
    <2>1. leftfork(p) \in Phils /\ Has(p, leftfork(p))
        BY <1>9, Forks DEF PutLeft, Has
    <2>2. FlagsOf(p)'
        BY <1>0, <1>9 DEF PutLeft, FlagsOf, TypeOK
    <2>3. \A q \in Phils \ {p} : FlagsOf(q)'
        BY <1>0, <1>9, <2>1, OthersFlags DEF Phil, PutLeft, Put, TypeOK
    <2>4. \A f \in Phils : lock'[f] = None => free'[f]
        BY <1>0, <1>9, <2>1 DEF PutLeft, Put, Flags, TypeOK
    <2> QED BY <2>2, <2>3, <2>4 DEF Flags
<1>10. CASE UNCHANGED vars
    BY <1>0, <1>10 DEF vars, Flags, FlagsOf, second
<1> QED BY <1>1, <1>2, <1>3, <1>4, <1>5, <1>6, <1>7, <1>8, <1>9, <1>10 DEF Next, Phil

\* A philosopher that goes on to wait for its second fork saw it up: the
\* neighbour it waits for does not have it yet, and is not waiting likewise.
LEMMA SawItUp ==
    ASSUME IInv, NEW p \in Phils, Look(p), pc'[p] = "second"
    PROVE  /\ \E q \in Phils : ~WaitsFor(q, rightfork(q))'
           /\ \E q \in Phils : ~WaitsFor(q, leftfork(q))'
<1>0. TypeOK /\ Order /\ Flags
    BY DEF IInv
<1>1. free[second(p)]
    BY <1>0 DEF Look, Goto, TypeOK
<1>2. \A q \in Phils \ {p} : first[q] = second(p) => ~(pc[q] = "second")
    BY <1>0, <1>1 DEF Flags, FlagsOf
<1>3. \A q \in Phils \ {p} : /\ pc'[q] = pc[q] /\ first'[q] = first[q] /\ second(q)' = second(q)
    BY <1>0, OthersKeep DEF Phil
<1>4. first' = first /\ second(p)' = second(p)
    BY DEF Look, second
<1>5. CASE first[p] = leftfork(p)
    <2> DEFINE q == rightfork(p)
    <2>1. second(p) = q /\ q \in Phils \ {p} /\ leftfork(q) = q
        BY <1>5, RightFork DEF second, leftfork
    <2>2. ~WaitsFor(q, rightfork(q))'
        BY <1>0, <1>2, <1>3, <2>1, TwoForks DEF WaitsFor, Order
    <2>3. ~WaitsFor(p, leftfork(p))'
        BY <1>4, <2>1, Forks DEF WaitsFor
    <2> QED BY <2>1, <2>2, <2>3
<1>6. CASE first[p] = rightfork(p)
    <2>1. second(p) = leftfork(p) /\ leftfork(p) = p
        BY <1>6, Forks DEF second, leftfork
    <2>2. ~WaitsFor(p, rightfork(p))'
        BY <1>4, <2>1, Forks DEF WaitsFor
    <2>3. PICK q \in Phils \ {p} : rightfork(q) = p
        <3>1. CASE \A q \in Phils : rightfork(q) # p
            <4>1. \A q \in Phils \ {p} : rightfork(q) \in Phils \ {p}
                BY <3>1, RightFork
            <4>2. Phils \ {p} # {}
                BY RightFork
            <4>3. Phils \ {p} = Phils
                BY <4>1, <4>2, RingRight
            <4> QED BY <4>3
        <3> QED BY <3>1, RightFork
    <2>4. ~WaitsFor(q, leftfork(q))'
        BY <1>0, <1>2, <1>3, <2>1, <2>3, TwoForks, Forks DEF WaitsFor, Order
    <2> QED BY <2>2, <2>3, <2>4
<1> QED BY <1>0, <1>5, <1>6 DEF Order

LEMMA CircleStep ==
    ASSUME IInv, [Next]_vars
    PROVE  Circle'
<1>0. TypeOK /\ Order /\ Circle
    BY DEF IInv
<1>1. CASE UNCHANGED vars
    BY <1>0, <1>1 DEF vars, Circle, WaitsFor, second
<1>2. ASSUME NEW p \in Phils, Phil(p) PROVE Circle'
    <2>1. \A q \in Phils : pc'[q] = "look" => version' = "random"
        BY <1>0, <1>2, OthersKeep DEF Circle, Phil, Think, LockFirst, PickFirst, Look, LockSecond,
                                      PickSecond, Eat, PutRight, PutLeft, Goto, TypeOK
    <2>2. version' = version
        BY <1>2 DEF Phil, Think, LockFirst, PickFirst, Look, LockSecond, PickSecond, Eat, PutRight, PutLeft
    <2>3. CASE pc'[p] # "second"
        <3>1. ~WaitsFor(p, rightfork(p))' /\ ~WaitsFor(p, leftfork(p))'
            BY <2>3 DEF WaitsFor
        <3> QED BY <2>1, <3>1 DEF Circle
    <2>4. CASE pc'[p] = "second" /\ version = "random"
        <3>1. Look(p)
            BY <1>0, <1>2, <2>4 DEF Phil, Think, LockFirst, PickFirst, LockSecond, PickSecond, Eat,
                                    PutRight, PutLeft, Goto, TypeOK
        <3> QED BY <2>1, <2>4, <3>1, SawItUp DEF Circle
    <2>5. CASE version # "random"
        BY <2>1, <2>2, <2>5 DEF Circle
    <2> QED BY <2>3, <2>4, <2>5
<1> QED BY <1>1, <1>2 DEF Next

\* The invariant holds of the three programs.
THEOREM Invariance == Spec => []IInv
<1>1. Init => IInv
    BY InitInv
<1>2. IInv /\ [Next]_vars => IInv'
    BY TypeStep, OrderStep, HungryStep, LocksStep, FlagsStep, CircleStep DEF IInv
<1> QED BY <1>1, <1>2, PTL DEF Spec

\* Everybody with a second fork to wait for, if one has.
LEMMA WaitingSpreads ==
    ASSUME IInv, Stuck
    PROVE  \/ \A p \in Phils : WaitsFor(p, rightfork(p)) /\ first[p] = leftfork(p)
           \/ \A p \in Phils : WaitsFor(p, leftfork(p)) /\ first[p] = rightfork(p)
<1> DEFINE ToRight == {p \in Phils : pc[p] = "second" /\ first[p] = leftfork(p)}
           ToLeft == {p \in Phils : pc[p] = "second" /\ first[p] = rightfork(p)}
<1>0. TypeOK /\ Order /\ Locks
    BY DEF IInv
<1>1. \A p \in Phils : pc[p] \in {"first", "second", "done"}
    BY DEF Stuck, Blocked
<1>2. ASSUME NEW f \in Phils, lock[f] # None
      PROVE  \E q \in Phils : pc[q] = "second" /\ first[q] = f
    <2>1. PICK q \in Phils : lock[f] = q
        BY <1>0, <1>2 DEF TypeOK
    <2>2. Has(q, f)
        BY <1>0, <2>1 DEF Locks
    <2> QED BY <1>1, <2>2 DEF Has
<1>3. ToRight # {} \/ ToLeft # {}
    <2>1. PICK p \in Phils : Blocked(p)
        BY DEF Stuck
    <2>2. \E f \in Phils : lock[f] # None
        BY <1>0, <2>1, TwoForks DEF Blocked
    <2> QED BY <1>0, <1>2, <2>2 DEF Order
<1>4. ASSUME NEW p \in ToRight PROVE rightfork(p) \in ToRight
    <2>1. second(p) = rightfork(p) /\ rightfork(p) \in Phils /\ lock[rightfork(p)] # None
        BY RightFork DEF Stuck, Blocked, second
    <2>2. PICK q \in Phils : pc[q] = "second" /\ first[q] = rightfork(p)
        BY <1>2, <2>1
    <2>3. q # p
        BY <2>2, Forks
    <2>4. first[q] # rightfork(q)
        BY <2>2, <2>3, RightForkInjective
    <2>5. first[q] = leftfork(q)
        BY <1>0, <2>4 DEF Order
    <2> QED BY <2>2, <2>5 DEF leftfork
<1>5. ASSUME NEW p \in Phils, rightfork(p) \in ToLeft PROVE p \in ToLeft
    <2> DEFINE r == rightfork(p)
    <2>1. second(r) = r /\ r \in Phils /\ lock[r] # None
        BY <1>5, Forks DEF Stuck, Blocked, second, leftfork
    <2>2. PICK q \in Phils : pc[q] = "second" /\ first[q] = r
        BY <1>2, <2>1
    <2>3. first[q] # leftfork(q)
        BY <1>5, <2>2, Forks DEF leftfork
    <2>4. first[q] = rightfork(q)
        BY <1>0, <2>3 DEF Order
    <2> QED BY <2>2, <2>4, RightForkInjective
<1>6. CASE ToRight # {}
    <2>1. ToRight = Phils
        BY <1>4, <1>6, RingRight
    <2> QED BY <2>1 DEF WaitsFor, second
<1>7. CASE ToLeft # {}
    <2>1. ToLeft = Phils
        BY <1>5, <1>7, RingLeft
    <2>2. ASSUME NEW p \in Phils PROVE WaitsFor(p, leftfork(p)) /\ first[p] = rightfork(p)
        BY <2>1, Forks DEF WaitsFor, second
    <2> QED BY <2>2
<1> QED BY <1>3, <1>6, <1>7

\* For any number of philosophers, only phil-rightfork comes to a stop before
\* all are done, and only with every right fork in the hand of its philosopher.
THEOREM DeadlockFree == Spec => []OnlyRightForksDeadlock
<1>1. IInv => WhoLocksPicks
    <2> SUFFICES ASSUME IInv, NEW p \in Phils
                 PROVE  /\ pc[p] = "pick" => free[first[p]]
                        /\ pc[p] = "pick_second" => free[second(p)]
                        /\ pc[p] \in {"eat", "put_right"} =>
                              \A f \in {leftfork(p), rightfork(p)} : lock[f] = p /\ ~free[f]
        BY DEF WhoLocksPicks
    <2>1. TypeOK /\ Order /\ Locks /\ FlagsOf(p)
        BY DEF IInv, Flags
    <2>2. \A f \in Phils : Has(p, f) => lock[f] = p
        BY <2>1 DEF Locks
    <2> QED BY <2>1, <2>2, TwoForks DEF FlagsOf, Has
<1>2. ASSUME IInv, Stuck
      PROVE  version = "rightfork" /\ \A p \in Phils : lock[rightfork(p)] = p
    <2>0. TypeOK /\ Order /\ Locks /\ Circle
        BY <1>2 DEF IInv
    <2>1. version # "random"
        BY <1>2, <2>0, WaitingSpreads DEF Circle
    <2> DEFINE last == num_phils - 1
    <2>2. /\ 0 \in Phils /\ last \in Phils
          /\ rightfork(0) = 1 /\ rightfork(last) = 0 /\ last # 0
        BY RightFork, PhilsAssumption DEF Phils
    <2>3. version # "ordered"
        <3>1. ASSUME version = "ordered" PROVE first[0] = leftfork(0) /\ first[last] = rightfork(last)
            <4>1. pc[0] = "second" /\ pc[last] = "second"
                BY <1>2, <2>2, WaitingSpreads DEF WaitsFor
            <4>2. first[0] \in First(0) /\ first[last] \in First(last)
                BY <2>0, <2>2, <4>1 DEF Order
            <4>3. last \in Nat /\ 0 < 1 /\ ~(last < 0)
                BY PhilsAssumption
            <4> QED BY <2>2, <3>1, <4>2, <4>3 DEF First
        <3> QED BY <1>2, <2>2, <3>1, WaitingSpreads, Forks
    <2>4. version = "rightfork"
        BY <2>0, <2>1, <2>3 DEF TypeOK, Versions
    <2>5. ASSUME NEW p \in Phils PROVE lock[rightfork(p)] = p
        <3>1. pc[p] = "second"
            BY <1>2, WaitingSpreads DEF WaitsFor
        <3>2. first[p] = rightfork(p)
            BY <2>0, <2>4, <3>1 DEF Order, First
        <3> QED BY <2>0, <3>1, <3>2, Forks DEF Locks, Has
    <2> QED BY <2>4, <2>5
<1>3. IInv => OnlyRightForksDeadlock
    BY <1>1, <1>2 DEF OnlyRightForksDeadlock
<1> QED BY <1>3, Invariance, PTL

-----------------------------------------------------------------------------
(* Lines of waiting threads.                                               *)

Elems(q) == {q[i] : i \in 1..Len(q)}
Distinct(q) == \A i, j \in 1..Len(q) : q[i] = q[j] => i = j

\* A line of threads of S, none of them twice.
Line(q, S) == q \in Seq(S) /\ Distinct(q)

LEMMA LineFacts ==
    ASSUME NEW S, NEW q, Line(q, S)
    PROVE  /\ Len(q) \in Nat /\ Elems(q) \subseteq S
           /\ \A i \in 1..Len(q) : q[i] \in S
BY DEF Line, Elems

LEMMA EmptyLine == ASSUME NEW S  PROVE Line(<<>>, S) /\ Elems(<<>>) = {}
<1>1. <<>> \in Seq(S) /\ Len(<<>>) = 0
  BY EmptySeq
<1>2. 1..0 = {}
  OBVIOUS
<1> QED  BY <1>1, <1>2 DEF Line, Elems, Distinct

\* Who comes waits behind all others.
LEMMA JoinLine ==
    ASSUME NEW S, NEW q, Line(q, S), NEW t \in S, t \notin Elems(q)
    PROVE  Line(Append(q, t), S) /\ Elems(Append(q, t)) = Elems(q) \cup {t}
<1> DEFINE n == Len(q)
           r == Append(q, t)
<1>1. n \in Nat /\ q \in Seq(S) /\ \A i \in 1..n : q[i] \in Elems(q)
  BY DEF Line, Elems
<1>2. r \in Seq(S) /\ Len(r) = n + 1 /\ r[n + 1] = t /\ \A i \in 1..n : r[i] = q[i]
  BY <1>1, AppendProperties
<1> HIDE DEF n, r
<1>3. \A i \in 1..(n + 1) : i \in 1..n \/ i = n + 1
  BY <1>1
<1>4. 1..n \subseteq 1..(n + 1) /\ n + 1 \in 1..(n + 1)
  BY <1>1
<1>5. Elems(r) = Elems(q) \cup {t}
  BY <1>2, <1>3, <1>4 DEF Elems, n
<1>6. ASSUME NEW i \in 1..(n + 1), NEW j \in 1..(n + 1), r[i] = r[j]  PROVE i = j
  <2>1. CASE i \in 1..n /\ j \in 1..n
    BY <1>2, <1>6, <2>1 DEF Line, Distinct, n
  <2>2. CASE i \notin 1..n \/ j \notin 1..n
    BY <1>1, <1>2, <1>3, <1>6, <2>2
  <2> QED  BY <2>1, <2>2
<1> QED  BY <1>2, <1>5, <1>6 DEF Line, Distinct, r

\* Signals take the first ones off the line and leave the others in it.
LEMMA SignalLine ==
    ASSUME NEW S, NEW q, Line(q, S), NEW n \in Nat
    PROVE  /\ Line(LeftAfter(q, n), S)
           /\ Elems(LeftAfter(q, n)) = Elems(q) \ Signalled(q, n)
           /\ Signalled(q, n) \subseteq Elems(q)
           /\ Len(LeftAfter(q, n)) = Len(q) - Least(n, Len(q))
<1> DEFINE k == Least(n, Len(q))
           r == LeftAfter(q, n)
<1>1. Len(q) \in Nat /\ q \in Seq(S) /\ (\A i \in 1..Len(q) : q[i] \in S)
  BY LineFacts DEF Line
<1>2. k \in Nat /\ k <= Len(q) /\ k <= n /\ (k < n => k = Len(q))
  BY <1>1 DEF Least
<1>3. /\ r \in Seq(S) /\ Len(r) = Len(q) - k
      /\ \A i \in 1..(Len(q) - k) : r[i] = q[i + k]
  <2>1. \A i \in (n + 1)..Len(q) : q[i] \in S
    BY <1>1
  <2>2. n + 1 \in Int /\ Len(q) \in Int
    BY <1>1
  <2>3. /\ r \in Seq(S)
        /\ Len(r) = IF n + 1 <= Len(q) THEN Len(q) - (n + 1) + 1 ELSE 0
        /\ \A i \in 1..(Len(q) - (n + 1) + 1) : r[i] = q[(n + 1) + i - 1]
    BY <2>1, <2>2, SubSeqProperties DEF LeftAfter
  <2>4. Len(r) = Len(q) - k
    BY <1>1, <1>2, <2>3
  <2>5. ASSUME NEW i \in 1..(Len(q) - k)  PROVE r[i] = q[i + k]
    <3>1. k = n
      BY <1>1, <1>2, <2>5
    <3>2. i \in 1..(Len(q) - (n + 1) + 1) /\ (n + 1) + i - 1 = i + k
      BY <1>1, <2>5, <3>1
    <3> QED  BY <2>3, <3>2
  <2> QED  BY <2>3, <2>4, <2>5
<1> HIDE DEF k, r
<1>4. \A i, j \in 1..Len(q) : q[i] = q[j] => i = j
  BY DEF Line, Distinct
<1>5. Signalled(q, n) = {q[i] : i \in 1..k}
  BY DEF Signalled, k
<1>6. Elems(r) = {q[i] : i \in (k + 1)..Len(q)}
  <2>1. ASSUME NEW i \in 1..(Len(q) - k)  PROVE r[i] = q[i + k] /\ i + k \in (k + 1)..Len(q)
    BY <1>1, <1>2, <1>3
  <2>2. ASSUME NEW i \in (k + 1)..Len(q)  PROVE r[i - k] = q[i] /\ i - k \in 1..(Len(q) - k)
    <3>1. i - k \in 1..(Len(q) - k) /\ (i - k) + k = i
      BY <1>1, <1>2
    <3> QED  BY <1>3, <3>1
  <2> QED  BY <1>3, <2>1, <2>2 DEF Elems
<1>7. Elems(r) = Elems(q) \ Signalled(q, n) /\ Signalled(q, n) \subseteq Elems(q)
  <2>1. \A i \in 1..Len(q) : i \in 1..k \/ i \in (k + 1)..Len(q)
    BY <1>1, <1>2
  <2>2. \A i \in 1..k : i \in 1..Len(q) /\ i \notin (k + 1)..Len(q)
    BY <1>1, <1>2
  <2>3. \A i \in (k + 1)..Len(q) : i \in 1..Len(q)
    BY <1>1, <1>2
  <2>4. ASSUME NEW i \in (k + 1)..Len(q)  PROVE q[i] \notin Signalled(q, n)
    BY <1>4, <1>5, <2>2, <2>3
  <2>5. ASSUME NEW i \in 1..Len(q), q[i] \notin Signalled(q, n)  PROVE q[i] \in Elems(r)
    BY <1>5, <1>6, <2>1, <2>5
  <2>6. Elems(r) \subseteq Elems(q) /\ Signalled(q, n) \subseteq Elems(q)
    BY <1>5, <1>6, <2>2, <2>3 DEF Elems
  <2>7. \A x \in Elems(r) : x \notin Signalled(q, n)
    BY <1>6, <2>4
  <2>8. \A x \in Elems(q) : x \notin Signalled(q, n) => x \in Elems(r)
    BY <2>5 DEF Elems
  <2> QED  BY <2>6, <2>7, <2>8
<1>8. Distinct(r)
  <2> SUFFICES ASSUME NEW i \in 1..(Len(q) - k), NEW j \in 1..(Len(q) - k), r[i] = r[j]
               PROVE  i = j
    BY <1>3 DEF Distinct
  <2>1. i + k \in 1..Len(q) /\ j + k \in 1..Len(q) /\ q[i + k] = q[j + k]
    BY <1>1, <1>2, <1>3
  <2>2. i + k = j + k
    BY <1>4, <2>1
  <2> QED  BY <1>1, <1>2, <2>2
<1> QED  BY <1>3, <1>7, <1>8 DEF Line, k, r

\* The instances of Waiting that the programs use are all this one.
LEMMA SameWaiting ==
    /\ \A q, n : T!LeftAfter(q, n) = LeftAfter(q, n) /\ T!Signalled(q, n) = Signalled(q, n)
    /\ \A q, n : TS!LeftAfter(q, n) = LeftAfter(q, n) /\ TS!Signalled(q, n) = Signalled(q, n)
    /\ \A q, n : Sm!LeftAfter(q, n) = LeftAfter(q, n) /\ Sm!Signalled(q, n) = Signalled(q, n)
    /\ \A q, n : BB!LeftAfter(q, n) = LeftAfter(q, n) /\ BB!Signalled(q, n) = Signalled(q, n)
    /\ \A q, n : Po!LeftAfter(q, n) = LeftAfter(q, n) /\ Po!Signalled(q, n) = Signalled(q, n)
    /\ \A q, n : Ha!LeftAfter(q, n) = LeftAfter(q, n) /\ Ha!Signalled(q, n) = Signalled(q, n)
BY DEF LeftAfter, Signalled, Least, T!LeftAfter, T!Signalled, T!Least,
       TS!LeftAfter, TS!Signalled, TS!Least, Sm!LeftAfter, Sm!Signalled, Sm!Least, BB!LeftAfter, BB!Signalled, BB!Least,
       Po!LeftAfter, Po!Signalled, Po!Least, Ha!LeftAfter, Ha!Signalled, Ha!Least

-----------------------------------------------------------------------------
(* Counting.                                                               *)

LEMMA SameCardinality ==
    /\ \A S : T!Cardinality(S) = Cardinality(S)
    /\ \A S : TS!Cardinality(S) = Cardinality(S)
    /\ \A S : Sm!Cardinality(S) = Cardinality(S)
    /\ \A S : Rv!Cardinality(S) = Cardinality(S)
BY DEF Cardinality, T!Cardinality, TS!Cardinality, Sm!Cardinality, Rv!Cardinality

\* A thread more, a thread less, or another one with the same property.
LEMMA CountChange ==
    ASSUME NEW S, IsFiniteSet(S), NEW t \in S, NEW A, A \subseteq S
    PROVE  /\ Cardinality(A) \in Nat /\ Cardinality(A) <= Cardinality(S) /\ Cardinality(S) \in Nat
           /\ t \in A => Cardinality(A \ {t}) = Cardinality(A) - 1 /\ Cardinality(A) >= 1
           /\ t \notin A => Cardinality(A \cup {t}) = Cardinality(A) + 1
           /\ Cardinality(A) = 0 <=> A = {}
<1>1. IsFiniteSet(A) /\ Cardinality(A) <= Cardinality(S)
  BY FS_Subset
<1>2. Cardinality(A) \in Nat /\ Cardinality(S) \in Nat /\ Cardinality(A \ {t}) \in Nat
  BY <1>1, FS_CardinalityType, FS_RemoveElement
<1>3. t \in A => Cardinality(A \ {t}) = Cardinality(A) - 1
  BY <1>1, FS_RemoveElement
<1>4. t \notin A => Cardinality(A \cup {t}) = Cardinality(A) + 1
  BY <1>1, FS_AddElement
<1>5. Cardinality(A) = 0 <=> A = {}
  BY <1>1, FS_EmptySet
<1> QED  BY <1>1, <1>2, <1>3, <1>4, <1>5

-----------------------------------------------------------------------------
(* traffic.c                                                               *)

TActive(g) == {c \in Cars : t_dir[c] = g /\ t_pc[c] \notin {"start", "done"}}

TTypes ==
    /\ t_direction \in T!Directions
    /\ t_queue \in [T!Directions -> Seq(Cars)]
    /\ t_dir \in [Cars -> T!Directions]
    /\ t_trips \in [Cars -> 0..Crossings]
    /\ t_pc \in [Cars -> {"start", "away", "waiting", "woken", "crossing", "done"}]

\* Who waits does so once, at its own end, and has not been woken.
TLines ==
    \A g \in T!Directions :
        /\ Line(t_queue[g], Cars)
        /\ \A c \in Elems(t_queue[g]) : t_pc[c] = "waiting" /\ t_dir[c] = g

TCounts == t_active = [g \in T!Directions |-> Cardinality(TActive(g))]

TRounds == \A c \in Cars : t_pc[c] \in {"waiting", "woken", "crossing"} => t_trips[c] < Crossings

TStreet == /\ t_count = Cardinality(T!InStreet)
           /\ t_count <= MaxOccupancy
           /\ \A c \in T!InStreet : t_dir[c] = t_direction

TInv == TTypes /\ TLines /\ TCounts /\ TRounds /\ TStreet

LEMMA TDirections == T!Directions = {"east", "west"} /\ \A g \in T!Directions : T!oppositeEnd(g) \in T!Directions
BY DEF T!Directions, T!EAST, T!WEST, T!oppositeEnd

LEMMA TInit == T!Init => TInv
<1> SUFFICES ASSUME T!Init  PROVE TInv
  OBVIOUS
<1> USE DEF T!Init, T!initializeStreet
<1>1. TTypes
  BY CarsAssumption, EmptySeq DEF TTypes, T!Directions, T!EAST
<1>2. TLines
  BY EmptyLine DEF TLines
<1>3. \A g \in T!Directions : TActive(g) = {}
  BY DEF TActive
<1>4. TCounts
  BY <1>3, FS_EmptySet DEF TCounts
<1>5. T!InStreet = {}
  BY DEF T!InStreet
<1>6. TStreet
  BY <1>5, FS_EmptySet, CarsAssumption DEF TStreet
<1> QED  BY <1>1, <1>2, <1>4, <1>6 DEF TInv, TRounds

LEMMA TStart == ASSUME TInv, NEW c \in Cars, T!Start(c)  PROVE TInv'
<1>1. PICK g \in T!Directions : t_dir' = [t_dir EXCEPT ![c] = g] /\ t_active' = [t_active EXCEPT ![g] = @ + 1]
  BY DEF T!Start
<1>2. /\ t_pc[c] = "start" /\ t_pc' = [t_pc EXCEPT ![c] = "away"]
      /\ t_direction' = t_direction /\ t_count' = t_count /\ t_queue' = t_queue /\ t_trips' = t_trips
  BY DEF T!Start, T!Goto
<1>3. TTypes'
  BY <1>1, <1>2 DEF TInv, TTypes
<1>4. TLines'
  BY <1>1, <1>2 DEF TInv, TLines, TTypes
<1>5. TRounds'
  BY <1>2 DEF TInv, TRounds, TTypes
<1>6. c \notin TActive(g) /\ TActive(g)' = TActive(g) \cup {c}
  BY <1>1, <1>2 DEF TActive, TInv, TTypes
<1>7. \A h \in T!Directions : h # g => TActive(h)' = TActive(h)
  BY <1>1, <1>2 DEF TActive, TInv, TTypes
<1>8. TCounts'
  <2>1. Cardinality(TActive(g) \cup {c}) = Cardinality(TActive(g)) + 1
    BY <1>6, CarsAssumption, CountChange DEF TActive
  <2> QED  BY <1>1, <1>6, <1>7, <2>1 DEF TInv, TCounts
<1>9. T!InStreet' = T!InStreet /\ c \notin T!InStreet
  BY <1>2 DEF T!InStreet, TInv, TTypes
<1>10. TStreet'
  BY <1>1, <1>2, <1>9 DEF TInv, TStreet, TTypes, T!InStreet
<1> QED  BY <1>3, <1>4, <1>5, <1>8, <1>10 DEF TInv

\* A car that is not in the street or on a line tests the loop of enterStreet.
\* Nobody is in the street when that turns it.
LEMMA TGoOrWait ==
    ASSUME TInv, NEW c \in Cars, t_pc[c] \in {"away", "woken"}, t_trips[c] < Crossings,
           NEW d \in T!Directions, d = t_direction \/ t_count = 0,
           T!GoOrWait(c, t_dir[c], d)
    PROVE  TInv'
<1> DEFINE g == t_dir[c]
<1>1. /\ t_direction' = d /\ UNCHANGED <<t_active, t_dir, t_trips>>
      /\ g \in T!Directions
  BY DEF T!GoOrWait, TInv, TTypes
<1>2. TActive(g)' = TActive(g) /\ \A h \in T!Directions : TActive(h)' = TActive(h)
  BY <1>1 DEF T!GoOrWait, T!Goto, TActive, TInv, TTypes
<1>3. TCounts'
  BY <1>1, <1>2 DEF TInv, TCounts
<1>4. t_count = 0 => T!InStreet = {}
  BY CarsAssumption, CountChange DEF TInv, TStreet, T!InStreet
<1>5. CASE g # d \/ t_count >= MaxOccupancy
  <2>1. /\ t_queue' = [t_queue EXCEPT ![g] = Append(@, c)]
        /\ t_pc' = [t_pc EXCEPT ![c] = "waiting"] /\ t_count' = t_count
    BY <1>5 DEF T!GoOrWait, T!Goto
  <2>2. c \notin Elems(t_queue[g]) /\ Line(t_queue[g], Cars)
    BY <1>1 DEF TInv, TLines
  <2>3. Line(Append(t_queue[g], c), Cars) /\ Elems(Append(t_queue[g], c)) = Elems(t_queue[g]) \cup {c}
    BY <2>2, JoinLine
  <2>4. TTypes'
    BY <1>1, <2>1, <2>3 DEF TInv, TTypes, Line
  <2>5. TLines'
    <3> SUFFICES ASSUME NEW h \in T!Directions
                 PROVE  /\ Line(t_queue'[h], Cars)
                        /\ \A e \in Elems(t_queue'[h]) : t_pc'[e] = "waiting" /\ t_dir'[e] = h
      BY DEF TLines
    <3>1. Elems(t_queue[h]) \subseteq Cars
      BY LineFacts DEF TInv, TLines
    <3>2. CASE h = g
      BY <1>1, <2>1, <2>3, <3>1, <3>2 DEF TInv, TLines, TTypes
    <3>3. CASE h # g
      BY <1>1, <2>1, <3>1, <3>3 DEF TInv, TLines, TTypes
    <3> QED  BY <3>2, <3>3
  <2>6. TRounds'
    BY <1>1, <2>1 DEF TInv, TRounds, TTypes
  <2>7. T!InStreet' = T!InStreet
    BY <2>1 DEF T!InStreet, TInv, TTypes
  <2>8. TStreet'
    BY <1>1, <1>4, <2>1, <2>7 DEF TInv, TStreet
  <2> QED  BY <1>3, <2>4, <2>5, <2>6, <2>8 DEF TInv
<1>6. CASE g = d /\ ~(t_count >= MaxOccupancy)
  <2>1. /\ t_count' = t_count + 1 /\ t_queue' = t_queue
        /\ t_pc' = [t_pc EXCEPT ![c] = "crossing"]
    BY <1>6 DEF T!GoOrWait, T!Goto
  <2>2. TTypes'
    BY <1>1, <2>1 DEF TInv, TTypes
  <2>3. TLines'
    BY <1>1, <2>1 DEF TInv, TLines, TTypes
  <2>4. TRounds'
    BY <1>1, <2>1 DEF TInv, TRounds, TTypes
  <2>5. T!InStreet' = T!InStreet \cup {c} /\ c \notin T!InStreet
    BY <2>1 DEF T!InStreet, TInv, TTypes
  <2>6. Cardinality(T!InStreet \cup {c}) = Cardinality(T!InStreet) + 1 /\ Cardinality(T!InStreet) \in Nat
    BY <2>5, CarsAssumption, CountChange DEF T!InStreet
  <2>7. TStreet'
    <3>1. t_count' = Cardinality(T!InStreet')
      BY <2>1, <2>5, <2>6 DEF TInv, TStreet
    <3>2. t_count' <= MaxOccupancy
      BY <1>6, <2>1, <2>6, CarsAssumption DEF TInv, TStreet
    <3>3. ASSUME NEW e \in T!InStreet'  PROVE t_dir'[e] = t_direction'
      BY <1>1, <1>4, <1>6, <2>5, <3>3 DEF TInv, TStreet
    <3> QED  BY <3>1, <3>2, <3>3 DEF TStreet
  <2> QED  BY <1>3, <2>2, <2>3, <2>4, <2>7 DEF TInv
<1> QED  BY <1>5, <1>6

LEMMA TLeave == ASSUME TInv, NEW c \in Cars, T!leaveStreet(c)  PROVE TInv'
<1> DEFINE opposite == T!oppositeEnd(t_direction)
           turns == t_count = 1 /\ t_active[opposite] # 0
           g == IF turns THEN opposite ELSE t_direction
           n == IF turns THEN MaxOccupancy ELSE IF t_count - 1 < MaxOccupancy /\ t_active[g] # 0 THEN 1 ELSE 0
           woken == Signalled(t_queue[g], n)
<1>1. /\ t_pc[c] = "crossing" /\ t_count' = t_count - 1 /\ t_direction' = g
      /\ t_trips' = [t_trips EXCEPT ![c] = @ + 1]
      /\ t_active' = t_active /\ t_dir' = t_dir
      /\ t_queue' = [t_queue EXCEPT ![g] = LeftAfter(t_queue[g], n)]
      /\ t_pc' = [d \in Cars |-> IF d = c THEN "away" ELSE IF d \in woken THEN "woken" ELSE t_pc[d]]
  BY SameWaiting DEF T!leaveStreet, T!Signal
<1>2. g \in T!Directions /\ n \in Nat /\ Line(t_queue[g], Cars)
  BY TDirections, CarsAssumption DEF TInv, TTypes, TLines
<1>3. turns => t_count = 1
  OBVIOUS
<1>4. ~turns => g = t_direction
  OBVIOUS
<1> HIDE DEF g, n, turns
<1>5. /\ Line(LeftAfter(t_queue[g], n), Cars)
      /\ Elems(LeftAfter(t_queue[g], n)) = Elems(t_queue[g]) \ woken
      /\ woken \subseteq Elems(t_queue[g])
  BY <1>2, SignalLine
<1>6. \A d \in woken : d \in Cars /\ t_pc[d] = "waiting" /\ t_dir[d] = g
  BY <1>2, <1>5, LineFacts DEF TInv, TLines
<1> HIDE DEF woken
<1>7. TTypes'
  <2>1. t_trips[c] \in 0..Crossings /\ t_trips[c] < Crossings
    BY <1>1 DEF TInv, TTypes, TRounds
  <2>2. t_trips' \in [Cars -> 0..Crossings]
    BY <1>1, <2>1, CarsAssumption DEF TInv, TTypes
  <2> QED  BY <1>1, <1>2, <1>5, <2>2 DEF TInv, TTypes, Line
<1>8. TLines'
  <2> SUFFICES ASSUME NEW h \in T!Directions
               PROVE  /\ Line(t_queue'[h], Cars)
                      /\ \A e \in Elems(t_queue'[h]) : t_pc'[e] = "waiting" /\ t_dir'[e] = h
    BY DEF TLines
  <2>1. Elems(t_queue[h]) \subseteq Cars
    BY LineFacts DEF TInv, TLines
  <2>2. CASE h = g
    BY <1>1, <1>2, <1>5, <2>1, <2>2 DEF TInv, TLines, TTypes
  <2>3. CASE h # g
    BY <1>1, <1>2, <1>6, <2>1, <2>3 DEF TInv, TLines, TTypes
  <2> QED  BY <2>2, <2>3
<1>9. TRounds'
  BY <1>1, <1>6 DEF TInv, TRounds, TTypes
<1>10. TCounts'
  <2>1. \A h \in T!Directions : TActive(h)' = TActive(h)
    BY <1>1, <1>6 DEF TActive
  <2> QED  BY <1>1, <2>1 DEF TInv, TCounts
<1>11. T!InStreet' = T!InStreet \ {c} /\ c \in T!InStreet
  BY <1>1, <1>6 DEF T!InStreet
<1>12. Cardinality(T!InStreet \ {c}) = Cardinality(T!InStreet) - 1 /\ Cardinality(T!InStreet) \in Nat
  <2>1. T!InStreet \subseteq Cars /\ IsFiniteSet(Cars)
    BY CarsAssumption DEF T!InStreet
  <2> QED  BY <1>11, <2>1, CountChange
<1>13. turns => T!InStreet' = {}
  <2>1. T!InStreet' \subseteq Cars
    BY DEF T!InStreet
  <2> QED  BY <1>1, <1>3, <1>11, <1>12, <2>1, CarsAssumption, CountChange DEF TInv, TStreet
<1>14. TStreet'
  BY <1>1, <1>4, <1>11, <1>12, <1>13, CarsAssumption DEF TInv, TStreet
<1> QED  BY <1>7, <1>8, <1>9, <1>10, <1>14 DEF TInv

LEMMA TFinish == ASSUME TInv, NEW c \in Cars, T!Finish(c)  PROVE TInv'
<1> DEFINE g == t_dir[c]
<1>1. /\ t_pc[c] = "away" /\ t_active' = [t_active EXCEPT ![g] = @ - 1]
      /\ t_pc' = [t_pc EXCEPT ![c] = "done"] /\ g \in T!Directions
      /\ UNCHANGED <<t_direction, t_count, t_queue, t_dir, t_trips>>
  BY DEF T!Finish, T!Goto, TInv, TTypes
<1>2. TTypes' /\ TRounds'
  BY <1>1 DEF TInv, TTypes, TRounds
<1>3. TLines'
  BY <1>1 DEF TInv, TLines, TTypes
<1>4. c \in TActive(g) /\ TActive(g)' = TActive(g) \ {c}
  BY <1>1 DEF TActive, TInv, TTypes
<1>5. \A h \in T!Directions : h # g => TActive(h)' = TActive(h)
  BY <1>1 DEF TActive, TInv, TTypes
<1>6. TCounts'
  <2>1. Cardinality(TActive(g) \ {c}) = Cardinality(TActive(g)) - 1
    BY <1>4, CarsAssumption, CountChange DEF TActive
  <2> QED  BY <1>1, <1>4, <1>5, <2>1 DEF TInv, TCounts
<1>7. T!InStreet' = T!InStreet
  BY <1>1 DEF T!InStreet, TInv, TTypes
<1>8. TStreet'
  BY <1>1, <1>7 DEF TInv, TStreet
<1> QED  BY <1>2, <1>3, <1>6, <1>8 DEF TInv

LEMMA TStep == ASSUME TInv, T!Next \/ UNCHANGED Tvars  PROVE TInv'
<1>1. CASE UNCHANGED Tvars
  <2>1. T!InStreet' = T!InStreet /\ \A g : TActive(g)' = TActive(g)
    BY <1>1 DEF Tvars, T!InStreet, TActive
  <2> QED  BY <1>1, <2>1 DEF Tvars, TInv, TTypes, TLines, TCounts, TRounds, TStreet
<1>2. ASSUME NEW c \in Cars, T!Car(c)  PROVE TInv'
  <2>1. CASE T!enterStreet(c)
    <3> DEFINE d == IF t_count = 0 /\ t_active[t_dir[c]] # 0 THEN t_dir[c] ELSE t_direction
    <3>1. /\ t_pc[c] = "away" /\ t_trips[c] < Crossings /\ T!GoOrWait(c, t_dir[c], d)
          /\ d \in T!Directions /\ (d = t_direction \/ t_count = 0)
      BY <2>1 DEF T!enterStreet, TInv, TTypes
    <3> HIDE DEF d
    <3> QED  BY <3>1, TGoOrWait
  <2>2. CASE T!Retest(c)
    BY <2>2, TGoOrWait DEF T!Retest, TInv, TRounds, TTypes
  <2> QED  BY <1>2, <2>1, <2>2, TStart, TLeave, TFinish DEF T!Car
<1> QED  BY <1>1, <1>2 DEF T!Next

-----------------------------------------------------------------------------
(* traffic_sem.c                                                           *)

SWaits == {"wait", "queued", "passed"}

SActive(g) == {c \in Cars : s_dir[c] = g /\ s_pc[c] \notin {"start", "done"}}
SWaiting(g) == {c \in Cars : s_dir[c] = g /\ s_pc[c] \in SWaits}
SCrossing(g) == {c \in Cars : s_dir[c] = g /\ s_pc[c] = "crossing"}
SInStreet == {c \in Cars : s_pc[c] = "crossing"}

STypes ==
    /\ s_direction \in TS!Directions
    /\ s_queue \in [TS!Directions -> Seq(Cars)]
    /\ s_value \in [TS!Directions -> Int]
    /\ s_dir \in [Cars -> TS!Directions]
    /\ s_trips \in [Cars -> 0..CrossingsSem]
    /\ s_pc \in [Cars -> {"start", "away", "wait", "queued", "passed", "crossing", "done"}]

\* Who waits on a semaphore does so once, at its own end, and has no permit;
\* there is a line exactly when the value is negative, and it is as long.
SLines ==
    \A g \in TS!Directions :
        /\ Line(s_queue[g], Cars)
        /\ \A c \in Elems(s_queue[g]) : s_pc[c] = "queued" /\ s_dir[c] = g
        /\ Len(s_queue[g]) = IF s_value[g] < 0 THEN -s_value[g] ELSE 0

SCounts ==
    /\ s_active = [g \in TS!Directions |-> Cardinality(SActive(g))]
    /\ s_numWaiting = [g \in TS!Directions |-> Cardinality(SWaiting(g))]
    /\ s_inStreet = [g \in TS!Directions |-> Cardinality(SCrossing(g))]
    /\ s_count = Cardinality(SInStreet)
    /\ s_count = s_inStreet["east"] + s_inStreet["west"]

SRounds == \A c \in Cars : s_pc[c] \in SWaits \cup {"crossing"} => s_trips[c] < CrossingsSem

SInv == STypes /\ SLines /\ SCounts /\ SRounds

LEMMA SDirections == TS!Directions = {"east", "west"} /\ \A g \in TS!Directions : TS!oppositeEnd(g) \in TS!Directions
BY DEF TS!Directions, TS!EAST, TS!WEST, TS!oppositeEnd

LEMMA SCars ==
    ASSUME NEW c \in Cars, NEW A, A \subseteq Cars
    PROVE  /\ Cardinality(A) \in Nat
           /\ c \in A => Cardinality(A \ {c}) = Cardinality(A) - 1
           /\ c \notin A => Cardinality(A \cup {c}) = Cardinality(A) + 1
<1>1. IsFiniteSet(A) /\ Cardinality(A) \in Nat
  BY CarsAssumption, FS_Subset, FS_CardinalityType
<1>2. c \in A => Cardinality(A \ {c}) = Cardinality(A) - 1
  BY <1>1, FS_RemoveElement
<1>3. c \notin A => Cardinality(A \cup {c}) = Cardinality(A) + 1
  BY <1>1, FS_AddElement
<1> QED  BY <1>1, <1>2, <1>3

LEMMA SCarsInStreet ==
    /\ Cardinality(SInStreet) \in Nat
    /\ \A g \in TS!Directions : /\ Cardinality(SActive(g)) \in Nat /\ Cardinality(SWaiting(g)) \in Nat
                               /\ Cardinality(SCrossing(g)) \in Nat
<1>1. \A A : A \subseteq Cars => Cardinality(A) \in Nat
  BY CarsAssumption, FS_Subset, FS_CardinalityType
<1> QED  BY <1>1 DEF SActive, SWaiting, SCrossing, SInStreet

LEMMA SInit == TS!Init => SInv
<1> SUFFICES ASSUME TS!Init  PROVE SInv
  OBVIOUS
<1> USE DEF TS!Init
<1>1. STypes
  BY CarsAssumption, EmptySeq DEF STypes, TS!Directions, TS!EAST
<1>2. SLines
  BY EmptyLine, EmptySeq DEF SLines
<1>3. SInStreet = {} /\ \A g \in TS!Directions : SActive(g) = {} /\ SWaiting(g) = {} /\ SCrossing(g) = {}
  BY DEF SActive, SWaiting, SCrossing, SInStreet, SWaits
<1>4. SCounts
  <2>1. /\ Cardinality(SInStreet) = 0
        /\ \A g \in TS!Directions : /\ Cardinality(SActive(g)) = 0 /\ Cardinality(SWaiting(g)) = 0
                                   /\ Cardinality(SCrossing(g)) = 0
    BY <1>3, FS_EmptySet
  <2>2. s_inStreet["east"] = 0 /\ s_inStreet["west"] = 0
    BY SDirections
  <2> QED  BY <2>1, <2>2 DEF SCounts
<1> QED  BY <1>1, <1>2, <1>4 DEF SInv, SRounds, SWaits

LEMMA SStart == ASSUME SInv, NEW c \in Cars, TS!Start(c)  PROVE SInv'
<1>1. PICK g \in TS!Directions : s_dir' = [s_dir EXCEPT ![c] = g] /\ s_active' = [s_active EXCEPT ![g] = @ + 1]
  BY DEF TS!Start
<1>2. /\ s_pc[c] = "start" /\ s_pc' = [s_pc EXCEPT ![c] = "away"]
      /\ UNCHANGED <<s_direction, s_count, s_inStreet, s_numWaiting, s_value, s_queue, s_trips>>
  BY DEF TS!Start, TS!Goto, TS!sems
<1>3. STypes' /\ SRounds'
  BY <1>1, <1>2 DEF SInv, STypes, SRounds, SWaits
<1>4. SLines'
  <2>1. \A e \in Cars : s_pc[e] = "queued" => e # c /\ s_pc'[e] = "queued" /\ s_dir'[e] = s_dir[e]
    BY <1>1, <1>2 DEF SInv, STypes
  <2>2. \A h \in TS!Directions : Elems(s_queue[h]) \subseteq Cars
    BY LineFacts DEF SInv, SLines
  <2> QED  BY <1>2, <2>1, <2>2 DEF SInv, SLines
<1>5. c \notin SActive(g) /\ SActive(g)' = SActive(g) \cup {c}
  BY <1>1, <1>2 DEF SActive, SInv, STypes
<1>6. \A h \in TS!Directions : h # g => SActive(h)' = SActive(h)
  BY <1>1, <1>2 DEF SActive, SInv, STypes
<1>7. SInStreet' = SInStreet /\ \A h \in TS!Directions : SWaiting(h)' = SWaiting(h) /\ SCrossing(h)' = SCrossing(h)
  BY <1>1, <1>2 DEF SInStreet, SWaiting, SCrossing, SWaits, SInv, STypes
<1>8. SCounts'
  <2>1. Cardinality(SActive(g) \cup {c}) = Cardinality(SActive(g)) + 1
    BY <1>5, SCars DEF SActive
  <2> QED  BY <1>1, <1>2, <1>5, <1>6, <1>7, <2>1 DEF SInv, SCounts
<1> QED  BY <1>3, <1>4, <1>8 DEF SInv

\* n signals on the semaphore of g: the first cars of its line have a permit then.
LEMMA SSignals ==
    ASSUME SInv, NEW g \in TS!Directions, NEW n \in Nat, NEW c \in Cars, s_pc[c] # "queued",
           NEW l \in {"wait", "crossing", "away"}, TS!Signals(g, n, c, l), s_dir' = s_dir
    PROVE  /\ SLines'
           /\ s_value' \in [TS!Directions -> Int]
           /\ s_queue' \in [TS!Directions -> Seq(Cars)]
           /\ s_pc' \in [Cars -> {"start", "away", "wait", "queued", "passed", "crossing", "done"}]
           /\ s_pc'[c] = l
           /\ \A d \in Cars : d # c => s_pc'[d] = s_pc[d] \/ (s_pc[d] = "queued" /\ s_pc'[d] = "passed")
<1> DEFINE woken == Signalled(s_queue[g], n)
           left == LeftAfter(s_queue[g], n)
<1>1. /\ s_value' = [s_value EXCEPT ![g] = @ + n]
      /\ s_queue' = [s_queue EXCEPT ![g] = left]
      /\ s_pc' = [d \in Cars |-> IF d = c THEN l ELSE IF d \in woken THEN "passed" ELSE s_pc[d]]
  BY SameWaiting DEF TS!Signals
<1>2. /\ Line(s_queue[g], Cars) /\ Len(s_queue[g]) \in Nat
      /\ Len(s_queue[g]) = IF s_value[g] < 0 THEN -s_value[g] ELSE 0
  BY LineFacts DEF SInv, SLines
<1>3. /\ Line(left, Cars) /\ Elems(left) = Elems(s_queue[g]) \ woken /\ woken \subseteq Elems(s_queue[g])
      /\ Len(left) = Len(s_queue[g]) - Least(n, Len(s_queue[g]))
  BY <1>2, SignalLine
<1>4. \A d \in woken : d \in Cars /\ s_pc[d] = "queued" /\ s_dir[d] = g
  BY <1>2, <1>3, LineFacts DEF SInv, SLines
<1> HIDE DEF woken, left
<1>5. s_value' \in [TS!Directions -> Int] /\ s_value'[g] = s_value[g] + n /\ s_value[g] \in Int
  BY <1>1 DEF SInv, STypes
<1>6. Len(left) = IF s_value'[g] < 0 THEN -s_value'[g] ELSE 0
  BY <1>2, <1>3, <1>5 DEF Least
<1>7. SLines'
  <2> SUFFICES ASSUME NEW h \in TS!Directions
               PROVE  /\ Line(s_queue'[h], Cars)
                      /\ \A e \in Elems(s_queue'[h]) : s_pc'[e] = "queued" /\ s_dir'[e] = h
                      /\ Len(s_queue'[h]) = IF s_value'[h] < 0 THEN -s_value'[h] ELSE 0
    BY DEF SLines
  <2>1. Elems(s_queue[h]) \subseteq Cars /\ \A e \in Elems(s_queue[h]) : s_pc[e] = "queued" /\ s_dir[e] = h
    BY LineFacts DEF SInv, SLines
  <2>2. CASE h = g
    <3>1. s_queue'[h] = left
      BY <1>1, <2>2 DEF SInv, STypes
    <3>2. \A e \in Elems(left) : s_pc'[e] = "queued" /\ s_dir'[e] = h
      BY <1>1, <1>3, <2>1, <2>2
    <3> QED  BY <1>3, <1>6, <2>2, <3>1, <3>2
  <2>3. CASE h # g
    <3>1. s_queue'[h] = s_queue[h] /\ s_value'[h] = s_value[h]
      BY <1>1, <2>3 DEF SInv, STypes
    <3>2. \A e \in Elems(s_queue[h]) : s_pc'[e] = "queued" /\ s_dir'[e] = h
      BY <1>1, <1>4, <2>1, <2>3
    <3> QED  BY <3>1, <3>2 DEF SInv, SLines
  <2> QED  BY <2>2, <2>3
<1>8. s_queue' \in [TS!Directions -> Seq(Cars)]
  BY <1>1, <1>3 DEF SInv, STypes, Line
<1> QED  BY <1>1, <1>4, <1>5, <1>7, <1>8 DEF SInv, STypes

\* What becomes of the sets of cars when c moves and others get a permit.
LEMMA SMoves ==
    ASSUME SInv, NEW c \in Cars, s_dir' = s_dir,
           \A d \in Cars : d # c => s_pc'[d] = s_pc[d] \/ (s_pc[d] = "queued" /\ s_pc'[d] = "passed")
    PROVE  /\ \A h \in TS!Directions : h # s_dir[c] =>
                  SActive(h)' = SActive(h) /\ SWaiting(h)' = SWaiting(h) /\ SCrossing(h)' = SCrossing(h)
           /\ SActive(s_dir[c])' = IF s_pc'[c] \in {"start", "done"} THEN SActive(s_dir[c]) \ {c}
                                                                  ELSE SActive(s_dir[c]) \cup {c}
           /\ SWaiting(s_dir[c])' = IF s_pc'[c] \in SWaits THEN SWaiting(s_dir[c]) \cup {c}
                                                          ELSE SWaiting(s_dir[c]) \ {c}
           /\ SCrossing(s_dir[c])' = IF s_pc'[c] = "crossing" THEN SCrossing(s_dir[c]) \cup {c}
                                                            ELSE SCrossing(s_dir[c]) \ {c}
           /\ SInStreet' = IF s_pc'[c] = "crossing" THEN SInStreet \cup {c} ELSE SInStreet \ {c}
<1>1. \A d \in Cars : d # c =>
         /\ s_pc'[d] \in {"start", "done"} <=> s_pc[d] \in {"start", "done"}
         /\ s_pc'[d] \in SWaits <=> s_pc[d] \in SWaits
         /\ s_pc'[d] = "crossing" <=> s_pc[d] = "crossing"
  BY DEF SWaits
<1> USE DEF SActive, SWaiting, SCrossing, SInStreet
<1>2. ASSUME NEW h \in TS!Directions, h # s_dir[c]
      PROVE  SActive(h)' = SActive(h) /\ SWaiting(h)' = SWaiting(h) /\ SCrossing(h)' = SCrossing(h)
  BY <1>1, <1>2
<1>3. SActive(s_dir[c])' = IF s_pc'[c] \in {"start", "done"} THEN SActive(s_dir[c]) \ {c}
                                                           ELSE SActive(s_dir[c]) \cup {c}
  BY <1>1
<1>4. SWaiting(s_dir[c])' = IF s_pc'[c] \in SWaits THEN SWaiting(s_dir[c]) \cup {c}
                                                  ELSE SWaiting(s_dir[c]) \ {c}
  BY <1>1
<1>5. SCrossing(s_dir[c])' = IF s_pc'[c] = "crossing" THEN SCrossing(s_dir[c]) \cup {c}
                                                     ELSE SCrossing(s_dir[c]) \ {c}
  BY <1>1
<1>6. SInStreet' = IF s_pc'[c] = "crossing" THEN SInStreet \cup {c} ELSE SInStreet \ {c}
  BY <1>1
<1> QED  BY <1>2, <1>3, <1>4, <1>5, <1>6

Flag(b) == IF b THEN 1 ELSE 0

\* A set of cars gains c, loses it or stays: its size goes by one, or not.
LEMMA SRecount ==
    ASSUME NEW c \in Cars, NEW A, A \subseteq Cars, NEW B, B \subseteq Cars, A \ {c} = B \ {c}
    PROVE  Cardinality(B) = Cardinality(A) + (Flag(c \in B) - Flag(c \in A))
<1>1. CASE c \in A <=> c \in B
  <2>1. A = B
    BY <1>1
  <2>2. Cardinality(A) \in Nat
    BY SCars
  <2>3. Flag(c \in B) - Flag(c \in A) = 0
    BY <1>1 DEF Flag
  <2> QED  BY <2>1, <2>2, <2>3
<1>2. CASE c \in B /\ c \notin A
  <2>1. B = A \cup {c}
    BY <1>2
  <2> QED  BY <1>2, <2>1, SCars DEF Flag
<1>3. CASE c \in A /\ c \notin B
  <2>1. B = A \ {c}
    BY <1>3
  <2> QED  BY <1>3, <2>1, SCars DEF Flag
<1> QED  BY <1>1, <1>2, <1>3

\* The counters of the direction of c follow c, the others stay.
SFollow(c) ==
    /\ s_active' \in [TS!Directions -> Int]
    /\ s_numWaiting' \in [TS!Directions -> Int]
    /\ s_inStreet' \in [TS!Directions -> Int]
    /\ \A h \in TS!Directions : h # s_dir[c] =>
          s_active'[h] = s_active[h] /\ s_numWaiting'[h] = s_numWaiting[h] /\ s_inStreet'[h] = s_inStreet[h]
    /\ s_active'[s_dir[c]] = s_active[s_dir[c]]
                             + (Flag(s_pc'[c] \notin {"start", "done"}) - Flag(s_pc[c] \notin {"start", "done"}))
    /\ s_numWaiting'[s_dir[c]] = s_numWaiting[s_dir[c]] + (Flag(s_pc'[c] \in SWaits) - Flag(s_pc[c] \in SWaits))
    /\ s_inStreet'[s_dir[c]] = s_inStreet[s_dir[c]] + (Flag(s_pc'[c] = "crossing") - Flag(s_pc[c] = "crossing"))
    /\ s_count' = s_count + (Flag(s_pc'[c] = "crossing") - Flag(s_pc[c] = "crossing"))

LEMMA SCounted ==
    ASSUME SInv, NEW c \in Cars, s_dir' = s_dir, SFollow(c),
           \A d \in Cars : d # c => s_pc'[d] = s_pc[d] \/ (s_pc[d] = "queued" /\ s_pc'[d] = "passed")
    PROVE  SCounts'
<1> DEFINE g == s_dir[c]
<1>1. /\ g \in TS!Directions /\ SInStreet \subseteq Cars /\ SInStreet' \subseteq Cars
      /\ \A h \in TS!Directions : /\ SActive(h) \subseteq Cars /\ SActive(h)' \subseteq Cars
                                 /\ SWaiting(h) \subseteq Cars /\ SWaiting(h)' \subseteq Cars
                                 /\ SCrossing(h) \subseteq Cars /\ SCrossing(h)' \subseteq Cars
  BY DEF SInv, STypes, SActive, SWaiting, SCrossing, SInStreet
<1>2. /\ c \in SActive(g) <=> s_pc[c] \notin {"start", "done"}
      /\ c \in SWaiting(g) <=> s_pc[c] \in SWaits
      /\ c \in SCrossing(g) <=> s_pc[c] = "crossing"
      /\ c \in SInStreet <=> s_pc[c] = "crossing"
      /\ c \in SActive(g)' <=> s_pc'[c] \notin {"start", "done"}
      /\ c \in SWaiting(g)' <=> s_pc'[c] \in SWaits
      /\ c \in SCrossing(g)' <=> s_pc'[c] = "crossing"
      /\ c \in SInStreet' <=> s_pc'[c] = "crossing"
  BY DEF SActive, SWaiting, SCrossing, SInStreet
<1>3. \A h \in TS!Directions : h # g =>
         SActive(h)' = SActive(h) /\ SWaiting(h)' = SWaiting(h) /\ SCrossing(h)' = SCrossing(h)
  BY SMoves
<1>4. /\ SActive(g) \ {c} = SActive(g)' \ {c} /\ SWaiting(g) \ {c} = SWaiting(g)' \ {c}
      /\ SCrossing(g) \ {c} = SCrossing(g)' \ {c} /\ SInStreet \ {c} = SInStreet' \ {c}
  BY SMoves
<1> HIDE DEF g
<1>5. Cardinality(SActive(g)') = Cardinality(SActive(g)) + (Flag(c \in SActive(g)') - Flag(c \in SActive(g)))
  BY <1>1, <1>4, SRecount
<1>6. Cardinality(SWaiting(g)') = Cardinality(SWaiting(g)) + (Flag(c \in SWaiting(g)') - Flag(c \in SWaiting(g)))
  BY <1>1, <1>4, SRecount
<1>7. Cardinality(SCrossing(g)') = Cardinality(SCrossing(g)) + (Flag(c \in SCrossing(g)') - Flag(c \in SCrossing(g)))
  BY <1>1, <1>4, SRecount
<1>8. Cardinality(SInStreet') = Cardinality(SInStreet) + (Flag(c \in SInStreet') - Flag(c \in SInStreet))
  BY <1>1, <1>4, SRecount
<1>9. \A h \in TS!Directions : /\ s_active[h] = Cardinality(SActive(h))
                              /\ s_numWaiting[h] = Cardinality(SWaiting(h))
                              /\ s_inStreet[h] = Cardinality(SCrossing(h))
  BY DEF SInv, SCounts
<1>10. ASSUME NEW h \in TS!Directions
       PROVE  /\ s_active'[h] = Cardinality(SActive(h)')
              /\ s_numWaiting'[h] = Cardinality(SWaiting(h)')
              /\ s_inStreet'[h] = Cardinality(SCrossing(h)')
  <2>1. CASE h = g
    BY <1>1, <1>2, <1>5, <1>6, <1>7, <1>9, <2>1 DEF SFollow, g, Flag
  <2>2. CASE h # g
    BY <1>3, <1>9, <2>2 DEF SFollow, g
  <2> QED  BY <2>1, <2>2
<1>11. /\ s_active' = [h \in TS!Directions |-> Cardinality(SActive(h)')]
       /\ s_numWaiting' = [h \in TS!Directions |-> Cardinality(SWaiting(h)')]
       /\ s_inStreet' = [h \in TS!Directions |-> Cardinality(SCrossing(h)')]
  BY <1>10 DEF SFollow
<1>12. s_count' = Cardinality(SInStreet')
  BY <1>2, <1>8 DEF SFollow, SInv, SCounts, Flag
<1>13. s_count' = s_inStreet'["east"] + s_inStreet'["west"]
  <2>1. s_inStreet["east"] \in Nat /\ s_inStreet["west"] \in Nat /\ "east" \in TS!Directions /\ "west" \in TS!Directions
    BY <1>9, SDirections, SCarsInStreet
  <2>2. s_count = s_inStreet["east"] + s_inStreet["west"]
    BY DEF SInv, SCounts
  <2>3. g = "east" \/ g = "west"
    BY <1>1, SDirections
  <2> DEFINE k == Flag(s_pc'[c] = "crossing") - Flag(s_pc[c] = "crossing")
  <2>4. /\ k \in Int /\ s_count' = s_count + k /\ s_inStreet'[g] = s_inStreet[g] + k
        /\ \A h \in TS!Directions : h # g => s_inStreet'[h] = s_inStreet[h]
    BY DEF SFollow, Flag, g
  <2> HIDE DEF k
  <2> QED  BY <2>1, <2>2, <2>3, <2>4
<1> QED  BY <1>11, <1>12, <1>13 DEF SCounts

LEMMA SCounters ==
    ASSUME SInv
    PROVE  /\ s_active \in [TS!Directions -> Nat] /\ s_numWaiting \in [TS!Directions -> Nat]
           /\ s_inStreet \in [TS!Directions -> Nat] /\ s_count \in Nat
BY SCarsInStreet DEF SInv, SCounts

LEMMA SEnterStreet == ASSUME SInv, NEW c \in Cars, TS!enterStreet(c)  PROVE SInv'
<1> DEFINE g == s_dir[c]
           turns == s_count = 0 /\ g # s_direction /\ s_active[g] # 0
           d == IF turns THEN g ELSE s_direction
           enters == g = d /\ s_inStreet[g] < MaxOccupancy
           n == IF g = s_direction
                THEN IF s_count < MaxOccupancy THEN MaxOccupancy - s_count ELSE 0
                ELSE IF turns THEN MaxOccupancy ELSE 0
           l == IF enters THEN "crossing" ELSE "wait"
<1>1. /\ s_pc[c] = "away" /\ s_trips[c] < CrossingsSem /\ s_direction' = d
      /\ TS!Signals(g, n, c, l)
      /\ IF enters THEN TS!Counted(g) /\ UNCHANGED s_numWaiting
         ELSE s_numWaiting' = [s_numWaiting EXCEPT ![g] = @ + 1] /\ UNCHANGED <<s_count, s_inStreet>>
      /\ UNCHANGED <<s_active, s_dir, s_trips>>
  BY DEF TS!enterStreet
<1>2. g \in TS!Directions /\ d \in TS!Directions
  BY DEF SInv, STypes
<1>3. n \in Nat
  BY CarsAssumption, SCounters
<1> HIDE DEF n, d
<1>4. /\ SLines'
      /\ s_value' \in [TS!Directions -> Int]
      /\ s_queue' \in [TS!Directions -> Seq(Cars)]
      /\ s_pc' \in [Cars -> {"start", "away", "wait", "queued", "passed", "crossing", "done"}]
      /\ s_pc'[c] = l
      /\ \A e \in Cars : e # c => s_pc'[e] = s_pc[e] \/ (s_pc[e] = "queued" /\ s_pc'[e] = "passed")
  <2>1. l \in {"wait", "crossing", "away"} /\ s_pc[c] # "queued"
    BY <1>1
  <2> HIDE DEF l
  <2> QED  BY <1>1, <1>2, <1>3, <2>1, SSignals
<1>5. STypes'
  BY <1>1, <1>2, <1>4 DEF SInv, STypes
<1>6. SRounds'
  BY <1>1, <1>4 DEF SInv, SRounds, SWaits, STypes
<1>7. l \notin {"start", "done"} /\ (l \in SWaits <=> ~enters) /\ (l = "crossing" <=> enters)
  BY DEF SWaits
<1>8. SFollow(c)
  <2>1. /\ Flag(s_pc[c] \in SWaits) = 0 /\ Flag(s_pc[c] = "crossing") = 0
        /\ Flag(s_pc[c] \notin {"start", "done"}) = 1 /\ Flag(s_pc'[c] \notin {"start", "done"}) = 1
    BY <1>1, <1>4, <1>7 DEF Flag, SWaits
  <2>2. CASE enters
    <3>1. /\ Flag(s_pc'[c] \in SWaits) = 0 /\ Flag(s_pc'[c] = "crossing") = 1
          /\ s_count' = s_count + 1 /\ s_inStreet' = [s_inStreet EXCEPT ![g] = @ + 1]
          /\ s_numWaiting' = s_numWaiting /\ s_active' = s_active
      BY <1>1, <1>4, <1>7, <2>2 DEF Flag, SWaits, TS!Counted
    <3> QED  BY <1>2, <2>1, <3>1, SCounters DEF SFollow
  <2>3. CASE ~enters
    <3>1. /\ Flag(s_pc'[c] \in SWaits) = 1 /\ Flag(s_pc'[c] = "crossing") = 0
          /\ s_count' = s_count /\ s_inStreet' = s_inStreet
          /\ s_numWaiting' = [s_numWaiting EXCEPT ![g] = @ + 1] /\ s_active' = s_active
      BY <1>1, <1>4, <1>7, <2>3 DEF Flag, SWaits
    <3> QED  BY <1>2, <2>1, <3>1, SCounters DEF SFollow
  <2> QED  BY <2>2, <2>3
<1>9. SCounts'
  BY <1>1, <1>4, <1>8, SCounted
<1> QED  BY <1>4, <1>5, <1>6, <1>9 DEF SInv

LEMMA SLeave == ASSUME SInv, NEW c \in Cars, TS!leaveStreet(c)  PROVE SInv'
<1> DEFINE turns == s_count = 1 /\ s_active[TS!oppositeEnd(s_direction)] # 0
           g == IF turns THEN TS!oppositeEnd(s_direction) ELSE s_direction
           n == IF turns THEN MaxOccupancy
                ELSE IF s_count - 1 < MaxOccupancy /\ s_active[g] # 0 THEN 1 ELSE 0
           e == s_dir[c]
<1>1. /\ s_pc[c] = "crossing" /\ s_count' = s_count - 1
      /\ s_inStreet' = [s_inStreet EXCEPT ![e] = @ - 1]
      /\ s_direction' = g
      /\ TS!Signals(g, n, c, "away")
      /\ s_trips' = [s_trips EXCEPT ![c] = @ + 1]
      /\ UNCHANGED <<s_numWaiting, s_active, s_dir>>
  BY DEF TS!leaveStreet
<1>2. g \in TS!Directions /\ e \in TS!Directions /\ n \in Nat
  BY CarsAssumption, SDirections DEF SInv, STypes
<1> HIDE DEF n, g
<1>3. /\ SLines'
      /\ s_value' \in [TS!Directions -> Int]
      /\ s_queue' \in [TS!Directions -> Seq(Cars)]
      /\ s_pc' \in [Cars -> {"start", "away", "wait", "queued", "passed", "crossing", "done"}]
      /\ s_pc'[c] = "away"
      /\ \A f \in Cars : f # c => s_pc'[f] = s_pc[f] \/ (s_pc[f] = "queued" /\ s_pc'[f] = "passed")
  BY <1>1, <1>2, SSignals
<1>4. s_trips[c] \in Nat /\ s_trips[c] < CrossingsSem
  BY <1>1 DEF SInv, SRounds, STypes
<1>5. STypes'
  <2>1. s_trips[c] + 1 \in 0..CrossingsSem
    BY <1>4, CarsAssumption
  <2>2. s_trips' \in [Cars -> 0..CrossingsSem]
    BY <1>1, <2>1 DEF SInv, STypes
  <2> QED  BY <1>1, <1>2, <1>3, <2>2 DEF SInv, STypes
<1>6. SRounds'
  BY <1>1, <1>3 DEF SInv, SRounds, SWaits, STypes
<1>7. SFollow(c)
  <2>1. /\ Flag(s_pc'[c] \notin {"start", "done"}) = 1 /\ Flag(s_pc[c] \notin {"start", "done"}) = 1
        /\ Flag(s_pc'[c] \in SWaits) = 0 /\ Flag(s_pc[c] \in SWaits) = 0
        /\ Flag(s_pc'[c] = "crossing") = 0 /\ Flag(s_pc[c] = "crossing") = 1
    BY <1>1, <1>3 DEF Flag, SWaits
  <2>2. /\ s_inStreet' \in [TS!Directions -> Int] /\ s_inStreet'[e] = s_inStreet[e] - 1
        /\ \A h \in TS!Directions : h # e => s_inStreet'[h] = s_inStreet[h]
    BY <1>1, <1>2, SCounters
  <2>3. s_count' = s_count - 1
    BY <1>1
  <2> QED  BY <1>1, <1>2, <2>1, <2>2, <2>3, SCounters DEF SFollow
<1>8. SCounts'
  BY <1>1, <1>3, <1>7, SCounted
<1> QED  BY <1>3, <1>5, <1>6, <1>8 DEF SInv

\* A thread that goes on takes a permit, or waits at the end of the line.
LEMMA SWait == ASSUME SInv, NEW c \in Cars, TS!Wait(c)  PROVE SInv'
<1> DEFINE g == s_dir[c]
<1>1. /\ s_pc[c] = "wait" /\ s_value' = [s_value EXCEPT ![g] = @ - 1]
      /\ IF s_value'[g] < 0
         THEN s_queue' = [s_queue EXCEPT ![g] = Append(@, c)] /\ s_pc' = [s_pc EXCEPT ![c] = "queued"]
         ELSE s_queue' = s_queue /\ s_pc' = [s_pc EXCEPT ![c] = "passed"]
      /\ UNCHANGED <<s_direction, s_count, s_inStreet, s_numWaiting, s_active, s_dir, s_trips>>
  BY DEF TS!Wait, TS!Goto, TS!counts
<1>2. /\ g \in TS!Directions /\ s_value[g] \in Int /\ s_value'[g] = s_value[g] - 1
      /\ s_value' \in [TS!Directions -> Int]
  BY <1>1 DEF SInv, STypes
<1>3. s_pc'[c] \in {"queued", "passed"} /\ \A d \in Cars : d # c => s_pc'[d] = s_pc[d]
  BY <1>1 DEF SInv, STypes
<1>4. \A h \in TS!Directions :
         /\ Line(s_queue[h], Cars) /\ Elems(s_queue[h]) \subseteq Cars /\ Len(s_queue[h]) \in Nat
         /\ c \notin Elems(s_queue[h])
         /\ Len(s_queue[h]) = IF s_value[h] < 0 THEN -s_value[h] ELSE 0
         /\ \A d \in Elems(s_queue[h]) : s_pc[d] = "queued" /\ s_dir[d] = h
  BY <1>1, LineFacts DEF SInv, SLines
<1>5. s_queue' \in [TS!Directions -> Seq(Cars)]
  <2>1. Append(s_queue[g], c) \in Seq(Cars)
    BY <1>2, JoinLine, <1>4 DEF Line
  <2> QED  BY <1>1, <2>1 DEF SInv, STypes
<1>6. STypes'
  BY <1>1, <1>2, <1>5 DEF SInv, STypes
<1>7. SLines'
  <2> SUFFICES ASSUME NEW h \in TS!Directions
               PROVE  /\ Line(s_queue'[h], Cars)
                      /\ \A d \in Elems(s_queue'[h]) : s_pc'[d] = "queued" /\ s_dir'[d] = h
                      /\ Len(s_queue'[h]) = IF s_value'[h] < 0 THEN -s_value'[h] ELSE 0
    BY DEF SLines
  <2>1. CASE h # g
    <3>1. s_queue'[h] = s_queue[h] /\ s_value'[h] = s_value[h]
      BY <1>1, <2>1 DEF SInv, STypes
    <3>2. \A d \in Elems(s_queue[h]) : s_pc'[d] = "queued" /\ s_dir'[d] = h
      BY <1>1, <1>3, <1>4
    <3> QED  BY <1>4, <3>1, <3>2
  <2>2. CASE h = g /\ s_value'[g] < 0
    <3>1. s_queue'[h] = Append(s_queue[g], c) /\ s_pc'[c] = "queued"
      BY <1>1, <2>2 DEF SInv, STypes
    <3>2. Line(s_queue'[h], Cars) /\ Elems(s_queue'[h]) = Elems(s_queue[g]) \cup {c}
      BY <1>4, <2>2, <3>1, JoinLine
    <3>3. Len(s_queue'[h]) = Len(s_queue[g]) + 1
      BY <1>4, <2>2, <3>1, AppendProperties DEF Line
    <3>4. Len(s_queue[g]) + 1 = -s_value'[g]
      BY <1>2, <1>4, <2>2
    <3>5. \A d \in Elems(s_queue'[h]) : s_pc'[d] = "queued" /\ s_dir'[d] = h
      BY <1>1, <1>3, <1>4, <2>2, <3>1, <3>2
    <3> QED  BY <2>2, <3>2, <3>3, <3>4, <3>5
  <2>3. CASE h = g /\ ~(s_value'[g] < 0)
    <3>1. s_queue'[h] = s_queue[h]
      BY <1>1, <2>3
    <3>2. \A d \in Elems(s_queue[h]) : s_pc'[d] = "queued" /\ s_dir'[d] = h
      BY <1>1, <1>3, <1>4
    <3>3. Len(s_queue[h]) = 0
      BY <1>2, <1>4, <2>3
    <3> QED  BY <1>4, <2>3, <3>1, <3>2, <3>3
  <2> QED  BY <2>1, <2>2, <2>3
<1>8. SRounds'
  BY <1>1, <1>3 DEF SInv, SRounds, SWaits
<1>9. SFollow(c)
  BY <1>1, <1>2, <1>3, SCounters DEF SFollow, Flag, SWaits
<1>10. SCounts'
  BY <1>1, <1>3, <1>9, SCounted
<1> QED  BY <1>6, <1>7, <1>8, <1>10 DEF SInv

LEMMA SEnter == ASSUME SInv, NEW c \in Cars, TS!Enter(c)  PROVE SInv'
<1> DEFINE g == s_dir[c]
<1>1. /\ s_pc[c] = "passed" /\ s_count' = s_count + 1 /\ s_inStreet' = [s_inStreet EXCEPT ![g] = @ + 1]
      /\ s_numWaiting' = [s_numWaiting EXCEPT ![g] = @ - 1]
      /\ s_pc' = [s_pc EXCEPT ![c] = "crossing"]
      /\ UNCHANGED <<s_direction, s_active, s_value, s_queue, s_dir, s_trips>>
  BY DEF TS!Enter, TS!Counted, TS!Goto, TS!sems
<1>2. g \in TS!Directions /\ s_pc'[c] = "crossing" /\ \A d \in Cars : d # c => s_pc'[d] = s_pc[d]
  BY <1>1 DEF SInv, STypes
<1>3. STypes'
  BY <1>1 DEF SInv, STypes
<1>4. SLines'
  BY <1>1, <1>2, LineFacts DEF SInv, SLines
<1>5. SRounds'
  BY <1>1, <1>2 DEF SInv, SRounds, SWaits
<1>6. SFollow(c)
  BY <1>1, <1>2, SCounters DEF SFollow, Flag, SWaits
<1>7. SCounts'
  BY <1>1, <1>2, <1>6, SCounted
<1> QED  BY <1>3, <1>4, <1>5, <1>7 DEF SInv

LEMMA SFinish == ASSUME SInv, NEW c \in Cars, TS!Finish(c)  PROVE SInv'
<1> DEFINE g == s_dir[c]
<1>1. /\ s_pc[c] = "away" /\ s_active' = [s_active EXCEPT ![g] = @ - 1]
      /\ s_pc' = [s_pc EXCEPT ![c] = "done"]
      /\ UNCHANGED <<s_direction, s_count, s_inStreet, s_numWaiting, s_value, s_queue, s_dir, s_trips>>
  BY DEF TS!Finish, TS!Goto, TS!sems
<1>2. g \in TS!Directions /\ s_pc'[c] = "done" /\ \A d \in Cars : d # c => s_pc'[d] = s_pc[d]
  BY <1>1 DEF SInv, STypes
<1>3. STypes'
  BY <1>1 DEF SInv, STypes
<1>4. SLines'
  BY <1>1, <1>2, LineFacts DEF SInv, SLines
<1>5. SRounds'
  BY <1>1, <1>2 DEF SInv, SRounds, SWaits
<1>6. SFollow(c)
  BY <1>1, <1>2, SCounters DEF SFollow, Flag, SWaits
<1>7. SCounts'
  BY <1>1, <1>2, <1>6, SCounted
<1> QED  BY <1>3, <1>4, <1>5, <1>7 DEF SInv

LEMMA SStep == ASSUME SInv, TS!Next \/ UNCHANGED TSvars  PROVE SInv'
<1>1. CASE UNCHANGED TSvars
  BY <1>1 DEF TSvars, SInv, STypes, SLines, SCounts, SRounds, SActive, SWaiting, SCrossing, SInStreet
<1>2. ASSUME NEW c \in Cars, TS!Car(c)  PROVE SInv'
  BY <1>2, SStart, SEnterStreet, SWait, SEnter, SLeave, SFinish DEF TS!Car
<1> QED  BY <1>1, <1>2 DEF TS!Next

-----------------------------------------------------------------------------
(* q3.c                                                                    *)

RCounted == {t \in Meeting : r_pc[t] # "a"}

RInv ==
    /\ r_waiters \in Seq(Meeting)
    /\ r_pc \in [Meeting -> {"a", "waits", "woken", "b"}]
    /\ r_count = Cardinality(RCounted)
    /\ \A t \in Meeting : r_pc[t] = "b" => r_count = Cardinality(Meeting)

LEMMA RCounts ==
    /\ Cardinality(Meeting) \in Nat
    /\ r_count = Cardinality(RCounted) => r_count \in 0..Cardinality(Meeting)
    /\ r_count = Cardinality(RCounted) /\ r_count = Cardinality(Meeting) => RCounted = Meeting
<1>1. IsFiniteSet(Meeting) /\ RCounted \subseteq Meeting
  BY MeetingAssumption DEF RCounted
<1>2. IsFiniteSet(RCounted) /\ Cardinality(RCounted) <= Cardinality(Meeting)
      /\ (Cardinality(RCounted) = Cardinality(Meeting) => RCounted = Meeting)
  BY <1>1, FS_Subset
<1>3. Cardinality(Meeting) \in Nat /\ Cardinality(RCounted) \in Nat
  BY <1>1, <1>2, FS_CardinalityType
<1> QED  BY <1>2, <1>3

LEMMA RInit == Rv!Init => RInv
<1> SUFFICES ASSUME Rv!Init  PROVE RInv
  OBVIOUS
<1>1. RCounted = {}
  BY DEF Rv!Init, RCounted
<1> QED  BY <1>1, FS_EmptySet, EmptySeq DEF Rv!Init, RInv

\* t is counted among the n threads that have come.
LEMMA RWaitOrGo ==
    ASSUME RInv, NEW t \in Meeting, NEW n \in Nat, Rv!WaitOrGo(t, n), r_count' = n,
           n = Cardinality(RCounted \cup {t}), n <= Cardinality(Meeting), n >= r_count
    PROVE  RInv'
<1>1. Rv!NUM_THREADS = Cardinality(Meeting)
  BY SameCardinality DEF Rv!NUM_THREADS
<1>2. r_waiters' \in Seq(Meeting)
  <2>1. Append(r_waiters, t) \in Seq(Meeting) /\ <<>> \in Seq(Meeting)
    BY EmptySeq, AppendProperties DEF RInv
  <2> QED  BY <2>1 DEF Rv!WaitOrGo
<1>3. /\ r_pc' \in [Meeting -> {"a", "waits", "woken", "b"}]
      /\ r_pc'[t] # "a"
      /\ \A u \in Meeting : u # t => (r_pc'[u] = "a" => r_pc[u] = "a")
  BY DEF RInv, Rv!WaitOrGo
<1>4. CASE n < Cardinality(Meeting)
  <2>1. r_pc' = [r_pc EXCEPT ![t] = "waits"]
    BY <1>1, <1>4 DEF Rv!WaitOrGo
  <2>2. RCounted' = RCounted \cup {t}
    BY <2>1 DEF RCounted, RInv
  <2>3. \A u \in Meeting : r_pc'[u] # "b"
    BY <1>4, <2>1, RCounts DEF RInv
  <2> QED  BY <1>2, <1>3, <2>2, <2>3 DEF RInv
<1>5. CASE ~(n < Cardinality(Meeting))
  <2>1. n = Cardinality(Meeting)
    BY <1>5, RCounts
  <2>2. RCounted \cup {t} = Meeting
    <3>1. RCounted \cup {t} \subseteq Meeting
      BY DEF RCounted
    <3> QED  BY <2>1, <3>1, MeetingAssumption, FS_Subset
  <2>3. RCounted' = Meeting
    BY <1>3, <2>2, <1>1, <1>5 DEF RCounted, Rv!WaitOrGo, RInv
  <2> QED  BY <1>2, <1>3, <2>1, <2>3 DEF RInv
<1> QED  BY <1>4, <1>5

LEMMA RStep == ASSUME RInv, Rv!Next \/ UNCHANGED Rvvars  PROVE RInv'
<1>1. CASE UNCHANGED Rvvars
  BY <1>1 DEF Rvvars, RInv, RCounted
<1>2. ASSUME NEW t \in Meeting, Rv!Arrive(t)  PROVE RInv'
  <2>1. r_pc[t] = "a" /\ r_count' = r_count + 1 /\ Rv!WaitOrGo(t, r_count + 1)
    BY <1>2 DEF Rv!Arrive
  <2>2. r_count \in Nat /\ t \notin RCounted /\ RCounted \cup {t} \subseteq Meeting
    BY <2>1, RCounts DEF RInv, RCounted
  <2>3. Cardinality(RCounted \cup {t}) = r_count + 1
    BY <2>2, MeetingAssumption, CountChange DEF RInv
  <2>4. r_count + 1 <= Cardinality(Meeting)
    BY <2>2, <2>3, MeetingAssumption, FS_Subset
  <2> DEFINE n == r_count + 1
  <2>5. /\ n \in Nat /\ Rv!WaitOrGo(t, n) /\ r_count' = n /\ n = Cardinality(RCounted \cup {t})
        /\ n <= Cardinality(Meeting) /\ n >= r_count
    BY <2>1, <2>2, <2>3, <2>4
  <2> HIDE DEF n
  <2> QED  BY <2>5, RWaitOrGo
<1>3. ASSUME NEW t \in Meeting, Rv!Retest(t)  PROVE RInv'
  <2>1. r_pc[t] = "woken" /\ r_count' = r_count /\ Rv!WaitOrGo(t, r_count)
    BY <1>3 DEF Rv!Retest
  <2>2. RCounted \cup {t} = RCounted
    BY <2>1 DEF RCounted
  <2> QED  BY <2>1, <2>2, RCounts, RWaitOrGo DEF RInv
<1> QED  BY <1>1, <1>2, <1>3 DEF Rv!Next, Rv!Step

LEMMA RNobodyLeavesEarly == RInv => Rv!NobodyLeavesEarly
BY RCounts DEF RInv, Rv!NobodyLeavesEarly, RCounted

-----------------------------------------------------------------------------
(* q1.c, q2.c, q4.c and ping_pong_sem.c                                    *)

\* The first n words.
Words(n) == [k \in 1..n |-> k - 1]

\* n words have been printed: by the threads that are done.
Printed(n) ==
    /\ h_printed = Words(n)
    /\ \A t \in 0..3 : h_pc[t] = "done" <=> t < n

HPlaces == {"starts", "done", "waits", "woken", "reads", "writes", "unlocks"}

HTypes ==
    /\ h_version \in Ha!Versions
    /\ h_pc \in [0..3 -> HPlaces]
    /\ h_waiters \in [{1, 2} -> Seq(0..2)]
    /\ h_canGo \in [{1, 2} -> {0, 1}]
    /\ h_mx \in 0..2 \cup {-1}
    /\ h_cnt \in Int
    /\ h_local \in [0..2 -> Int]
    /\ h_go \in [{0, 1} -> Nat]
    /\ h_i \in [0..2 -> Nat]

\* q1.c and q4.c: a thread may print when the one before it has, and only it
\* waits for its turn.
HTurns ==
    /\ h_version \in {"q1", "q4"} => \E n \in 0..4 : Printed(n)
    /\ h_version \notin {"q1", "q4"} => h_printed = <<>>
    /\ h_version = "q4" => \A t \in {1, 2} : /\ h_canGo[t] # 0 <=> h_pc[t - 1] = "done"
                                             /\ h_waiters[t] \in Seq({t})

\* What cnt is when the thread with the mutex has counted k times.
CountedTo(k) == IF k <= CountTo THEN k ELSE 2 * CountTo - k

\* q2.c: cnt is where its loop puts it, and zero without the mutex.
HCount ==
    IF h_version = "q2"
    THEN /\ h_mx = -1 => h_cnt = 0
         /\ \A t \in 0..2 :
               /\ h_pc[t] \in {"starts", "reads", "writes", "unlocks", "done"}
               /\ h_pc[t] \in {"reads", "writes", "unlocks"} => h_mx = t /\ h_cnt = CountedTo(h_i[t])
               /\ h_pc[t] \in {"reads", "writes"} => h_i[t] < 2 * CountTo
               /\ h_pc[t] = "writes" => h_local[t] = h_cnt
               /\ h_pc[t] = "unlocks" => h_i[t] = 2 * CountTo
               /\ h_pc[t] = "starts" => h_i[t] = 0
    ELSE h_mx = -1 /\ h_cnt = 0

\* ping_pong_sem.c: a permit is a signal of the other one that was not waited for.
HPermits ==
    h_version = "ping_pong_sem" =>
        \A t \in {0, 1} : h_go[1 - t] = (h_i[t] + (IF h_pc[t] = "waits" THEN 1 ELSE 0)) - h_i[1 - t]

HInv == HTypes /\ HTurns /\ HCount /\ HPermits

LEMMA HInit == Ha!Init => HInv
<1> SUFFICES ASSUME Ha!Init  PROVE HInv
  OBVIOUS
<1> USE DEF Ha!Init, Ha!Versions, Ha!Nobody, Ha!Players
<1>1. HTypes
  BY EmptySeq DEF HTypes, HPlaces
<1>2. HTurns
  <2>1. h_printed = Words(0)
    BY DEF Words
  <2>2. Printed(0)
    BY <2>1 DEF Printed
  <2>3. \A t \in {1, 2} : h_canGo[t] = 0 /\ h_pc[t - 1] = "starts" /\ h_waiters[t] = <<>>
    OBVIOUS
  <2> QED  BY <2>2, <2>3, EmptySeq DEF HTurns
<1>3. HCount
  BY DEF HCount
<1>4. HPermits
  BY DEF HPermits
<1> QED  BY <1>1, <1>2, <1>3, <1>4 DEF HInv

\* Thread n prints after n words.
LEMMA NextWord ==
    ASSUME NEW n \in 0..3, Printed(n), HTypes, h_printed' = Append(h_printed, n),
           h_pc'[n] = "done", \A t \in 0..3 : t # n => (h_pc'[t] = "done" <=> h_pc[t] = "done")
    PROVE  Printed(n + 1)' /\ n + 1 \in 0..4
<1>1. h_printed' = Words(n + 1)
  <2>1. Words(n) \in Seq(Int) /\ Len(Words(n)) = n
    BY DEF Words
  <2>2. /\ Append(Words(n), n) \in Seq(Int) /\ Len(Append(Words(n), n)) = n + 1
        /\ Append(Words(n), n)[n + 1] = n /\ \A k \in 1..n : Append(Words(n), n)[k] = k - 1
    BY <2>1, AppendProperties DEF Words
  <2> DEFINE more == Append(Words(n), n)
  <2>3. more \in Seq(Int) /\ Len(more) = n + 1 /\ \A k \in 1..(n + 1) : more[k] = k - 1
    BY <2>2
  <2> HIDE DEF more
  <2>4. more = [k \in 1..(n + 1) |-> k - 1]
    BY <2>3
  <2>5. h_printed' = more
    BY DEF more, Printed
  <2> QED  BY <2>4, <2>5 DEF Words
<1>2. \A t \in 0..3 : h_pc'[t] = "done" <=> t < n + 1
  BY DEF Printed
<1> QED  BY <1>1, <1>2 DEF Printed

\* Who may print is the one whose turn it is.
LEMMA HTurn ==
    ASSUME HInv, h_version \in {"q1", "q4"}, NEW t \in 0..3, h_pc[t] # "done",
           t \in {1, 2} => h_pc[t - 1] = "done", t = 3 => \A u \in 0..2 : h_pc[u] = "done"
    PROVE  Printed(t)
<1>1. PICK n \in 0..4 : Printed(n)
  BY DEF HInv, HTurns
<1>2. n <= t
  BY <1>1 DEF Printed
<1>3. CASE t = 0
  BY <1>1, <1>2, <1>3
<1>4. CASE t \in {1, 2}
  <2>1. t - 1 \in 0..3 /\ h_pc[t - 1] = "done"
    BY <1>4
  <2>2. t - 1 < n
    BY <1>1, <2>1 DEF Printed
  <2>3. t = n
    BY <1>2, <1>4, <2>2
  <2> QED  BY <1>1, <2>3
<1>5. CASE t = 3
  <2>1. 2 < n
    BY <1>1, <1>5 DEF Printed
  <2> QED  BY <1>1, <1>2, <1>5, <2>1
<1> QED  BY <1>3, <1>4, <1>5

LEMMA HPrints == ASSUME HInv, NEW t \in 0..2, Ha!Prints(t)  PROVE HInv'
<1>1. /\ h_version = "q1" /\ h_pc[t] = "starts" /\ (t > 0 => h_pc[t - 1] = "done")
      /\ h_printed' = Append(h_printed, t) /\ h_pc' = [h_pc EXCEPT ![t] = "done"]
      /\ UNCHANGED <<h_version, h_canGo, h_waiters, h_cnt, h_mx, h_local, h_go, h_i>>
  BY DEF Ha!Prints, Ha!To
<1>2. Printed(t)
  BY <1>1, HTurn
<1>3. HTypes'
  BY <1>1 DEF HInv, HTypes, HPlaces
<1>4. Printed(t + 1)' /\ t + 1 \in 0..4
  BY <1>1, <1>2, NextWord DEF HInv, HTypes
<1> QED  BY <1>1, <1>3, <1>4 DEF HInv, HTurns, HCount, HPermits

LEMMA HMainPrints == ASSUME HInv, Ha!MainPrints  PROVE HInv'
<1>1. /\ h_version \in {"q1", "q4"} /\ h_pc[3] = "starts" /\ \A t \in 0..2 : h_pc[t] = "done"
      /\ h_printed' = Append(h_printed, 3) /\ h_pc' = [h_pc EXCEPT ![3] = "done"]
      /\ UNCHANGED <<h_version, h_canGo, h_waiters, h_cnt, h_mx, h_local, h_go, h_i>>
  BY DEF Ha!MainPrints, Ha!To
<1>2. Printed(3)
  BY <1>1, HTurn
<1>3. HTypes'
  BY <1>1 DEF HInv, HTypes, HPlaces
<1>4. Printed(3 + 1)' /\ 3 + 1 \in 0..4
  BY <1>1, <1>2, NextWord DEF HInv, HTypes
<1>5. \A t \in {1, 2} : h_pc'[t - 1] = h_pc[t - 1]
  BY <1>1 DEF HInv, HTypes
<1> QED  BY <1>1, <1>3, <1>4, <1>5 DEF HInv, HTurns, HCount, HPermits

LEMMA HTakesTurn == ASSUME HInv, NEW t \in 0..2, Ha!TakesTurn(t)  PROVE HInv'
<1>1. /\ h_version = "q4" /\ h_pc[t] \in {"starts", "woken"}
      /\ UNCHANGED <<h_version, h_cnt, h_mx, h_local, h_go, h_i>>
  BY DEF Ha!TakesTurn
<1>2. \A u \in {1, 2} : (h_canGo[u] # 0 <=> h_pc[u - 1] = "done") /\ h_waiters[u] \in Seq({u})
  BY <1>1 DEF HInv, HTurns
<1>3. h_pc \in [0..3 -> HPlaces] /\ h_waiters \in [{1, 2} -> Seq(0..2)] /\ h_canGo \in [{1, 2} -> {0, 1}]
  BY DEF HInv, HTypes
<1>4. CASE t > 0 /\ h_canGo[t] = 0
  <2>1. /\ h_waiters' = [h_waiters EXCEPT ![t] = Append(@, t)] /\ h_pc' = [h_pc EXCEPT ![t] = "waits"]
        /\ UNCHANGED <<h_printed, h_canGo>>
    BY <1>4 DEF Ha!TakesTurn, Ha!To
  <2>2. Append(h_waiters[t], t) \in Seq({t}) /\ Append(h_waiters[t], t) \in Seq(0..2)
    BY <1>2, <1>3, <1>4, AppendProperties
  <2>3. \A u \in 0..3 : h_pc'[u] = "done" <=> h_pc[u] = "done"
    BY <1>1, <1>3, <2>1
  <2>4. h_waiters' \in [{1, 2} -> Seq(0..2)] /\ \A u \in {1, 2} : h_waiters'[u] \in Seq({u})
    BY <1>2, <1>3, <1>4, <2>1, <2>2
  <2>5. HTypes'
    BY <1>1, <1>3, <2>1, <2>4 DEF HInv, HTypes, HPlaces
  <2>6. HTurns'
    <3>1. PICK n \in 0..4 : Printed(n)
      BY <1>1 DEF HInv, HTurns
    <3>2. Printed(n)'
      BY <2>1, <2>3, <3>1 DEF Printed
    <3>3. \A u \in {1, 2} : h_canGo'[u] # 0 <=> h_pc'[u - 1] = "done"
      BY <1>2, <2>1, <2>3
    <3> QED  BY <1>1, <2>4, <3>2, <3>3 DEF HTurns
  <2> QED  BY <1>1, <2>5, <2>6 DEF HInv, HCount, HPermits
<1>5. CASE ~(t > 0 /\ h_canGo[t] = 0)
  <2>1. t \in {1, 2} => h_pc[t - 1] = "done"
    BY <1>2, <1>5
  <2>2. Printed(t)
    BY <1>1, <2>1, HTurn
  <2>3. /\ h_printed' = Append(h_printed, t)
        /\ IF t = 2 THEN h_pc' = [h_pc EXCEPT ![t] = "done"] /\ UNCHANGED <<h_canGo, h_waiters>>
           ELSE /\ h_canGo' = [h_canGo EXCEPT ![t + 1] = 1]
                /\ h_waiters' = [h_waiters EXCEPT ![t + 1] = LeftAfter(@, 1)]
                /\ h_pc' = [u \in DOMAIN h_pc |-> IF u = t THEN "done"
                                                  ELSE IF u \in Signalled(h_waiters[t + 1], 1) THEN "woken" ELSE h_pc[u]]
    BY <1>5, SameWaiting DEF Ha!TakesTurn, Ha!To
  <2>4. t # 2 => Signalled(h_waiters[t + 1], 1) \subseteq {t + 1}
    <3> HAVE t # 2
    <3>1. h_waiters[t + 1] \in Seq({t + 1})
      BY <1>2
    <3> DEFINE q == h_waiters[t + 1]
    <3>2. Len(q) \in Nat /\ \A k \in 1..Len(q) : q[k] = t + 1
      BY <3>1
    <3> HIDE DEF q
    <3>3. \A k \in 1..Least(1, Len(q)) : k \in 1..Len(q)
      BY <3>2 DEF Least
    <3> QED  BY <3>2, <3>3 DEF Signalled, q
  <2>5. t # 2 => LeftAfter(h_waiters[t + 1], 1) \in Seq({t + 1}) /\ LeftAfter(h_waiters[t + 1], 1) \in Seq(0..2)
    <3> HAVE t # 2
    <3> DEFINE q == h_waiters[t + 1]
    <3>1. q \in Seq({t + 1}) /\ Len(q) \in Nat
      BY <1>2
    <3>2. \A k \in (1 + 1)..Len(q) : q[k] = t + 1
      BY <3>1
    <3> HIDE DEF q
    <3>3. LeftAfter(q, 1) \in Seq({t + 1}) /\ LeftAfter(q, 1) \in Seq(0..2)
      BY <3>1, <3>2, SubSeqProperties DEF LeftAfter
    <3> QED  BY <3>3 DEF q
  <2>6. /\ h_pc' \in [0..3 -> HPlaces] /\ h_pc'[t] = "done"
        /\ \A u \in 0..3 : u # t => (h_pc'[u] = "done" <=> h_pc[u] = "done")
    <3>1. \A u \in 0..3 : u > t => h_pc[u] # "done"
      BY <2>2 DEF Printed
    <3>2. CASE t = 2
      BY <1>3, <2>3, <3>2 DEF HPlaces
    <3>3. CASE t # 2
      <4>1. \A u \in 0..3 : u \in Signalled(h_waiters[t + 1], 1) => h_pc[u] # "done"
        BY <2>4, <3>1, <3>3
      <4> QED  BY <1>3, <2>3, <3>3, <4>1 DEF HPlaces
    <3> QED  BY <3>2, <3>3
  <2>7. h_canGo' \in [{1, 2} -> {0, 1}] /\ h_waiters' \in [{1, 2} -> Seq(0..2)]
    BY <1>3, <2>3, <2>5
  <2>8. Printed(t + 1)' /\ t + 1 \in 0..4
    BY <2>2, <2>3, <2>6, NextWord DEF HInv
  <2>9. \A u \in {1, 2} : (h_canGo'[u] # 0 <=> h_pc'[u - 1] = "done") /\ h_waiters'[u] \in Seq({u})
    <3> SUFFICES ASSUME NEW u \in {1, 2}
                 PROVE  (h_canGo'[u] # 0 <=> h_pc'[u - 1] = "done") /\ h_waiters'[u] \in Seq({u})
      OBVIOUS
    <3>1. CASE u = t + 1
      BY <1>3, <2>3, <2>5, <2>6, <3>1
    <3>2. CASE u # t + 1
      <4>1. h_canGo'[u] = h_canGo[u] /\ h_waiters'[u] = h_waiters[u]
        BY <1>3, <2>3, <3>2
      <4>2. u - 1 \in 0..3 /\ u - 1 # t
        BY <3>2
      <4> QED  BY <1>2, <2>6, <4>1, <4>2
    <3> QED  BY <3>1, <3>2
  <2>10. HTypes'
    BY <1>1, <2>6, <2>7 DEF HInv, HTypes
  <2> QED  BY <1>1, <2>8, <2>9, <2>10 DEF HInv, HTurns, HCount, HPermits
<1> QED  BY <1>4, <1>5

\* q2.c.
LEMMA HCounts ==
    ASSUME HInv, NEW t \in 0..2, Ha!Lock(t) \/ Ha!Reads(t) \/ Ha!Writes(t) \/ Ha!Unlock(t)  PROVE HInv'
<1> USE DEF Ha!To, Ha!Nobody
<1>1. h_version = "q2" /\ UNCHANGED <<h_version, h_printed, h_canGo, h_waiters, h_go>>
  BY DEF Ha!Lock, Ha!Reads, Ha!Writes, Ha!Unlock
<1>2. HTurns' /\ HPermits'
  BY <1>1 DEF HInv, HTurns, HPermits
<1>3. CASE Ha!Lock(t)
  <2>1. h_pc[t] = "starts" /\ h_mx = -1 /\ h_mx' = t /\ h_pc' = [h_pc EXCEPT ![t] = "reads"]
        /\ UNCHANGED <<h_cnt, h_local, h_i>>
    BY <1>3 DEF Ha!Lock
  <2>2. HTypes'
    BY <1>1, <2>1 DEF HInv, HTypes, HPlaces
  <2>3. HCount'
    BY <1>1, <2>1, HandoffsAssumption DEF HInv, HTypes, HCount, CountedTo
  <2> QED  BY <1>2, <2>2, <2>3 DEF HInv
<1>4. CASE Ha!Reads(t)
  <2>1. h_pc[t] = "reads" /\ h_local' = [h_local EXCEPT ![t] = h_cnt] /\ h_pc' = [h_pc EXCEPT ![t] = "writes"]
        /\ UNCHANGED <<h_cnt, h_mx, h_i>>
    BY <1>4 DEF Ha!Reads
  <2>2. HTypes'
    BY <1>1, <2>1 DEF HInv, HTypes, HPlaces
  <2>3. HCount'
    BY <1>1, <2>1 DEF HInv, HTypes, HCount
  <2> QED  BY <1>2, <2>2, <2>3 DEF HInv
<1>5. CASE Ha!Writes(t)
  <2>1. /\ h_pc[t] = "writes" /\ h_cnt' = h_local[t] + (IF h_i[t] < CountTo THEN 1 ELSE -1)
        /\ h_i' = [h_i EXCEPT ![t] = @ + 1]
        /\ h_pc' = [h_pc EXCEPT ![t] = IF h_i[t] + 1 < 2 * CountTo THEN "reads" ELSE "unlocks"]
        /\ UNCHANGED <<h_mx, h_local>>
    BY <1>5 DEF Ha!Writes
  <2>2. /\ h_mx = t /\ h_local[t] = CountedTo(h_i[t]) /\ h_i[t] \in Nat /\ h_i[t] < 2 * CountTo
        /\ h_local[t] \in Int
    BY <1>1, <2>1 DEF HInv, HTypes, HCount
  <2>3. h_cnt' = CountedTo(h_i[t] + 1) /\ h_i'[t] = h_i[t] + 1 /\ h_cnt' \in Int
    <3>1. h_i'[t] = h_i[t] + 1
      BY <2>1 DEF HInv, HTypes
    <3>2. CASE h_i[t] < CountTo
      <4>1. h_cnt' = h_local[t] + 1 /\ CountedTo(h_i[t]) = h_i[t] /\ CountedTo(h_i[t] + 1) = h_i[t] + 1
        BY <2>1, <2>2, <3>2, HandoffsAssumption DEF CountedTo
      <4> QED  BY <2>2, <3>1, <4>1
    <3>3. CASE ~(h_i[t] < CountTo)
      <4>1. h_cnt' = h_local[t] - 1
        BY <2>1, <2>2, <3>3
      <4>2. CountedTo(h_i[t]) = 2 * CountTo - h_i[t]
        BY <2>2, <3>3, HandoffsAssumption DEF CountedTo
      <4>3. CountedTo(h_i[t] + 1) = 2 * CountTo - (h_i[t] + 1)
        BY <2>2, <3>3, HandoffsAssumption DEF CountedTo
      <4> QED  BY <2>2, <3>1, <4>1, <4>2, <4>3, HandoffsAssumption
    <3> QED  BY <3>2, <3>3
  <2>4. HTypes'
    <3>1. h_i' \in [0..2 -> Nat]
      <4>1. h_i \in [0..2 -> Nat] /\ h_i[t] + 1 \in Nat
        BY <2>2 DEF HInv, HTypes
      <4> QED  BY <2>1, <4>1
    <3>2. h_pc' \in [0..3 -> HPlaces]
      <4>1. h_pc \in [0..3 -> HPlaces] /\ "reads" \in HPlaces /\ "unlocks" \in HPlaces
        BY DEF HInv, HTypes, HPlaces
      <4> QED  BY <2>1, <4>1
    <3> QED  BY <1>1, <2>1, <2>3, <3>1, <3>2 DEF HInv, HTypes
  <2>5. \A u \in 0..2 : u # t => h_pc'[u] = h_pc[u] /\ h_pc[u] \in {"starts", "done"} /\ h_i'[u] = h_i[u]
    <3>1. h_pc \in [0..3 -> HPlaces] /\ h_i \in [0..2 -> Nat]
      BY DEF HInv, HTypes
    <3>2. \A u \in 0..2 : u # t => h_pc[u] \in {"starts", "done"}
      BY <1>1, <2>2 DEF HInv, HCount
    <3>3. \A u \in 0..2 : u \in 0..3
      OBVIOUS
    <3> QED  BY <2>1, <3>1, <3>2, <3>3
  <2>6. h_mx' # -1 /\ h_mx' = t
    BY <2>1, <2>2
  <2>7. IF h_i[t] + 1 < 2 * CountTo THEN h_pc'[t] = "reads" ELSE h_pc'[t] = "unlocks" /\ h_i[t] + 1 = 2 * CountTo
    <3>1. h_pc'[t] = IF h_i[t] + 1 < 2 * CountTo THEN "reads" ELSE "unlocks"
      BY <2>1 DEF HInv, HTypes
    <3> QED  BY <2>2, <3>1, HandoffsAssumption
  <2>8. HCount'
    BY <1>1, <2>3, <2>5, <2>6, <2>7 DEF HInv, HCount
  <2> QED  BY <1>2, <2>4, <2>8 DEF HInv
<1>6. CASE Ha!Unlock(t)
  <2>1. h_pc[t] = "unlocks" /\ h_mx' = -1 /\ h_pc' = [h_pc EXCEPT ![t] = "done"]
        /\ UNCHANGED <<h_cnt, h_local, h_i>>
    BY <1>6 DEF Ha!Unlock
  <2>2. h_cnt = 0 /\ h_mx = t
    BY <1>1, <2>1, HandoffsAssumption DEF HInv, HCount, CountedTo
  <2>3. HTypes'
    BY <1>1, <2>1 DEF HInv, HTypes, HPlaces
  <2>4. \A u \in 0..2 : u # t => h_pc'[u] = h_pc[u] /\ h_pc[u] \in {"starts", "done"}
    BY <1>1, <2>1, <2>2 DEF HInv, HTypes, HCount
  <2>5. h_pc'[t] = "done"
    BY <2>1 DEF HInv, HTypes
  <2>6. HCount'
    BY <1>1, <2>1, <2>2, <2>4, <2>5 DEF HInv, HCount
  <2> QED  BY <1>2, <2>3, <2>6 DEF HInv
<1> QED  BY <1>3, <1>4, <1>5, <1>6

\* ping_pong_sem.c.
LEMMA HPingPong == ASSUME HInv, NEW t \in {0, 1}, Ha!Signals(t) \/ Ha!Waits(t)  PROVE HInv'
<1> USE DEF Ha!To
<1>1. h_version = "ping_pong_sem" /\ UNCHANGED <<h_version, h_printed, h_canGo, h_waiters, h_cnt, h_mx, h_local>>
  BY DEF Ha!Signals, Ha!Waits
<1>2. HTurns' /\ HCount'
  BY <1>1 DEF HInv, HTurns, HCount
<1>3. /\ h_pc \in [0..3 -> HPlaces] /\ h_go \in [{0, 1} -> Nat] /\ h_i \in [0..2 -> Nat]
      /\ \A u \in {0, 1} : h_go[1 - u] = (h_i[u] + (IF h_pc[u] = "waits" THEN 1 ELSE 0)) - h_i[1 - u]
  BY <1>1 DEF HInv, HTypes, HPermits
<1>4. CASE Ha!Signals(t)
  <2>1. /\ h_pc[t] = "starts" /\ h_go' = [h_go EXCEPT ![1 - t] = @ + 1]
        /\ h_pc' = [h_pc EXCEPT ![t] = "waits"] /\ h_i' = h_i
    BY <1>4 DEF Ha!Signals
  <2>2. h_go' \in [{0, 1} -> Nat] /\ h_pc' \in [0..3 -> HPlaces]
    BY <1>3, <2>1 DEF HPlaces
  <2>3. HTypes'
    BY <1>1, <2>1, <2>2 DEF HInv, HTypes
  <2>4. HPermits'
    BY <1>1, <1>3, <2>1 DEF HPermits
  <2> QED  BY <1>2, <2>3, <2>4 DEF HInv
<1>5. CASE Ha!Waits(t)
  <2>1. /\ h_pc[t] = "waits" /\ h_go[t] > 0 /\ h_go' = [h_go EXCEPT ![t] = @ - 1]
        /\ h_i' = [h_i EXCEPT ![t] = @ + 1]
        /\ h_pc' = [h_pc EXCEPT ![t] = IF h_i[t] + 1 < PingPongs THEN "starts" ELSE "done"]
    BY <1>5 DEF Ha!Waits
  <2>2. h_go' \in [{0, 1} -> Nat] /\ h_pc' \in [0..3 -> HPlaces] /\ h_i' \in [0..2 -> Nat]
    <3>1. h_go[t] - 1 \in Nat /\ h_i[t] + 1 \in Nat
      BY <1>3, <2>1
    <3> QED  BY <1>3, <2>1, <3>1 DEF HPlaces
  <2>3. HTypes'
    BY <1>1, <2>1, <2>2 DEF HInv, HTypes
  <2>4. HPermits'
    BY <1>1, <1>3, <2>1 DEF HPermits
  <2> QED  BY <1>2, <2>3, <2>4 DEF HInv
<1> QED  BY <1>4, <1>5

LEMMA HStep == ASSUME HInv, Ha!Next \/ UNCHANGED Havars  PROVE HInv'
<1>1. CASE UNCHANGED Havars
  BY <1>1 DEF Havars, HInv, HTypes, HTurns, Printed, HCount, HPermits, Ha!Threads
<1>2. ASSUME NEW t \in 0..2, Ha!Step(t)  PROVE HInv'
  BY <1>2, HPrints, HTakesTurn, HCounts, HPingPong DEF Ha!Step, Ha!Players
<1> QED  BY <1>1, <1>2, HMainPrints DEF Ha!Next

LEMMA HInOrder == HInv => Ha!InOrder /\ Ha!CountsBack
<1> SUFFICES ASSUME HInv  PROVE Ha!InOrder /\ Ha!CountsBack
  OBVIOUS
<1>1. h_printed = [k \in 1..Len(h_printed) |-> k - 1]
  <2>1. ASSUME NEW n \in 0..4, Printed(n)  PROVE h_printed = [k \in 1..Len(h_printed) |-> k - 1]
    <3>1. Words(n) \in Seq(Int) /\ Len(Words(n)) = n
      BY DEF Words
    <3> QED  BY <2>1, <3>1 DEF Printed, Words
  <2>2. CASE h_version \in {"q1", "q4"}
    BY <2>1, <2>2 DEF HInv, HTurns
  <2>3. CASE h_version \notin {"q1", "q4"}
    <3>1. h_printed = <<>> /\ Len(<<>>) = 0
      BY <2>3 DEF HInv, HTurns
    <3>2. <<>> = [k \in 1..0 |-> k - 1]
      OBVIOUS
    <3> QED  BY <3>1, <3>2
  <2> QED  BY <2>2, <2>3
<1>2. h_i[0] - h_i[1] \in -1..1 \/ h_version # "ping_pong_sem"
  <2> SUFFICES ASSUME h_version = "ping_pong_sem"  PROVE h_i[0] - h_i[1] \in -1..1
    OBVIOUS
  <2>1. h_go[0] \in Nat /\ h_go[1] \in Nat /\ h_i[0] \in Nat /\ h_i[1] \in Nat
    BY DEF HInv, HTypes
  <2>2. /\ h_go[1] = (h_i[0] + (IF h_pc[0] = "waits" THEN 1 ELSE 0)) - h_i[1]
        /\ h_go[0] = (h_i[1] + (IF h_pc[1] = "waits" THEN 1 ELSE 0)) - h_i[0]
    BY DEF HInv, HPermits
  <2> QED  BY <2>1, <2>2
<1>3. Ha!CountsBack
  BY DEF HInv, HCount, Ha!CountsBack, Ha!Nobody
<1> QED  BY <1>1, <1>2, <1>3 DEF Ha!InOrder

-----------------------------------------------------------------------------
(* smoke.c                                                                 *)

\* Threads and condition variables are all different.
LEMMA KThreads ==
    /\ Sm!Agent \in Sm!Threads
    /\ \A r \in Sm!Resource : Sm!HelperOf(r) \in Sm!Threads /\ Sm!SmokerOf(r) \in Sm!Threads
    /\ \A t \in Sm!Threads : \/ t = Sm!Agent
                             \/ \E r \in Sm!Resource : t = Sm!HelperOf(r) \/ t = Sm!SmokerOf(r)
    /\ \A r \in Sm!Resource : Sm!HelperOf(r) # Sm!Agent /\ Sm!SmokerOf(r) # Sm!Agent
    /\ \A r, q \in Sm!Resource : /\ Sm!HelperOf(r) # Sm!SmokerOf(q)
                                 /\ Sm!HelperOf(r) = Sm!HelperOf(q) => r = q
                                 /\ Sm!SmokerOf(r) = Sm!SmokerOf(q) => r = q
<1> USE DEF Sm!Threads, Sm!Agent, Sm!HelperOf, Sm!SmokerOf
<1>1. /\ Sm!Agent \in Sm!Threads
      /\ \A r \in Sm!Resource : Sm!HelperOf(r) \in Sm!Threads /\ Sm!SmokerOf(r) \in Sm!Threads
      /\ \A t \in Sm!Threads : \/ t = Sm!Agent
                               \/ \E r \in Sm!Resource : t = Sm!HelperOf(r) \/ t = Sm!SmokerOf(r)
  OBVIOUS
<1>2. ASSUME NEW r, NEW q
      PROVE  /\ <<"helper", r>> # <<"agent">> /\ <<"smoker", r>> # <<"agent">>
             /\ <<"helper", r>> # <<"smoker", q>>
             /\ <<"helper", r>> = <<"helper", q>> => r = q
             /\ <<"smoker", r>> = <<"smoker", q>> => r = q
  <2>1. /\ <<"helper", r>>[1] = "helper" /\ <<"smoker", r>>[1] = "smoker" /\ <<"agent">>[1] = "agent"
        /\ <<"helper", r>>[2] = r /\ <<"smoker", r>>[2] = r /\ <<"helper", q>>[2] = q /\ <<"smoker", q>>[2] = q
        /\ <<"smoker", q>>[1] = "smoker"
    OBVIOUS
  <2> QED  BY <2>1
<1> QED  BY <1>1, <1>2

LEMMA KConds ==
    /\ Sm!AgentSmoke \in Sm!Conds /\ Sm!HelperSmoke \in Sm!Conds /\ Sm!AgentSmoke # Sm!HelperSmoke
    /\ \A r \in Sm!Resource : /\ Sm!Res(r) \in Sm!Conds /\ Sm!PairOf(r) \in Sm!Conds
                              /\ Sm!Res(r) \notin {Sm!AgentSmoke, Sm!HelperSmoke}
                              /\ Sm!PairOf(r) \notin {Sm!AgentSmoke, Sm!HelperSmoke}
    /\ \A r, q \in Sm!Resource : /\ Sm!Res(r) # Sm!PairOf(q)
                                 /\ Sm!Res(r) = Sm!Res(q) => r = q
                                 /\ Sm!PairOf(r) = Sm!PairOf(q) => r = q
<1> USE DEF Sm!Conds, Sm!Res, Sm!PairOf, Sm!AgentSmoke, Sm!HelperSmoke
<1>1. /\ Sm!AgentSmoke \in Sm!Conds /\ Sm!HelperSmoke \in Sm!Conds
      /\ \A r \in Sm!Resource : Sm!Res(r) \in Sm!Conds /\ Sm!PairOf(r) \in Sm!Conds
  OBVIOUS
<1>2. ASSUME NEW r, NEW q
      PROVE  /\ <<"res", r>> \notin {<<"smoke">>, <<"helperSmoke">>}
             /\ <<"pair", r>> \notin {<<"smoke">>, <<"helperSmoke">>}
             /\ <<"smoke">> # <<"helperSmoke">>
             /\ <<"res", r>> # <<"pair", q>>
             /\ <<"res", r>> = <<"res", q>> => r = q
             /\ <<"pair", r>> = <<"pair", q>> => r = q
  <2>1. /\ <<"res", r>>[1] = "res" /\ <<"pair", r>>[1] = "pair" /\ <<"smoke">>[1] = "smoke"
        /\ <<"helperSmoke">>[1] = "helperSmoke" /\ <<"pair", q>>[1] = "pair"
        /\ <<"res", r>>[2] = r /\ <<"pair", r>>[2] = r /\ <<"res", q>>[2] = q /\ <<"pair", q>>[2] = q
    OBVIOUS
  <2> QED  BY <2>1
<1> QED  BY <1>1, <1>2

LEMMA KResources == IsFiniteSet(Sm!Resource) /\ Cardinality(Sm!Resource) = 3
<1>1. Sm!Resource = ({"match"} \cup {"paper"}) \cup {"tobacco"}
  BY DEF Sm!Resource
<1>2. IsFiniteSet({"match"}) /\ Cardinality({"match"}) = 1
  BY FS_Singleton
<1>3. IsFiniteSet({"match"} \cup {"paper"}) /\ Cardinality({"match"} \cup {"paper"}) = 2
  BY <1>2, FS_AddElement
<1> QED  BY <1>1, <1>3, FS_AddElement

\* A pair is all but the resource that it lacks.
LEMMA KPairs ==
    /\ \A pair \in Sm!Pairs : Sm!Smoker(pair) \in Sm!Resource /\ pair = Sm!Resource \ {Sm!Smoker(pair)}
    /\ \A r, o, m \in Sm!Resource : r # o /\ m \notin {r, o} => Sm!Smoker({r, o}) = m
<1>1. /\ \A r, o, m, x \in Sm!Resource : r # o /\ m \notin {r, o} /\ x \notin {r, o} => x = m
  BY DEF Sm!Resource
<1>2. ASSUME NEW r \in Sm!Resource, NEW o \in Sm!Resource, NEW m \in Sm!Resource, r # o, m \notin {r, o}
      PROVE  Sm!Smoker({r, o}) = m
  BY <1>1, <1>2 DEF Sm!Smoker
<1>3. ASSUME NEW pair \in Sm!Pairs
      PROVE  Sm!Smoker(pair) \in Sm!Resource /\ pair = Sm!Resource \ {Sm!Smoker(pair)}
  <2>1. pair \subseteq Sm!Resource /\ Cardinality(pair) = 2
    BY SameCardinality DEF Sm!Pairs
  <2>2. IsFiniteSet(Sm!Resource) /\ Cardinality(Sm!Resource) = 3
    BY KResources
  <2>3. pair # Sm!Resource
    BY <2>1, <2>2
  <2>4. Sm!Smoker(pair) \in Sm!Resource /\ Sm!Smoker(pair) \notin pair
    BY <2>1, <2>3 DEF Sm!Smoker
  <2> DEFINE rest == Sm!Resource \ {Sm!Smoker(pair)}
  <2>5. IsFiniteSet(rest) /\ Cardinality(rest) = 2
    BY <2>2, <2>4, FS_RemoveElement
  <2>6. pair \subseteq rest
    BY <2>1, <2>4
  <2>7. pair = rest
    BY <2>1, <2>5, <2>6, FS_Subset
  <2> QED  BY <2>4, <2>7
<1> QED  BY <1>2, <1>3

\* Where a thread waits that is at place.
KFits(t, c, place) ==
    \/ \E r \in Sm!Resource :
          \/ t = Sm!HelperOf(r) /\ c = Sm!Res(r) /\ place = "resource"
          \/ t = Sm!HelperOf(r) /\ c = Sm!HelperSmoke /\ place = "smoker"
          \/ t = Sm!SmokerOf(r) /\ c = Sm!PairOf(r) /\ place = "pair"
    \/ t = Sm!Agent /\ c = Sm!AgentSmoke /\ place \in {"ready", "smoke"}

KWaits(t, c) == t \notin k_woken /\ KFits(t, c, k_pc[t])

\* A line has one thread or none.
KQueues ==
    /\ \A c \in Sm!Conds, t \in Sm!Threads : KWaits(t, c) => k_waiters[c] = <<t>>
    /\ \A c \in Sm!Conds : (\A t \in Sm!Threads : ~KWaits(t, c)) => k_waiters[c] = <<>>

KTypes ==
    /\ k_waiters \in [Sm!Conds -> Seq(Sm!Threads)]
    /\ k_pc \in [Sm!Threads -> {"start", "ready", "resource", "pair", "smoker", "smoke", "done"}]
    /\ k_pc[Sm!Agent] \in {"start", "ready", "smoke", "done"}
    /\ \A r \in Sm!Resource : /\ k_pc[Sm!HelperOf(r)] \in {"start", "resource", "smoker"}
                              /\ k_pc[Sm!SmokerOf(r)] \in {"start", "pair"}
    /\ k_woken \subseteq Sm!Threads
    /\ \A t \in k_woken : k_pc[t] \notin {"start", "done"}
    /\ k_have \subseteq Sm!Resource
    /\ k_offered \in 0..Rounds
    /\ k_smoke_count \in [Sm!Resource -> Nat]
    /\ k_signal_count \in [Sm!Resource -> 0..k_offered]

KPresent == {r \in Sm!Resource : k_pc[Sm!SmokerOf(r)] = "pair"}

\* The agent does not offer before all smokers wait for their pairs.
KSmokers ==
    /\ k_num_active_threads = Cardinality(KPresent)
    /\ k_pc[Sm!Agent] \in {"smoke", "done"} => KPresent = Sm!Resource

\* Nothing is on offer.
KIdle ==
    /\ k_have = {} /\ k_woken \subseteq {Sm!Agent}
    /\ \A r \in Sm!Resource : k_pc[Sm!HelperOf(r)] # "smoker"
    /\ k_smoke_count = k_signal_count
    /\ k_pc[Sm!Agent] = "smoke" => Sm!Agent \in k_woken

\* The pair without m is on offer and its smoker has not smoked.
KOpen(m) == k_signal_count = [k_smoke_count EXCEPT ![m] = @ + 1]

\* At most one helper of the pair has noted its resource.
KNoting(m) ==
    /\ k_pc[Sm!Agent] = "smoke"
    /\ KOpen(m)
    /\ m \notin k_have /\ \A r, q \in k_have : r = q
    /\ \A t \in k_woken : \E r \in Sm!Resource : t = Sm!HelperOf(r) /\ r # m /\ r \notin k_have
    /\ \A r \in Sm!Resource : k_pc[Sm!HelperOf(r)] # "smoker"

\* One helper waits for the smoker.
KOneWaits(h) ==
    /\ k_pc[Sm!Agent] = "smoke"
    /\ \A r \in Sm!Resource : k_pc[Sm!HelperOf(r)] = "smoker" <=> r = h

KSmoking(m, h) == KOneWaits(h) /\ KOpen(m) /\ k_woken = {Sm!SmokerOf(m)}

KSmoked(h) == KOneWaits(h) /\ k_smoke_count = k_signal_count /\ k_woken = {Sm!HelperOf(h)}

\* A turn of the agent's loop: idle, the helpers note, one smokes, a helper resets.
KTurn ==
    \/ KIdle
    \/ \E m \in Sm!Resource : KNoting(m)
    \/ \E m, h \in Sm!Resource : KSmoking(m, h)
    \/ \E h \in Sm!Resource : KSmoked(h)

KInv == KTypes /\ KQueues /\ KSmokers /\ KTurn

\* A line of one thread or none before and after a signal.
LEMMA ShortLines ==
    ASSUME NEW u
    PROVE  /\ LeftAfter(<<>>, 0) = <<>> /\ LeftAfter(<<>>, 1) = <<>>
           /\ LeftAfter(<<u>>, 0) = <<u>> /\ LeftAfter(<<u>>, 1) = <<>>
           /\ Signalled(<<>>, 1) = {} /\ Signalled(<<u>>, 1) = {u}
           /\ Append(<<>>, u) = <<u>>
<1>1. /\ <<>> \in Seq({u}) /\ Len(<<>>) = 0
      /\ <<u>> \in Seq({u}) /\ Len(<<u>>) = 1 /\ <<u>>[1] = u
  OBVIOUS
<1>2. LeftAfter(<<>>, 0) = <<>> /\ LeftAfter(<<>>, 1) = <<>> /\ LeftAfter(<<u>>, 1) = <<>>
  BY <1>1 DEF LeftAfter
<1>3. LeftAfter(<<u>>, 0) = <<u>>
  <2> DEFINE q == <<u>>
             r == SubSeq(q, 1, 1)
  <2>1. \A i \in 1..1 : q[i] \in {u}
    OBVIOUS
  <2> HIDE DEF q
  <2>2. r \in Seq({u}) /\ Len(r) = 1 /\ r[1] = q[1]
    BY <2>1, SubSeqProperties
  <2> HIDE DEF r
  <2>3. q[1] = u
    BY DEF q
  <2>4. r = <<u>>
    BY <2>2, <2>3
  <2>5. LeftAfter(q, 0) = r
    BY <1>1 DEF LeftAfter, r, q
  <2> QED  BY <2>4, <2>5 DEF q
<1>4. Signalled(<<>>, 1) = {}
  BY <1>1 DEF Signalled, Least
<1>5. Signalled(<<u>>, 1) = {u}
  BY <1>1 DEF Signalled, Least
<1> QED  BY <1>2, <1>3, <1>4, <1>5

\* A thread waits in one line.
LEMMA KFitsOne ==
    ASSUME NEW t \in Sm!Threads, NEW c \in Sm!Conds, NEW d \in Sm!Conds, NEW place,
           KFits(t, c, place), KFits(t, d, place)
    PROVE  c = d
BY KThreads DEF KFits

\* t, which runs, signals and waits where nobody else does.
LEMMA KWaitAt ==
    ASSUME KTypes, KQueues, NEW t \in Sm!Threads, NEW signals \in SUBSET Sm!Conds, NEW cond \in Sm!Conds,
           NEW place \in {"ready", "resource", "pair", "smoker", "smoke"},
           Sm!WaitAt(t, signals, cond, place), KFits(t, cond, place), cond \notin signals,
           k_pc[t] = "start" \/ t \in k_woken, \A u \in Sm!Threads : ~KWaits(u, cond)
    PROVE  /\ KQueues'
           /\ k_woken' = (k_woken \ {t}) \cup {u \in Sm!Threads : \E c \in signals : KWaits(u, c)}
           /\ k_pc' = [k_pc EXCEPT ![t] = place]
           /\ k_waiters' \in [Sm!Conds -> Seq(Sm!Threads)]
           /\ \A u \in k_woken' : k_pc'[u] \notin {"start", "done"}
<1>1. /\ k_waiters' = [c \in Sm!Conds |->
             IF c = cond THEN Append(LeftAfter(k_waiters[c], IF c \in signals THEN 1 ELSE 0), t)
             ELSE LeftAfter(k_waiters[c], IF c \in signals THEN 1 ELSE 0)]
      /\ k_woken' = (k_woken \ {t}) \cup UNION {Signalled(k_waiters[c], 1) : c \in signals}
      /\ k_pc' = [k_pc EXCEPT ![t] = place]
  BY SameWaiting DEF Sm!WaitAt
<1>2. \A c \in Sm!Conds : \/ k_waiters[c] = <<>> /\ \A u \in Sm!Threads : ~KWaits(u, c)
                         \/ \E u \in Sm!Threads : k_waiters[c] = <<u>> /\ KWaits(u, c)
  BY DEF KQueues
<1>3. \A c \in Sm!Conds, u, v \in Sm!Threads : KWaits(u, c) /\ KWaits(v, c) => u = v
  <2> SUFFICES ASSUME NEW c \in Sm!Conds, NEW u \in Sm!Threads, NEW v \in Sm!Threads, KWaits(u, c), KWaits(v, c)
               PROVE  u = v
    OBVIOUS
  <2>1. <<u>> = <<v>>
    BY DEF KQueues
  <2>2. <<u>>[1] = u /\ <<v>>[1] = v
    OBVIOUS
  <2> QED  BY <2>1, <2>2
<1>4. \A c \in signals : Signalled(k_waiters[c], 1) = {u \in Sm!Threads : KWaits(u, c)}
  <2> SUFFICES ASSUME NEW c \in signals  PROVE Signalled(k_waiters[c], 1) = {u \in Sm!Threads : KWaits(u, c)}
    OBVIOUS
  <2>1. CASE k_waiters[c] = <<>> /\ \A u \in Sm!Threads : ~KWaits(u, c)
    BY <2>1, ShortLines
  <2>2. ASSUME NEW u \in Sm!Threads, k_waiters[c] = <<u>>, KWaits(u, c)
        PROVE  Signalled(k_waiters[c], 1) = {v \in Sm!Threads : KWaits(v, c)}
    <3>1. {v \in Sm!Threads : KWaits(v, c)} = {u}
      BY <1>3, <2>2
    <3> QED  BY <2>2, <3>1, ShortLines
  <2> QED  BY <1>2, <2>1, <2>2
<1>5. k_woken' = (k_woken \ {t}) \cup {u \in Sm!Threads : \E c \in signals : KWaits(u, c)}
  BY <1>1, <1>4
<1>6. \A c \in Sm!Conds : ~KWaits(t, c)
  BY KThreads DEF KWaits, KFits
<1>7. t \notin k_woken' /\ k_pc'[t] = place
  BY <1>1, <1>5, <1>6 DEF KTypes
<1>8. \A c \in Sm!Conds : KWaits(t, c)' <=> c = cond
  BY <1>7, KFitsOne DEF KWaits
<1>9. \A u \in Sm!Threads, c \in Sm!Conds : u # t => (KWaits(u, c)' <=> KWaits(u, c) /\ c \notin signals)
  <2> SUFFICES ASSUME NEW u \in Sm!Threads, NEW c \in Sm!Conds, u # t
               PROVE  KWaits(u, c)' <=> KWaits(u, c) /\ c \notin signals
    OBVIOUS
  <2>1. k_pc'[u] = k_pc[u]
    BY <1>1 DEF KTypes
  <2>2. \A d \in Sm!Conds : KWaits(u, c) /\ KWaits(u, d) => c = d
    BY KFitsOne DEF KWaits
  <2>3. u \in k_woken' <=> u \in k_woken \/ \E d \in signals : KWaits(u, d)
    BY <1>5
  <2>4. CASE KWaits(u, c)
    <3>1. u \notin k_woken /\ KFits(u, c, k_pc[u])
      BY <2>4 DEF KWaits
    <3>2. u \in k_woken' <=> c \in signals
      BY <2>2, <2>3, <2>4, <3>1
    <3>3. KWaits(u, c)' <=> u \notin k_woken' /\ KFits(u, c, k_pc'[u])
      BY DEF KWaits, KFits
    <3> QED  BY <2>1, <2>4, <3>1, <3>2, <3>3
  <2>5. CASE ~KWaits(u, c)
    <3>1. KWaits(u, c)' <=> u \notin k_woken' /\ KFits(u, c, k_pc'[u])
      BY DEF KWaits, KFits
    <3> QED  BY <2>1, <2>3, <2>5, <3>1 DEF KWaits
  <2> QED  BY <2>4, <2>5
<1>10. KQueues' /\ \A c \in Sm!Conds : k_waiters'[c] \in Seq(Sm!Threads)
  <2> SUFFICES ASSUME NEW c \in Sm!Conds
               PROVE  /\ \A u \in Sm!Threads : KWaits(u, c)' => k_waiters'[c] = <<u>>
                      /\ (\A u \in Sm!Threads : ~KWaits(u, c)') => k_waiters'[c] = <<>>
                      /\ k_waiters'[c] \in Seq(Sm!Threads)
    BY DEF KQueues
  <2>1. CASE c = cond
    <3>1. k_waiters[c] = <<>>
      BY <2>1 DEF KQueues
    <3>2. k_waiters'[c] = <<t>>
      BY <1>1, <2>1, <3>1, ShortLines
    <3>3. \A u \in Sm!Threads : KWaits(u, c)' => u = t
      BY <1>9, <2>1
    <3> QED  BY <1>8, <2>1, <3>2, <3>3
  <2>2. CASE c # cond /\ c \in signals
    <3>1. k_waiters'[c] = <<>>
      BY <1>1, <1>2, <2>2, ShortLines
    <3>2. \A u \in Sm!Threads : ~KWaits(u, c)'
      BY <1>8, <1>9, <2>2
    <3> QED  BY <3>1, <3>2
  <2>3. CASE c # cond /\ c \notin signals
    <3>1. k_waiters'[c] = k_waiters[c]
      BY <1>1, <1>2, <2>3, ShortLines
    <3>2. \A u \in Sm!Threads : KWaits(u, c)' <=> KWaits(u, c)
      BY <1>6, <1>8, <1>9, <2>3
    <3> QED  BY <3>1, <3>2 DEF KQueues, KTypes
  <2> QED  BY <2>1, <2>2, <2>3
<1>11. k_waiters' \in [Sm!Conds -> Seq(Sm!Threads)]
  BY <1>1, <1>10
<1>12. \A u \in k_woken' : k_pc'[u] \notin {"start", "done"}
  <2> SUFFICES ASSUME NEW u \in k_woken'  PROVE k_pc'[u] \notin {"start", "done"}
    OBVIOUS
  <2>1. u # t /\ u \in Sm!Threads
    BY <1>5, <1>7 DEF KTypes
  <2>2. k_pc'[u] = k_pc[u]
    BY <1>1, <2>1 DEF KTypes
  <2>3. CASE u \in k_woken
    BY <2>2, <2>3 DEF KTypes
  <2>4. ASSUME NEW c \in signals, KWaits(u, c)  PROVE k_pc[u] \notin {"start", "done"}
    BY <2>4 DEF KWaits, KFits
  <2> QED  BY <1>5, <2>1, <2>2, <2>3, <2>4
<1> QED  BY <1>1, <1>5, <1>10, <1>11, <1>12

\* What a thread that waits where it fits is signalled for.
LEMMA KWaiting ==
    ASSUME KTypes, NEW r \in Sm!Resource
    PROVE  /\ \A u \in Sm!Threads : KWaits(u, Sm!Res(r)) <=>
                 u = Sm!HelperOf(r) /\ u \notin k_woken /\ k_pc[u] = "resource"
           /\ \A u \in Sm!Threads : KWaits(u, Sm!PairOf(r)) <=>
                 u = Sm!SmokerOf(r) /\ u \notin k_woken /\ k_pc[u] = "pair"
           /\ \A u \in Sm!Threads : KWaits(u, Sm!HelperSmoke) <=>
                 u \notin k_woken /\ k_pc[u] = "smoker" /\ \E q \in Sm!Resource : u = Sm!HelperOf(q)
           /\ \A u \in Sm!Threads : KWaits(u, Sm!AgentSmoke) <=>
                 u = Sm!Agent /\ u \notin k_woken /\ k_pc[u] \in {"ready", "smoke"}
BY KThreads, KConds DEF KWaits, KFits

LEMMA KInit == Sm!Init => KInv
<1> SUFFICES ASSUME Sm!Init  PROVE KInv
  OBVIOUS
<1> USE DEF Sm!Init
<1>1. KTypes
  BY KThreads, EmptySeq, RoundsAssumption DEF KTypes
<1>2. KQueues
  BY DEF KQueues, KWaits, KFits
<1>3. KSmokers
  <2>1. KPresent = {}
    BY KThreads DEF KPresent
  <2> QED  BY <2>1, KThreads, FS_EmptySet DEF KSmokers
<1>4. KIdle
  BY KThreads DEF KIdle
<1> QED  BY <1>1, <1>2, <1>3, <1>4 DEF KInv, KTurn

\* What stays true of the smokers when none of them starts.
LEMMA KSmokersStay ==
    ASSUME KTypes, KSmokers, k_num_active_threads' = k_num_active_threads,
           \A r \in Sm!Resource : k_pc'[Sm!SmokerOf(r)] = k_pc[Sm!SmokerOf(r)],
           k_pc'[Sm!Agent] = k_pc[Sm!Agent] \/ k_pc'[Sm!Agent] \notin {"smoke", "done"} \/ KPresent = Sm!Resource
    PROVE  KSmokers'
<1>1. KPresent' = KPresent
  BY DEF KPresent
<1> QED  BY <1>1 DEF KSmokers

LEMMA KHelperStarts == ASSUME KInv, NEW r \in Sm!Resource, Sm!helperStarts(r)  PROVE KInv'
<1> DEFINE t == Sm!HelperOf(r)
<1>1. /\ k_pc[t] = "start" /\ Sm!WaitAt(t, {}, Sm!Res(r), "resource")
      /\ UNCHANGED <<k_have, k_num_active_threads, k_offered, k_signal_count, k_smoke_count>>
  BY DEF Sm!helperStarts, Sm!Runs
<1>2. t \in Sm!Threads /\ t \notin k_woken
  BY <1>1, KThreads DEF KInv, KTypes
<1>3. /\ KQueues' /\ k_woken' = k_woken /\ k_pc' = [k_pc EXCEPT ![t] = "resource"]
      /\ k_waiters' \in [Sm!Conds -> Seq(Sm!Threads)]
      /\ \A u \in k_woken' : k_pc'[u] \notin {"start", "done"}
  <2>1. \A u \in Sm!Threads : ~KWaits(u, Sm!Res(r))
    BY <1>1, KWaiting DEF KInv
  <2>2. KFits(t, Sm!Res(r), "resource") /\ Sm!Res(r) \in Sm!Conds
    BY KConds DEF KFits
  <2> DEFINE none == {}
  <2>3. none \in SUBSET Sm!Conds /\ Sm!WaitAt(t, none, Sm!Res(r), "resource")
    BY <1>1
  <2> HIDE DEF none, t
  <2>4. Sm!Res(r) \notin none
    BY DEF none
  <2>5. /\ KQueues' /\ k_woken' = (k_woken \ {t}) \cup {u \in Sm!Threads : \E c \in none : KWaits(u, c)}
        /\ k_pc' = [k_pc EXCEPT ![t] = "resource"]
        /\ k_waiters' \in [Sm!Conds -> Seq(Sm!Threads)]
        /\ \A u \in k_woken' : k_pc'[u] \notin {"start", "done"}
    BY <1>1, <1>2, <2>1, <2>2, <2>3, <2>4, KWaitAt DEF KInv
  <2> QED  BY <1>2, <2>5 DEF none
<1>4. k_pc'[t] = "resource" /\ \A u \in Sm!Threads : u # t => k_pc'[u] = k_pc[u]
  BY <1>2, <1>3 DEF KInv, KTypes
<1>5. KTypes'
  BY <1>1, <1>3, <1>4, KThreads DEF KInv, KTypes
<1>6. KSmokers'
  BY <1>1, <1>4, KThreads, KSmokersStay DEF KInv
<1>7. /\ k_pc'[Sm!Agent] = k_pc[Sm!Agent]
      /\ \A q \in Sm!Resource : k_pc'[Sm!HelperOf(q)] = "smoker" <=> k_pc[Sm!HelperOf(q)] = "smoker"
  BY <1>1, <1>4, KThreads
<1>8. KTurn'
  BY <1>1, <1>3, <1>7 DEF KInv, KTurn, KIdle, KNoting, KSmoking, KSmoked, KOneWaits, KOpen
<1> QED  BY <1>3, <1>5, <1>6, <1>8 DEF KInv

\* A helper that was signalled at its resource runs while the pair is noted.
LEMMA KWhoNotes ==
    ASSUME KInv, NEW r \in Sm!Resource, Sm!HelperOf(r) \in k_woken, k_pc[Sm!HelperOf(r)] = "resource"
    PROVE  \E m \in Sm!Resource : KNoting(m) /\ r # m /\ r \notin k_have
<1>1. ~KIdle
  BY KThreads DEF KIdle
<1>2. \A m, h \in Sm!Resource : ~KSmoking(m, h)
  BY KThreads DEF KSmoking
<1>3. \A h \in Sm!Resource : ~KSmoked(h)
  BY KThreads DEF KSmoked, KOneWaits
<1>4. PICK m \in Sm!Resource : KNoting(m)
  BY <1>1, <1>2, <1>3 DEF KInv, KTurn
<1>5. PICK q \in Sm!Resource : Sm!HelperOf(r) = Sm!HelperOf(q) /\ q # m /\ q \notin k_have
  BY <1>4 DEF KNoting
<1> QED  BY <1>4, <1>5, KThreads

\* The first helper of a pair waits for the next offer.
LEMMA KFirstNotes ==
    ASSUME KInv, NEW r \in Sm!Resource, Sm!helperNotes(r), k_have \ {r} = {}  PROVE KInv'
<1> DEFINE t == Sm!HelperOf(r)
<1>1. /\ k_pc[t] = "resource" /\ t \in k_woken /\ Sm!WaitAt(t, {}, Sm!Res(r), "resource")
      /\ k_have' = k_have \cup {r}
      /\ UNCHANGED <<k_num_active_threads, k_offered, k_signal_count, k_smoke_count>>
  BY DEF Sm!helperNotes, Sm!Runs
<1>2. t \in Sm!Threads
  BY KThreads
<1>3. PICK m \in Sm!Resource : KNoting(m) /\ r # m /\ r \notin k_have
  BY <1>1, KWhoNotes
<1>4. /\ KQueues' /\ k_woken' = k_woken \ {t} /\ k_pc' = [k_pc EXCEPT ![t] = "resource"]
      /\ k_waiters' \in [Sm!Conds -> Seq(Sm!Threads)]
      /\ \A u \in k_woken' : k_pc'[u] \notin {"start", "done"}
  <2>1. \A u \in Sm!Threads : ~KWaits(u, Sm!Res(r))
    BY <1>1, KWaiting DEF KInv
  <2>2. KFits(t, Sm!Res(r), "resource") /\ Sm!Res(r) \in Sm!Conds
    BY KConds DEF KFits
  <2> DEFINE none == {}
  <2>3. none \in SUBSET Sm!Conds /\ Sm!WaitAt(t, none, Sm!Res(r), "resource")
    BY <1>1
  <2> HIDE DEF none, t
  <2>4. Sm!Res(r) \notin none
    BY DEF none
  <2>5. /\ KQueues' /\ k_woken' = (k_woken \ {t}) \cup {u \in Sm!Threads : \E c \in none : KWaits(u, c)}
        /\ k_pc' = [k_pc EXCEPT ![t] = "resource"]
        /\ k_waiters' \in [Sm!Conds -> Seq(Sm!Threads)]
        /\ \A u \in k_woken' : k_pc'[u] \notin {"start", "done"}
    BY <1>1, <1>2, <2>1, <2>2, <2>3, <2>4, KWaitAt DEF KInv
  <2> QED  BY <1>2, <2>5 DEF none
<1>5. k_pc'[t] = "resource" /\ \A u \in Sm!Threads : u # t => k_pc'[u] = k_pc[u]
  BY <1>2, <1>4 DEF KInv, KTypes
<1>6. KTypes'
  BY <1>1, <1>4, <1>5, KThreads DEF KInv, KTypes
<1>7. KSmokers'
  BY <1>1, <1>5, KThreads, KSmokersStay DEF KInv
<1>8. /\ k_pc'[Sm!Agent] = k_pc[Sm!Agent] /\ k_have' = {r}
      /\ \A q \in Sm!Resource : k_pc'[Sm!HelperOf(q)] = "smoker" <=> k_pc[Sm!HelperOf(q)] = "smoker"
  BY <1>1, <1>3, <1>5, KThreads
<1>9. \A u \in k_woken' : \E q \in Sm!Resource : u = Sm!HelperOf(q) /\ q # m /\ q \notin k_have'
  <2> SUFFICES ASSUME NEW u \in k_woken'
               PROVE  \E q \in Sm!Resource : u = Sm!HelperOf(q) /\ q # m /\ q \notin k_have'
    OBVIOUS
  <2>1. u \in k_woken /\ u # t
    BY <1>4
  <2>2. PICK q \in Sm!Resource : u = Sm!HelperOf(q) /\ q # m /\ q \notin k_have
    BY <1>3, <2>1 DEF KNoting
  <2>3. q # r
    BY <2>1, <2>2
  <2> QED  BY <1>8, <2>2, <2>3
<1>10. KNoting(m)'
  BY <1>1, <1>3, <1>8, <1>9 DEF KNoting, KOpen
<1> QED  BY <1>4, <1>6, <1>7, <1>10 DEF KInv, KTurn

\* The second one signals the smoker and waits for it.
LEMMA KSecondNotes ==
    ASSUME KInv, NEW r \in Sm!Resource, Sm!helperNotes(r), k_have \ {r} # {}  PROVE KInv'
<1> DEFINE t == Sm!HelperOf(r)
<1>1. /\ k_pc[t] = "resource" /\ t \in k_woken
      /\ Sm!WaitAt(t, {Sm!PairOf(Sm!Smoker({r, Sm!Completes(r, k_have \ {r})}))}, Sm!HelperSmoke, "smoker")
      /\ k_have' = k_have \cup {r}
      /\ UNCHANGED <<k_num_active_threads, k_offered, k_signal_count, k_smoke_count>>
  BY DEF Sm!helperNotes, Sm!Runs
<1>2. t \in Sm!Threads
  BY KThreads
<1>3. PICK m \in Sm!Resource : KNoting(m) /\ r # m /\ r \notin k_have
  BY <1>1, KWhoNotes
<1>4. PICK o \in Sm!Resource : k_have = {o} /\ o # r /\ o # m
  BY <1>3 DEF KNoting, KInv, KTypes
<1>5. Sm!Completes(r, k_have \ {r}) = o
  <2>1. k_have \ {r} = {o}
    BY <1>4
  <2> QED  BY <2>1 DEF Sm!Completes
<1>6. Sm!Smoker({r, Sm!Completes(r, k_have \ {r})}) = m
  <2>1. Sm!Smoker({r, o}) = m
    BY <1>3, <1>4, KPairs
  <2> QED  BY <1>5, <2>1
<1> DEFINE s == Sm!SmokerOf(m)
<1>7. s \in Sm!Threads /\ s \notin k_woken /\ k_pc[s] = "pair" /\ s # t
  <2>1. s \notin k_woken
    BY <1>3, KThreads DEF KNoting
  <2>2. k_pc[s] = "pair"
    BY <1>3 DEF KNoting, KInv, KSmokers, KPresent
  <2> QED  BY <2>1, <2>2, KThreads
<1>8. /\ KQueues' /\ k_woken' = (k_woken \ {t}) \cup {s} /\ k_pc' = [k_pc EXCEPT ![t] = "smoker"]
      /\ k_waiters' \in [Sm!Conds -> Seq(Sm!Threads)]
      /\ \A u \in k_woken' : k_pc'[u] \notin {"start", "done"}
  <2>1. \A u \in Sm!Threads : ~KWaits(u, Sm!HelperSmoke)
    <3>1. \A u \in Sm!Threads : KWaits(u, Sm!HelperSmoke) <=>
             u \notin k_woken /\ k_pc[u] = "smoker" /\ \E q \in Sm!Resource : u = Sm!HelperOf(q)
      BY KWaiting DEF KInv
    <3> QED  BY <1>3, <3>1 DEF KNoting
  <2>2. KFits(t, Sm!HelperSmoke, "smoker") /\ Sm!HelperSmoke \in Sm!Conds
    BY KConds DEF KFits
  <2> DEFINE told == {Sm!PairOf(m)}
  <2>3. told \in SUBSET Sm!Conds /\ Sm!WaitAt(t, told, Sm!HelperSmoke, "smoker") /\ Sm!HelperSmoke \notin told
    BY <1>1, <1>6, KConds
  <2>4. {u \in Sm!Threads : \E c \in told : KWaits(u, c)} = {s}
    <3>1. \A u \in Sm!Threads : KWaits(u, Sm!PairOf(m)) <=>
             u = Sm!SmokerOf(m) /\ u \notin k_woken /\ k_pc[u] = "pair"
      BY KWaiting DEF KInv
    <3> QED  BY <1>7, <3>1
  <2> HIDE DEF told, t, s
  <2>5. /\ KQueues' /\ k_woken' = (k_woken \ {t}) \cup {u \in Sm!Threads : \E c \in told : KWaits(u, c)}
        /\ k_pc' = [k_pc EXCEPT ![t] = "smoker"]
        /\ k_waiters' \in [Sm!Conds -> Seq(Sm!Threads)]
        /\ \A u \in k_woken' : k_pc'[u] \notin {"start", "done"}
    BY <1>1, <1>2, <2>1, <2>2, <2>3, KWaitAt DEF KInv, t
  <2> QED  BY <2>4, <2>5
<1>9. k_pc'[t] = "smoker" /\ \A u \in Sm!Threads : u # t => k_pc'[u] = k_pc[u]
  BY <1>2, <1>8 DEF KInv, KTypes
<1>10. k_woken' = {s}
  <2> SUFFICES ASSUME NEW u \in k_woken, u # t  PROVE FALSE
    BY <1>8
  <2>1. PICK q \in Sm!Resource : u = Sm!HelperOf(q) /\ q # m /\ q \notin k_have
    BY <1>3 DEF KNoting
  <2>2. q = r
    BY <1>3, <1>4, <2>1 DEF Sm!Resource
  <2> QED  BY <2>1, <2>2
<1>11. KTypes'
  BY <1>1, <1>8, <1>9, <1>10, <1>7, KThreads DEF KInv, KTypes
<1>12. KSmokers'
  BY <1>1, <1>9, KThreads, KSmokersStay DEF KInv
<1>13. KSmoking(m, r)'
  <2>1. k_pc'[Sm!Agent] = "smoke"
    BY <1>3, <1>9, KThreads DEF KNoting
  <2>2. \A q \in Sm!Resource : k_pc'[Sm!HelperOf(q)] = "smoker" <=> q = r
    BY <1>3, <1>9, KThreads DEF KNoting
  <2>3. KOpen(m)'
    BY <1>1, <1>3 DEF KNoting, KOpen
  <2> QED  BY <1>10, <2>1, <2>2, <2>3 DEF KSmoking, KOneWaits
<1> QED  BY <1>8, <1>11, <1>12, <1>13 DEF KInv, KTurn

\* The helper that waited for the smoker ends the turn.
LEMMA KHelperResets == ASSUME KInv, NEW r \in Sm!Resource, Sm!helperResets(r)  PROVE KInv'
<1> DEFINE t == Sm!HelperOf(r)
<1>1. /\ k_pc[t] = "smoker" /\ t \in k_woken /\ Sm!WaitAt(t, {Sm!AgentSmoke}, Sm!Res(r), "resource")
      /\ k_have' = {}
      /\ UNCHANGED <<k_num_active_threads, k_offered, k_signal_count, k_smoke_count>>
  BY DEF Sm!helperResets, Sm!Runs
<1>2. t \in Sm!Threads /\ t # Sm!Agent
  BY KThreads
<1>3. KSmoked(r)
  <2>1. ~KIdle
    BY <1>1 DEF KIdle
  <2>2. \A m \in Sm!Resource : ~KNoting(m)
    BY <1>1 DEF KNoting
  <2>3. \A m, h \in Sm!Resource : ~KSmoking(m, h)
    BY <1>1, KThreads DEF KSmoking
  <2>4. PICK h \in Sm!Resource : KSmoked(h)
    BY <2>1, <2>2, <2>3 DEF KInv, KTurn
  <2>5. h = r
    BY <1>1, <2>4 DEF KSmoked, KOneWaits
  <2> QED  BY <2>4, <2>5
<1>4. k_woken = {t} /\ k_pc[Sm!Agent] = "smoke"
  BY <1>3 DEF KSmoked, KOneWaits
<1>5. /\ KQueues' /\ k_woken' = {Sm!Agent} /\ k_pc' = [k_pc EXCEPT ![t] = "resource"]
      /\ k_waiters' \in [Sm!Conds -> Seq(Sm!Threads)]
      /\ \A u \in k_woken' : k_pc'[u] \notin {"start", "done"}
  <2>1. \A u \in Sm!Threads : ~KWaits(u, Sm!Res(r))
    BY <1>1, KWaiting DEF KInv
  <2>2. KFits(t, Sm!Res(r), "resource") /\ Sm!Res(r) \in Sm!Conds
    BY KConds DEF KFits
  <2> DEFINE told == {Sm!AgentSmoke}
  <2>3. told \in SUBSET Sm!Conds /\ Sm!WaitAt(t, told, Sm!Res(r), "resource") /\ Sm!Res(r) \notin told
    BY <1>1, KConds
  <2>4. {u \in Sm!Threads : \E c \in told : KWaits(u, c)} = {Sm!Agent}
    <3>1. \A u \in Sm!Threads : KWaits(u, Sm!AgentSmoke) <=>
             u = Sm!Agent /\ u \notin k_woken /\ k_pc[u] \in {"ready", "smoke"}
      BY KWaiting DEF KInv
    <3> QED  BY <1>2, <1>4, <3>1, KThreads
  <2> HIDE DEF told, t
  <2>5. /\ KQueues' /\ k_woken' = (k_woken \ {t}) \cup {u \in Sm!Threads : \E c \in told : KWaits(u, c)}
        /\ k_pc' = [k_pc EXCEPT ![t] = "resource"]
        /\ k_waiters' \in [Sm!Conds -> Seq(Sm!Threads)]
        /\ \A u \in k_woken' : k_pc'[u] \notin {"start", "done"}
    BY <1>1, <1>2, <2>1, <2>2, <2>3, KWaitAt DEF KInv, t
  <2> QED  BY <1>4, <2>4, <2>5
<1>6. k_pc'[t] = "resource" /\ \A u \in Sm!Threads : u # t => k_pc'[u] = k_pc[u]
  BY <1>2, <1>5 DEF KInv, KTypes
<1>7. KTypes'
  BY <1>1, <1>5, <1>6, KThreads DEF KInv, KTypes
<1>8. KSmokers'
  BY <1>1, <1>6, KThreads, KSmokersStay DEF KInv
<1>9. KIdle'
  <2>1. \A q \in Sm!Resource : k_pc'[Sm!HelperOf(q)] # "smoker"
    BY <1>3, <1>6, KThreads DEF KSmoked, KOneWaits
  <2> QED  BY <1>1, <1>3, <1>5, <2>1 DEF KIdle, KSmoked
<1> QED  BY <1>5, <1>7, <1>8, <1>9 DEF KInv, KTurn

\* A smoker that starts is counted, and the agent may look again.
LEMMA KSmokerStarts == ASSUME KInv, NEW r \in Sm!Resource, Sm!smokerStarts(r)  PROVE KInv'
<1> DEFINE t == Sm!SmokerOf(r)
<1>1. /\ k_pc[t] = "start" /\ Sm!WaitAt(t, {Sm!AgentSmoke}, Sm!PairOf(r), "pair")
      /\ k_num_active_threads' = k_num_active_threads + 1
      /\ UNCHANGED <<k_have, k_offered, k_signal_count, k_smoke_count>>
  BY DEF Sm!smokerStarts, Sm!Runs
<1>2. t \in Sm!Threads /\ t # Sm!Agent /\ t \notin k_woken
  BY <1>1, KThreads DEF KInv, KTypes
<1>3. k_pc[Sm!Agent] \notin {"smoke", "done"}
  BY <1>1 DEF KInv, KSmokers, KPresent
<1>4. KIdle
  BY <1>3 DEF KInv, KTurn, KNoting, KSmoking, KSmoked, KOneWaits
<1>5. /\ KQueues' /\ k_woken' \subseteq {Sm!Agent} /\ k_pc' = [k_pc EXCEPT ![t] = "pair"]
      /\ k_waiters' \in [Sm!Conds -> Seq(Sm!Threads)]
      /\ \A u \in k_woken' : k_pc'[u] \notin {"start", "done"}
  <2>1. \A u \in Sm!Threads : ~KWaits(u, Sm!PairOf(r))
    BY <1>1, KWaiting DEF KInv
  <2>2. KFits(t, Sm!PairOf(r), "pair") /\ Sm!PairOf(r) \in Sm!Conds
    BY KConds DEF KFits
  <2> DEFINE told == {Sm!AgentSmoke}
  <2>3. told \in SUBSET Sm!Conds /\ Sm!WaitAt(t, told, Sm!PairOf(r), "pair") /\ Sm!PairOf(r) \notin told
    BY <1>1, KConds
  <2>4. {u \in Sm!Threads : \E c \in told : KWaits(u, c)} \subseteq {Sm!Agent}
    <3>1. \A u \in Sm!Threads : KWaits(u, Sm!AgentSmoke) => u = Sm!Agent
      BY DEF KWaits, KFits, Sm!AgentSmoke, Sm!HelperSmoke, Sm!Res, Sm!PairOf
    <3> QED  BY <3>1
  <2> HIDE DEF told, t
  <2>5. /\ KQueues' /\ k_woken' = (k_woken \ {t}) \cup {u \in Sm!Threads : \E c \in told : KWaits(u, c)}
        /\ k_pc' = [k_pc EXCEPT ![t] = "pair"]
        /\ k_waiters' \in [Sm!Conds -> Seq(Sm!Threads)]
        /\ \A u \in k_woken' : k_pc'[u] \notin {"start", "done"}
    BY <1>1, <1>2, <2>1, <2>2, <2>3, KWaitAt DEF KInv, t
  <2> QED  BY <1>4, <2>4, <2>5 DEF KIdle
<1>6. k_pc'[t] = "pair" /\ \A u \in Sm!Threads : u # t => k_pc'[u] = k_pc[u]
  BY <1>2, <1>5 DEF KInv, KTypes
<1>7. KTypes'
  BY <1>1, <1>5, <1>6, KThreads DEF KInv, KTypes
<1>8. KSmokers'
  <2>1. r \notin KPresent /\ KPresent' = KPresent \cup {r} /\ KPresent \subseteq Sm!Resource
    BY <1>1, <1>6, KThreads DEF KPresent
  <2>2. Cardinality(KPresent \cup {r}) = Cardinality(KPresent) + 1
    BY <2>1, KResources, FS_Subset, FS_AddElement
  <2>3. k_pc'[Sm!Agent] = k_pc[Sm!Agent]
    BY <1>2, <1>6, KThreads
  <2> QED  BY <1>1, <1>3, <2>1, <2>2, <2>3 DEF KInv, KSmokers
<1>9. KIdle'
  BY <1>1, <1>3, <1>4, <1>5, <1>6, KThreads DEF KIdle
<1> QED  BY <1>5, <1>7, <1>8, <1>9 DEF KInv, KTurn

\* The smoker that was signalled is the one whose pair is on offer.
LEMMA KSmokes == ASSUME KInv, NEW r \in Sm!Resource, Sm!smokes(r)  PROVE KInv'
<1> DEFINE t == Sm!SmokerOf(r)
<1>1. /\ k_pc[t] = "pair" /\ t \in k_woken /\ Sm!WaitAt(t, {Sm!HelperSmoke}, Sm!PairOf(r), "pair")
      /\ k_smoke_count' = [k_smoke_count EXCEPT ![r] = @ + 1]
      /\ UNCHANGED <<k_have, k_num_active_threads, k_offered, k_signal_count>>
  BY DEF Sm!smokes, Sm!Runs
<1>2. t \in Sm!Threads /\ t # Sm!Agent
  BY KThreads
<1>3. PICK h \in Sm!Resource : KSmoking(r, h)
  <2>1. ~KIdle
    BY <1>1, <1>2 DEF KIdle
  <2>2. \A m \in Sm!Resource : ~KNoting(m)
    BY <1>1, KThreads DEF KNoting
  <2>3. \A h \in Sm!Resource : ~KSmoked(h)
    BY <1>1, KThreads DEF KSmoked
  <2>4. PICK m \in Sm!Resource, h \in Sm!Resource : KSmoking(m, h)
    BY <2>1, <2>2, <2>3 DEF KInv, KTurn
  <2>5. m = r
    BY <1>1, <2>4, KThreads DEF KSmoking
  <2> QED  BY <2>4, <2>5
<1> DEFINE s == Sm!HelperOf(h)
<1>4. s \in Sm!Threads /\ s # t /\ k_woken = {t} /\ k_pc[s] = "smoker"
  BY <1>3, KThreads DEF KSmoking, KOneWaits
<1>5. /\ KQueues' /\ k_woken' = {s} /\ k_pc' = [k_pc EXCEPT ![t] = "pair"]
      /\ k_waiters' \in [Sm!Conds -> Seq(Sm!Threads)]
      /\ \A u \in k_woken' : k_pc'[u] \notin {"start", "done"}
  <2>1. \A u \in Sm!Threads : ~KWaits(u, Sm!PairOf(r))
    BY <1>1, KWaiting DEF KInv
  <2>2. KFits(t, Sm!PairOf(r), "pair") /\ Sm!PairOf(r) \in Sm!Conds
    BY KConds DEF KFits
  <2> DEFINE told == {Sm!HelperSmoke}
  <2>3. told \in SUBSET Sm!Conds /\ Sm!WaitAt(t, told, Sm!PairOf(r), "pair") /\ Sm!PairOf(r) \notin told
    BY <1>1, KConds
  <2>4. {u \in Sm!Threads : \E c \in told : KWaits(u, c)} = {s}
    <3>1. \A u \in Sm!Threads : KWaits(u, Sm!HelperSmoke) <=>
             u \notin k_woken /\ k_pc[u] = "smoker" /\ \E q \in Sm!Resource : u = Sm!HelperOf(q)
      BY KWaiting DEF KInv
    <3>2. \A q \in Sm!Resource : k_pc[Sm!HelperOf(q)] = "smoker" => q = h
      BY <1>3 DEF KSmoking, KOneWaits
    <3> QED  BY <1>4, <3>1, <3>2
  <2> HIDE DEF told, t, s
  <2>5. /\ KQueues' /\ k_woken' = (k_woken \ {t}) \cup {u \in Sm!Threads : \E c \in told : KWaits(u, c)}
        /\ k_pc' = [k_pc EXCEPT ![t] = "pair"]
        /\ k_waiters' \in [Sm!Conds -> Seq(Sm!Threads)]
        /\ \A u \in k_woken' : k_pc'[u] \notin {"start", "done"}
    BY <1>1, <1>2, <2>1, <2>2, <2>3, KWaitAt DEF KInv, t
  <2> QED  BY <1>4, <2>4, <2>5
<1>6. \A u \in Sm!Threads : k_pc'[u] = k_pc[u]
  BY <1>1, <1>2, <1>5 DEF KInv, KTypes
<1>7. k_smoke_count' = k_signal_count'
  BY <1>1, <1>3 DEF KSmoking, KOpen
<1>8. KTypes'
  BY <1>1, <1>4, <1>5, <1>6, KThreads DEF KInv, KTypes
<1>9. KSmokers'
  BY <1>1, <1>6, KThreads, KSmokersStay DEF KInv
<1>10. KSmoked(h)'
  BY <1>3, <1>5, <1>6, <1>7, KThreads DEF KSmoking, KSmoked, KOneWaits
<1> QED  BY <1>5, <1>8, <1>9, <1>10 DEF KInv, KTurn

\* While the agent runs, nothing is on offer.
LEMMA KAgentIdle ==
    ASSUME KInv, k_pc[Sm!Agent] = "start" \/ k_pc[Sm!Agent] = "ready" \/ Sm!Agent \in k_woken
    PROVE  KIdle
<1>1. \A m \in Sm!Resource : ~KNoting(m)
  BY KThreads DEF KNoting
<1>2. \A m, h \in Sm!Resource : ~KSmoking(m, h)
  BY KThreads DEF KSmoking, KOneWaits
<1>3. \A h \in Sm!Resource : ~KSmoked(h)
  BY KThreads DEF KSmoked, KOneWaits
<1> QED  BY <1>1, <1>2, <1>3 DEF KInv, KTurn

LEMMA KAgentWaits == ASSUME KInv, Sm!agentWaits  PROVE KInv'
<1> DEFINE t == Sm!Agent
<1>1. /\ k_pc[t] = "start" \/ (k_pc[t] = "ready" /\ t \in k_woken)
      /\ Sm!WaitAt(t, {}, Sm!AgentSmoke, "ready")
      /\ UNCHANGED <<k_have, k_num_active_threads, k_offered, k_signal_count, k_smoke_count>>
  BY DEF Sm!agentWaits, Sm!Runs
<1>2. t \in Sm!Threads /\ (k_pc[t] = "start" \/ t \in k_woken)
  BY <1>1, KThreads
<1>3. KIdle
  BY <1>1, KAgentIdle
<1>4. /\ KQueues' /\ k_woken' = k_woken \ {t} /\ k_pc' = [k_pc EXCEPT ![t] = "ready"]
      /\ k_waiters' \in [Sm!Conds -> Seq(Sm!Threads)]
      /\ \A u \in k_woken' : k_pc'[u] \notin {"start", "done"}
  <2>1. \A u \in Sm!Threads : ~KWaits(u, Sm!AgentSmoke)
    BY <1>1, KThreads DEF KWaits, KFits, Sm!AgentSmoke, Sm!HelperSmoke, Sm!Res, Sm!PairOf
  <2>2. KFits(t, Sm!AgentSmoke, "ready") /\ Sm!AgentSmoke \in Sm!Conds
    BY KConds DEF KFits
  <2> DEFINE none == {}
  <2>3. none \in SUBSET Sm!Conds /\ Sm!WaitAt(t, none, Sm!AgentSmoke, "ready")
    BY <1>1
  <2> HIDE DEF none, t
  <2>4. Sm!AgentSmoke \notin none
    BY DEF none
  <2>5. /\ KQueues' /\ k_woken' = (k_woken \ {t}) \cup {u \in Sm!Threads : \E c \in none : KWaits(u, c)}
        /\ k_pc' = [k_pc EXCEPT ![t] = "ready"]
        /\ k_waiters' \in [Sm!Conds -> Seq(Sm!Threads)]
        /\ \A u \in k_woken' : k_pc'[u] \notin {"start", "done"}
    BY <1>1, <1>2, <2>1, <2>2, <2>3, <2>4, KWaitAt DEF KInv
  <2> QED  BY <1>2, <2>5 DEF none
<1>5. k_pc'[t] = "ready" /\ \A u \in Sm!Threads : u # t => k_pc'[u] = k_pc[u]
  BY <1>2, <1>4 DEF KInv, KTypes
<1>6. KTypes'
  BY <1>1, <1>4, <1>5, KThreads DEF KInv, KTypes
<1>7. KSmokers'
  BY <1>1, <1>5, KThreads, KSmokersStay DEF KInv
<1>8. KIdle'
  BY <1>1, <1>3, <1>4, <1>5, KThreads DEF KIdle
<1> QED  BY <1>4, <1>6, <1>7, <1>8 DEF KInv, KTurn

LEMMA KAgentOffers == ASSUME KInv, Sm!agentOffers  PROVE KInv'
<1> DEFINE t == Sm!Agent
<1>1. /\ \/ (k_pc[t] = "start" \/ (k_pc[t] = "ready" /\ t \in k_woken)) /\ k_num_active_threads = 3
         \/ k_pc[t] = "smoke" /\ t \in k_woken
      /\ k_offered < Rounds /\ k_offered' = k_offered + 1
      /\ UNCHANGED <<k_have, k_num_active_threads, k_smoke_count>>
  BY DEF Sm!agentOffers, Sm!Runs
<1>2. PICK pair \in Sm!Pairs : /\ k_signal_count' = [k_signal_count EXCEPT ![Sm!Smoker(pair)] = @ + 1]
                               /\ Sm!WaitAt(t, {Sm!Res(r) : r \in pair}, Sm!AgentSmoke, "smoke")
  BY DEF Sm!agentOffers
<1> DEFINE m == Sm!Smoker(pair)
           told == {Sm!Res(r) : r \in pair}
<1>3. m \in Sm!Resource /\ pair = Sm!Resource \ {m}
  BY KPairs
<1>4. KIdle
  BY <1>1, KAgentIdle
<1>5. t \in Sm!Threads /\ (k_pc[t] = "start" \/ t \in k_woken)
  BY <1>1, KThreads
<1>6. KPresent = Sm!Resource
  <2>1. KPresent \subseteq Sm!Resource /\ IsFiniteSet(Sm!Resource) /\ Cardinality(Sm!Resource) = 3
    BY KResources DEF KPresent
  <2>2. Cardinality(KPresent) = 3 => KPresent = Sm!Resource
    BY <2>1, FS_Subset
  <2> QED  BY <1>1, <2>2 DEF KInv, KSmokers
<1>7. /\ KQueues' /\ k_woken' = (k_woken \ {t}) \cup {u \in Sm!Threads : \E c \in told : KWaits(u, c)}
      /\ k_pc' = [k_pc EXCEPT ![t] = "smoke"]
      /\ k_waiters' \in [Sm!Conds -> Seq(Sm!Threads)]
      /\ \A u \in k_woken' : k_pc'[u] \notin {"start", "done"}
  <2>1. \A u \in Sm!Threads : ~KWaits(u, Sm!AgentSmoke)
    BY <1>5, KThreads DEF KWaits, KFits, Sm!AgentSmoke, Sm!HelperSmoke, Sm!Res, Sm!PairOf
  <2>2. KFits(t, Sm!AgentSmoke, "smoke") /\ Sm!AgentSmoke \in Sm!Conds
    BY KConds DEF KFits
  <2>3. told \in SUBSET Sm!Conds /\ Sm!WaitAt(t, told, Sm!AgentSmoke, "smoke") /\ Sm!AgentSmoke \notin told
    BY <1>2, <1>3, KConds
  <2> HIDE DEF told, t
  <2> QED  BY <1>5, <2>1, <2>2, <2>3, KWaitAt DEF KInv
<1>8. \A u \in k_woken' : \E r \in Sm!Resource : u = Sm!HelperOf(r) /\ r # m
  <2> SUFFICES ASSUME NEW u \in k_woken'  PROVE \E r \in Sm!Resource : u = Sm!HelperOf(r) /\ r # m
    OBVIOUS
  <2>1. u \in Sm!Threads /\ \E r \in pair : KWaits(u, Sm!Res(r))
    BY <1>4, <1>7 DEF KIdle
  <2>2. PICK r \in pair : KWaits(u, Sm!Res(r))
    BY <2>1
  <2>3. r \in Sm!Resource /\ r # m
    BY <1>3
  <2>4. u = Sm!HelperOf(r)
    BY <2>1, <2>2, <2>3, KWaiting DEF KInv
  <2> QED  BY <2>3, <2>4
<1>9. k_pc'[t] = "smoke" /\ \A u \in Sm!Threads : u # t => k_pc'[u] = k_pc[u]
  BY <1>5, <1>7 DEF KInv, KTypes
<1>10. k_signal_count' = [k_signal_count EXCEPT ![m] = @ + 1]
  BY <1>2
<1> HIDE DEF m, told
<1>11. k_woken' \subseteq Sm!Threads
  BY <1>7 DEF KInv, KTypes
<1>12. k_offered' \in 0..Rounds /\ k_signal_count' \in [Sm!Resource -> 0..k_offered']
  <2>1. k_offered \in Nat /\ k_signal_count \in [Sm!Resource -> 0..k_offered]
    BY DEF KInv, KTypes
  <2>2. k_offered' \in 0..Rounds /\ \A n \in 0..k_offered : n \in 0..k_offered' /\ n + 1 \in 0..k_offered'
    BY <1>1, <2>1, RoundsAssumption
  <2> QED  BY <1>3, <1>10, <2>1, <2>2
<1>13. KTypes'
  BY <1>1, <1>7, <1>9, <1>11, <1>12, KThreads DEF KInv, KTypes
<1>14. KSmokers'
  BY <1>1, <1>6, <1>9, KThreads, KSmokersStay DEF KInv
<1>15. KNoting(m)'
  <2>1. KOpen(m)'
    BY <1>1, <1>4, <1>10 DEF KOpen, KIdle
  <2>2. k_have' = {}
    BY <1>1, <1>4 DEF KIdle
  <2>3. \A r \in Sm!Resource : k_pc'[Sm!HelperOf(r)] # "smoker"
    BY <1>4, <1>9, KThreads DEF KIdle
  <2> QED  BY <1>8, <1>9, <2>1, <2>2, <2>3 DEF KNoting
<1> QED  BY <1>3, <1>7, <1>13, <1>14, <1>15 DEF KInv, KTurn

LEMMA KAgentReturns == ASSUME KInv, Sm!agentReturns  PROVE KInv'
<1> DEFINE t == Sm!Agent
<1>1. /\ k_pc[t] = "smoke" /\ t \in k_woken /\ k_pc' = [k_pc EXCEPT ![t] = "done"]
      /\ k_woken' = k_woken \ {t}
      /\ UNCHANGED <<k_waiters, k_have, k_num_active_threads, k_offered, k_signal_count, k_smoke_count>>
  BY DEF Sm!agentReturns, Sm!Runs
<1>2. KIdle
  BY <1>1, KAgentIdle
<1>3. k_pc'[t] = "done" /\ \A u \in Sm!Threads : u # t => k_pc'[u] = k_pc[u]
  BY <1>1, KThreads DEF KInv, KTypes
<1>4. \A u \in Sm!Threads, c \in Sm!Conds : KWaits(u, c)' <=> KWaits(u, c)
  <2> SUFFICES ASSUME NEW u \in Sm!Threads, NEW c \in Sm!Conds  PROVE KWaits(u, c)' <=> KWaits(u, c)
    OBVIOUS
  <2>1. KWaits(u, c)' <=> u \notin k_woken' /\ KFits(u, c, k_pc'[u])
    BY DEF KWaits, KFits
  <2>2. CASE u = t
    BY <1>1, <1>3, <2>1, <2>2, KThreads DEF KWaits, KFits
  <2>3. CASE u # t
    BY <1>1, <1>3, <2>1, <2>3 DEF KWaits
  <2> QED  BY <2>2, <2>3
<1>5. KQueues'
  BY <1>1, <1>4 DEF KInv, KQueues
<1>6. KTypes'
  BY <1>1, <1>3, KThreads DEF KInv, KTypes
<1>7. KSmokers'
  <2>1. KPresent = Sm!Resource
    BY <1>1 DEF KInv, KSmokers
  <2> QED  BY <1>1, <1>3, <2>1, KThreads, KSmokersStay DEF KInv
<1>8. KIdle'
  BY <1>1, <1>2, <1>3, KThreads DEF KIdle
<1> QED  BY <1>5, <1>6, <1>7, <1>8 DEF KInv, KTurn

LEMMA KStep == ASSUME KInv, Sm!Next \/ UNCHANGED Smvars  PROVE KInv'
<1>1. CASE UNCHANGED Smvars
  <2> USE <1>1 DEF Smvars
  <2>1. KTypes' /\ KSmokers'
    BY DEF KInv, KTypes, KSmokers, KPresent
  <2>2. \A u, c : KWaits(u, c)' <=> KWaits(u, c)
    BY DEF KWaits, KFits
  <2>3. KQueues'
    BY <2>2 DEF KInv, KQueues
  <2>4. KTurn'
    BY DEF KInv, KTurn, KIdle, KNoting, KOpen, KSmoking, KSmoked, KOneWaits
  <2> QED  BY <2>1, <2>3, <2>4 DEF KInv
<1>2. CASE Sm!AgentRuns
  BY <1>2, KAgentWaits, KAgentOffers, KAgentReturns DEF Sm!AgentRuns
<1>3. ASSUME NEW r \in Sm!Resource, Sm!HelperRuns(r)  PROVE KInv'
  BY <1>3, KHelperStarts, KFirstNotes, KSecondNotes, KHelperResets DEF Sm!HelperRuns
<1>4. ASSUME NEW r \in Sm!Resource, Sm!SmokerRuns(r)  PROVE KInv'
  BY <1>4, KSmokerStarts, KSmokes DEF Sm!SmokerRuns
<1> QED  BY <1>1, <1>2, <1>3, <1>4 DEF Sm!Next

LEMMA KSmokersMatchOffers == KInv => Sm!SmokersMatchOffers
<1> SUFFICES ASSUME KInv  PROVE Sm!SmokersMatchOffers
  OBVIOUS
<1> DEFINE owed == {r \in Sm!Resource : k_smoke_count[r] # k_signal_count[r]}
<1>1. k_smoke_count \in [Sm!Resource -> Nat] /\ k_signal_count \in [Sm!Resource -> 0..k_offered] /\ k_offered \in Nat
  BY DEF KInv, KTypes
<1>2. CASE k_smoke_count = k_signal_count
  <2>1. owed = {}
    BY <1>2
  <2>2. Sm!Cardinality(owed) = 0
    BY <2>1, SameCardinality, FS_EmptySet
  <2> QED  BY <1>1, <1>2, <2>2 DEF Sm!SmokersMatchOffers
<1>3. ASSUME NEW m \in Sm!Resource, KOpen(m), k_pc[Sm!Agent] = "smoke"  PROVE Sm!SmokersMatchOffers
  <2>1. \A r \in Sm!Resource : k_signal_count[r] = IF r = m THEN k_smoke_count[r] + 1 ELSE k_smoke_count[r]
    BY <1>1, <1>3 DEF KOpen
  <2>2. owed = {m}
    BY <1>1, <2>1
  <2>3. Sm!Cardinality(owed) = 1
    BY <2>2, SameCardinality, FS_Singleton
  <2>4. \A r \in Sm!Resource : k_smoke_count[r] \in {k_signal_count[r], k_signal_count[r] - 1}
    BY <1>1, <2>1
  <2> QED  BY <1>3, <2>3, <2>4 DEF Sm!SmokersMatchOffers
<1> QED  BY <1>2, <1>3 DEF KInv, KTurn, KIdle, KNoting, KSmoking, KSmoked, KOneWaits

-----------------------------------------------------------------------------
(* bounded-buffer.c                                                        *)

\* An index past the end of the ring goes on at its start.
Wrap(x) == IF x < QUEUE_SIZE THEN x ELSE x - QUEUE_SIZE

LEMMA Wraps == ASSUME NEW x \in Nat, x < 2 * QUEUE_SIZE  PROVE x % QUEUE_SIZE = Wrap(x)
<1>1. QUEUE_SIZE \in Nat \ {0}
  BY BufferAssumption
<1>2. CASE x < QUEUE_SIZE
  BY <1>1, <1>2 DEF Wrap
<1>3. CASE ~(x < QUEUE_SIZE)
  <2>1. PICK y \in Nat : x = QUEUE_SIZE + y /\ y < QUEUE_SIZE
    <3>1. x - QUEUE_SIZE \in Nat /\ x = QUEUE_SIZE + (x - QUEUE_SIZE) /\ x - QUEUE_SIZE < QUEUE_SIZE
      BY <1>1, <1>3
    <3> QED  BY <3>1
  <2>2. (QUEUE_SIZE + y) % QUEUE_SIZE = y
    BY <1>1, <2>1
  <2> QED  BY <1>1, <1>3, <2>1, <2>2 DEF Wrap
<1> QED  BY <1>2, <1>3

BTypes ==
    /\ b_queue \in [BB!Slots -> Producers]
    /\ b_queue_head \in BB!Slots /\ b_queue_tail \in BB!Slots
    /\ b_val \in Producers
    /\ b_not_empty \in Seq(Consumers) /\ b_not_full \in Seq(Producers)
    /\ b_iterations \in [BB!Threads -> 0..NUM_ITERATIONS]
    /\ b_pc \in [BB!Threads -> {"runs", "waits", "woken"}]

\* How many values a ring holds from h to t, and which.
Count(h, t) == IF h <= t THEN t - h ELSE (t - h) + QUEUE_SIZE
Ring(q, h, t) == [k \in 1..Count(h, t) |-> q[Wrap(h + (k - 1))]]

LEMMA RingFacts ==
    ASSUME NEW q \in [BB!Slots -> Producers], NEW h \in BB!Slots, NEW t \in BB!Slots
    PROVE  /\ Count(h, t) \in 0..(QUEUE_SIZE - 1)
           /\ [k \in 1..((t - h + QUEUE_SIZE) % QUEUE_SIZE) |-> q[(h + k - 1) % QUEUE_SIZE]] = Ring(q, h, t)
           /\ \A k \in 1..QUEUE_SIZE : Wrap(h + (k - 1)) \in BB!Slots
           /\ Ring(q, h, t) \in Seq(Producers) /\ Len(Ring(q, h, t)) = Count(h, t)
<1>1. QUEUE_SIZE \in Nat \ {0} /\ h \in 0..(QUEUE_SIZE - 1) /\ t \in 0..(QUEUE_SIZE - 1)
  BY BufferAssumption DEF BB!Slots
<1>2. Count(h, t) \in 0..(QUEUE_SIZE - 1)
  BY <1>1 DEF Count
<1>3. ((t - h) + QUEUE_SIZE) % QUEUE_SIZE = Count(h, t)
  <2> DEFINE x == (t - h) + QUEUE_SIZE
  <2>1. x \in Nat /\ x < 2 * QUEUE_SIZE
    BY <1>1
  <2>2. Wrap(x) = Count(h, t)
    BY <1>1 DEF Wrap, Count
  <2> HIDE DEF x
  <2>3. x % QUEUE_SIZE = Count(h, t)
    BY <2>1, <2>2, Wraps
  <2> QED  BY <2>3 DEF x
<1>4. \A k \in 1..QUEUE_SIZE : /\ (h + (k - 1)) % QUEUE_SIZE = Wrap(h + (k - 1))
                               /\ Wrap(h + (k - 1)) \in 0..(QUEUE_SIZE - 1)
  <2> SUFFICES ASSUME NEW k \in 1..QUEUE_SIZE
               PROVE  (h + (k - 1)) % QUEUE_SIZE = Wrap(h + (k - 1)) /\ Wrap(h + (k - 1)) \in 0..(QUEUE_SIZE - 1)
    OBVIOUS
  <2> DEFINE x == h + (k - 1)
  <2>1. x \in Nat /\ x < 2 * QUEUE_SIZE
    BY <1>1
  <2> HIDE DEF x
  <2>2. x % QUEUE_SIZE = Wrap(x) /\ Wrap(x) \in 0..(QUEUE_SIZE - 1)
    BY <1>1, <2>1, Wraps DEF Wrap
  <2> QED  BY <2>2 DEF x
<1>5. \A k \in 1..Count(h, t) : k \in 1..QUEUE_SIZE
  BY <1>1, <1>2
<1>6. [k \in 1..((t - h + QUEUE_SIZE) % QUEUE_SIZE) |-> q[(h + k - 1) % QUEUE_SIZE]] = Ring(q, h, t)
  BY <1>3, <1>4, <1>5 DEF Ring
<1>7. \A k \in 1..Count(h, t) : q[Wrap(h + (k - 1))] \in Producers
  BY <1>4, <1>5 DEF BB!Slots
<1>8. Ring(q, h, t) \in Seq(Producers) /\ Len(Ring(q, h, t)) = Count(h, t)
  BY <1>2, <1>7 DEF Ring
<1> QED  BY <1>2, <1>4, <1>6, <1>8 DEF BB!Slots

\* The model's Contents are the ring, without the remainders.
LEMMA RingContents ==
    /\ BTypes => BB!Contents = Ring(b_queue, b_queue_head, b_queue_tail)
    /\ BTypes' => BB!Contents' = Ring(b_queue', b_queue_head', b_queue_tail')
BY RingFacts DEF BTypes, BB!Contents

LEMMA NextSlot == ASSUME NEW s \in BB!Slots  PROVE BB!next(s) = Wrap(s + 1) /\ Wrap(s + 1) \in BB!Slots
<1>1. QUEUE_SIZE \in Nat \ {0} /\ s \in 0..(QUEUE_SIZE - 1)
  BY BufferAssumption DEF BB!Slots
<1> DEFINE x == s + 1
<1>2. x \in Nat /\ x < 2 * QUEUE_SIZE /\ Wrap(x) \in 0..(QUEUE_SIZE - 1)
  BY <1>1 DEF Wrap
<1> HIDE DEF x
<1>3. x % QUEUE_SIZE = Wrap(x)
  BY <1>2, Wraps
<1> QED  BY <1>2, <1>3 DEF x, BB!next, BB!Slots

LEMMA BInit == BB!Init => BTypes /\ BB!Q!BQInit
<1> SUFFICES ASSUME BB!Init  PROVE BTypes /\ BB!Q!BQInit
  OBVIOUS
<1> USE DEF BB!Init
<1>1. (CHOOSE p \in Producers : TRUE) \in Producers
  BY BufferAssumption
<1>2. 0 \in BB!Slots
  BY BufferAssumption DEF BB!Slots
<1>3. BTypes
  BY <1>1, <1>2, BufferAssumption, EmptySeq DEF BTypes
<1>4. BB!Contents = Ring(b_queue, 0, 0) /\ Count(0, 0) = 0
  BY <1>3, RingContents DEF Count
<1>5. BB!Contents = <<>>
  BY <1>3, <1>4, RingFacts, EmptySeq DEF BTypes
<1> QED  BY <1>1, <1>3, <1>5 DEF BB!Q!BQInit

\* A section under the mutex waits, or does one operation and signals.
LEMMA BRest ==
    ASSUME BTypes, NEW t \in BB!Threads, BB!Runs(t), NEW S, NEW q \in Seq(S), BB!Waits(t) \/ BB!Done(t, q)
    PROVE  /\ b_iterations' \in [BB!Threads -> 0..NUM_ITERATIONS]
           /\ b_pc' \in [BB!Threads -> {"runs", "waits", "woken"}]
<1>1. b_iterations[t] + 1 \in 0..NUM_ITERATIONS
  BY BufferAssumption DEF BTypes, BB!Runs
<1>2. b_iterations' \in [BB!Threads -> 0..NUM_ITERATIONS]
  BY <1>1 DEF BTypes, BB!Waits, BB!Done
<1>3. b_pc' \in [BB!Threads -> {"runs", "waits", "woken"}]
  BY DEF BTypes, BB!Waits, BB!Done
<1> QED  BY <1>2, <1>3

LEMMA LeftIn == ASSUME NEW S, NEW q \in Seq(S)  PROVE LeftAfter(q, 1) \in Seq(S)
<1>1. \A k \in (1 + 1)..Len(q) : q[k] \in S
  OBVIOUS
<1>2. Len(q) \in Int
  OBVIOUS
<1> QED  BY <1>1, <1>2, SubSeqProperties DEF LeftAfter

LEMMA BEnqueue ==
    ASSUME BTypes, NEW p \in Producers, BB!queue_enqueue(p)
    PROVE  BTypes' /\ (BB!Q!Enq(p) \/ UNCHANGED <<BB!Contents, b_val>>)
<1>1. p \in BB!Threads /\ BB!Runs(p)
  BY DEF BB!Threads, BB!queue_enqueue
<1>2. QUEUE_SIZE \in Nat \ {0} /\ b_queue_head \in 0..(QUEUE_SIZE - 1) /\ b_queue_tail \in 0..(QUEUE_SIZE - 1)
  BY BufferAssumption DEF BTypes, BB!Slots
<1>3. BB!next(b_queue_tail) = Wrap(b_queue_tail + 1) /\ Wrap(b_queue_tail + 1) \in BB!Slots
  BY NextSlot DEF BTypes
<1>4. CASE BB!next(b_queue_tail) = b_queue_head
  <2>1. /\ BB!Waits(p) /\ b_not_full' = Append(b_not_full, p)
        /\ UNCHANGED <<b_not_empty, b_queue, b_queue_head, b_queue_tail, b_val>>
    BY <1>4 DEF BB!queue_enqueue, BB!Waits, BB!ring
  <2>2. BTypes'
    BY <1>1, <2>1, BRest, EmptySeq, AppendProperties DEF BTypes
  <2>3. BB!Contents' = BB!Contents
    BY <2>1 DEF BB!Contents
  <2> QED  BY <2>1, <2>2, <2>3
<1>5. CASE BB!next(b_queue_tail) # b_queue_head
  <2>1. /\ b_queue' = [b_queue EXCEPT ![b_queue_tail] = p] /\ b_queue_tail' = Wrap(b_queue_tail + 1)
        /\ b_not_empty' = LeftAfter(b_not_empty, 1) /\ BB!Done(p, b_not_empty)
        /\ UNCHANGED <<b_queue_head, b_val, b_not_full>>
    BY <1>3, <1>5, SameWaiting DEF BB!queue_enqueue
  <2>2. BTypes'
    <3>1. b_not_empty' \in Seq(Consumers)
      BY <2>1, LeftIn DEF BTypes
    <3>2. /\ b_iterations' \in [BB!Threads -> 0..NUM_ITERATIONS]
          /\ b_pc' \in [BB!Threads -> {"runs", "waits", "woken"}]
      BY <1>1, <2>1, BRest DEF BTypes
    <3> QED  BY <1>3, <2>1, <3>1, <3>2 DEF BTypes
  <2> DEFINE n == Count(b_queue_head, b_queue_tail)
             h == b_queue_head
  <2>3. /\ n \in 0..(QUEUE_SIZE - 1) /\ BB!Contents = [k \in 1..n |-> b_queue[Wrap(h + (k - 1))]]
        /\ BB!Contents \in Seq(Producers) /\ Len(BB!Contents) = n
        /\ \A k \in 1..QUEUE_SIZE : Wrap(h + (k - 1)) \in BB!Slots
    <3>1. BB!Contents = Ring(b_queue, b_queue_head, b_queue_tail)
      BY RingContents
    <3>2. b_queue \in [BB!Slots -> Producers] /\ b_queue_head \in BB!Slots /\ b_queue_tail \in BB!Slots
      BY DEF BTypes
    <3>3. /\ n \in 0..(QUEUE_SIZE - 1) /\ \A k \in 1..QUEUE_SIZE : Wrap(h + (k - 1)) \in BB!Slots
          /\ Ring(b_queue, b_queue_head, b_queue_tail) \in Seq(Producers)
          /\ Len(Ring(b_queue, b_queue_head, b_queue_tail)) = n
      BY <3>2, RingFacts
    <3>4. Ring(b_queue, b_queue_head, b_queue_tail) = [k \in 1..n |-> b_queue[Wrap(h + (k - 1))]]
      BY DEF Ring
    <3> QED  BY <3>1, <3>3, <3>4
  <2>4. Count(b_queue_head', b_queue_tail') = n + 1 /\ n + 1 <= QUEUE_SIZE - 1
    BY <1>2, <1>3, <1>5, <2>1 DEF Count, Wrap
  <2>5. /\ BB!Contents' = [k \in 1..(n + 1) |-> b_queue'[Wrap(h + (k - 1))]]
        /\ BB!Contents' \in Seq(Producers) /\ Len(BB!Contents') = n + 1
    <3>1. BB!Contents' = Ring(b_queue', b_queue_head', b_queue_tail')
      BY <2>2, RingContents
    <3>2. b_queue' \in [BB!Slots -> Producers] /\ b_queue_head' \in BB!Slots /\ b_queue_tail' \in BB!Slots
      BY <2>2 DEF BTypes
    <3>3. /\ BB!Contents' \in Seq(Producers)
          /\ Len(BB!Contents') = Count(b_queue_head', b_queue_tail')
      BY <3>1, <3>2, RingFacts
    <3>4. Ring(b_queue', b_queue_head', b_queue_tail') = [k \in 1..(n + 1) |-> b_queue'[Wrap(h + (k - 1))]]
      BY <2>1, <2>4 DEF Ring
    <3> QED  BY <2>4, <3>1, <3>3, <3>4
  <2>6. /\ Wrap(h + ((n + 1) - 1)) = b_queue_tail
        /\ \A k \in 1..n : Wrap(h + (k - 1)) # b_queue_tail
    BY <1>2, <2>3 DEF Count, Wrap
  <2>7. h \in Int /\ n \in Nat
    BY <1>2, <2>3
  <2> HIDE DEF n, h
  <2>8. \A k \in 1..n : b_queue'[Wrap(h + (k - 1))] = b_queue[Wrap(h + (k - 1))]
    BY <1>2, <2>1, <2>3, <2>4, <2>6 DEF BTypes
  <2>9. b_queue'[Wrap(h + ((n + 1) - 1))] = p
    BY <2>1, <2>6 DEF BTypes
  <2>10. BB!Contents' = Append(BB!Contents, p)
    <3> DEFINE more == Append(BB!Contents, p)
    <3>1. /\ more \in Seq(Producers) /\ Len(more) = n + 1 /\ more[n + 1] = p
          /\ \A k \in 1..n : more[k] = BB!Contents[k]
      BY <2>3, AppendProperties
    <3>2. BB!Contents' \in Seq(Producers) /\ Len(BB!Contents') = n + 1
      BY <2>5
    <3> DEFINE now == BB!Contents'
    <3>3. \A k \in 1..(n + 1) : now[k] = more[k]
      <4> SUFFICES ASSUME NEW k \in 1..(n + 1)  PROVE now[k] = more[k]
        OBVIOUS
      <4>1. CASE k = n + 1
        BY <2>5, <2>9, <3>1, <4>1
      <4>2. CASE k # n + 1
        <5>1. k \in 1..n
          BY <2>7, <4>2
        <5> QED  BY <2>3, <2>5, <2>8, <3>1, <5>1
      <4> QED  BY <4>1, <4>2
    <3>4. now \in Seq(Producers) /\ Len(now) = n + 1
      BY <3>2
    <3> HIDE DEF now, more
    <3>5. now = more
      BY <3>1, <3>3, <3>4
    <3> QED  BY <3>5 DEF now, more
  <2>11. Len(BB!Contents) < QUEUE_SIZE - 1
    BY <1>2, <2>3, <2>4, <2>7
  <2> QED  BY <2>1, <2>2, <2>10, <2>11 DEF BB!Q!Enq
<1> QED  BY <1>4, <1>5

LEMMA BDequeue ==
    ASSUME BTypes, NEW c \in Consumers, BB!queue_dequeue(c)
    PROVE  BTypes' /\ (BB!Q!Deq \/ UNCHANGED <<BB!Contents, b_val>>)
<1>1. c \in BB!Threads /\ BB!Runs(c)
  BY DEF BB!Threads, BB!queue_dequeue
<1>2. QUEUE_SIZE \in Nat \ {0} /\ b_queue_head \in 0..(QUEUE_SIZE - 1) /\ b_queue_tail \in 0..(QUEUE_SIZE - 1)
  BY BufferAssumption DEF BTypes, BB!Slots
<1>3. BB!next(b_queue_head) = Wrap(b_queue_head + 1) /\ Wrap(b_queue_head + 1) \in BB!Slots
  BY NextSlot DEF BTypes
<1>4. CASE b_queue_head = b_queue_tail
  <2>1. /\ BB!Waits(c) /\ b_not_empty' = Append(b_not_empty, c)
        /\ UNCHANGED <<b_not_full, b_queue, b_queue_head, b_queue_tail, b_val>>
    BY <1>4 DEF BB!queue_dequeue, BB!Waits, BB!ring
  <2>2. BTypes'
    BY <1>1, <2>1, BRest, EmptySeq, AppendProperties DEF BTypes
  <2>3. BB!Contents' = BB!Contents
    BY <2>1 DEF BB!Contents
  <2> QED  BY <2>1, <2>2, <2>3
<1>5. CASE b_queue_head # b_queue_tail
  <2>1. /\ b_val' = b_queue[b_queue_head] /\ b_queue_head' = Wrap(b_queue_head + 1)
        /\ b_not_full' = LeftAfter(b_not_full, 1) /\ BB!Done(c, b_not_full)
        /\ UNCHANGED <<b_queue, b_queue_tail, b_not_empty>>
    BY <1>3, <1>5, SameWaiting DEF BB!queue_dequeue
  <2>2. BTypes'
    <3>1. b_not_full' \in Seq(Producers)
      BY <2>1, LeftIn DEF BTypes
    <3>2. /\ b_iterations' \in [BB!Threads -> 0..NUM_ITERATIONS]
          /\ b_pc' \in [BB!Threads -> {"runs", "waits", "woken"}]
      BY <1>1, <2>1, BRest DEF BTypes
    <3> QED  BY <1>3, <2>1, <3>1, <3>2 DEF BTypes
  <2> DEFINE n == Count(b_queue_head, b_queue_tail)
             h == b_queue_head
  <2>3. /\ n \in 0..(QUEUE_SIZE - 1) /\ BB!Contents = [k \in 1..n |-> b_queue[Wrap(h + (k - 1))]]
        /\ BB!Contents \in Seq(Producers) /\ Len(BB!Contents) = n
    <3>1. BB!Contents = Ring(b_queue, b_queue_head, b_queue_tail)
      BY RingContents
    <3>2. b_queue \in [BB!Slots -> Producers] /\ b_queue_head \in BB!Slots /\ b_queue_tail \in BB!Slots
      BY DEF BTypes
    <3>3. /\ n \in 0..(QUEUE_SIZE - 1) /\ \A k \in 1..QUEUE_SIZE : Wrap(h + (k - 1)) \in BB!Slots
          /\ Ring(b_queue, b_queue_head, b_queue_tail) \in Seq(Producers)
          /\ Len(Ring(b_queue, b_queue_head, b_queue_tail)) = n
      BY <3>2, RingFacts
    <3>4. Ring(b_queue, b_queue_head, b_queue_tail) = [k \in 1..n |-> b_queue[Wrap(h + (k - 1))]]
      BY DEF Ring
    <3> QED  BY <3>1, <3>3, <3>4
  <2>4. Count(b_queue_head', b_queue_tail') = n - 1 /\ n >= 1 /\ Wrap(h + (1 - 1)) = h
    BY <1>2, <1>3, <1>5, <2>1 DEF Count, Wrap
  <2>5. /\ BB!Contents' = [k \in 1..(n - 1) |-> b_queue[Wrap(Wrap(h + 1) + (k - 1))]]
        /\ BB!Contents' \in Seq(Producers) /\ Len(BB!Contents') = n - 1
    <3>1. BB!Contents' = Ring(b_queue', b_queue_head', b_queue_tail')
      BY <2>2, RingContents
    <3>2. b_queue' \in [BB!Slots -> Producers] /\ b_queue_head' \in BB!Slots /\ b_queue_tail' \in BB!Slots
      BY <2>2 DEF BTypes
    <3>3. /\ BB!Contents' \in Seq(Producers)
          /\ Len(BB!Contents') = Count(b_queue_head', b_queue_tail')
      BY <3>1, <3>2, RingFacts
    <3> QED  BY <2>1, <2>4, <3>1, <3>3 DEF Ring
  <2>6. \A k \in 1..(n - 1) : Wrap(Wrap(h + 1) + (k - 1)) = Wrap(h + ((k + 1) - 1))
    BY <1>2, <2>3 DEF Wrap
  <2>7. h \in Int /\ n \in Nat
    BY <1>2, <2>3
  <2> HIDE DEF n, h
  <2> DEFINE now == BB!Contents'
             old == BB!Contents
  <2>8. /\ old \in Seq(Producers) /\ Len(old) = n /\ now \in Seq(Producers) /\ Len(now) = n - 1
        /\ old[1] = b_queue[h]
        /\ \A k \in 1..(n - 1) : now[k] = old[k + 1]
    <3>1. \A k \in 1..(n - 1) : k + 1 \in 1..n
      BY <2>7
    <3>2. 1 \in 1..n
      BY <2>4, <2>7
    <3> QED  BY <2>3, <2>4, <2>5, <2>6, <3>1, <3>2
  <2> HIDE DEF now, old
  <2>9. old # <<>> /\ Head(old) = b_queue[h] /\ now = Tail(old)
    BY <2>4, <2>7, <2>8
  <2> QED  BY <2>1, <2>2, <2>9 DEF BB!Q!Deq, now, old, h
<1> QED  BY <1>4, <1>5

LEMMA BStep ==
    ASSUME BTypes, BB!Next \/ UNCHANGED BBvars
    PROVE  BTypes' /\ (BB!Q!BQNext \/ UNCHANGED <<BB!Contents, b_val>>)
<1>1. CASE UNCHANGED BBvars
  BY <1>1 DEF BBvars, BTypes, BB!Contents
<1>2. CASE BB!Next
  BY <1>2, BEnqueue, BDequeue DEF BB!Next, BB!Step, BB!Q!BQNext
<1> QED  BY <1>1, <1>2

-----------------------------------------------------------------------------
(* pc_spinlock.c and pc_mutex_cond.c                                       *)

PInv ==
    /\ Po!TypeOK /\ o_items \in 0..PoolItems
    /\ \A t \in Po!Threads : o_pc[t] = "saw" => o_iterations[t] < NUM_ITERATIONS

LEMMA PInit == Po!Init => PInv
<1> SUFFICES ASSUME Po!Init  PROVE PInv
  OBVIOUS
<1>1. <<>> \in Seq(Po!Threads)
  BY EmptySeq
<1> QED  BY <1>1, PoolAssumption, BufferAssumption DEF Po!Init, PInv, Po!TypeOK

\* A thread counts an item that there is, or fills a place that there is.
LEMMA PChange ==
    ASSUME PInv, NEW t \in Po!Threads, ~Po!Cannot(t), Po!Change(t), o_iterations[t] < NUM_ITERATIONS, Po!Counted(t)
    PROVE  /\ o_items' \in 0..PoolItems
           /\ o_iterations' \in [Po!Threads -> 0..NUM_ITERATIONS]
           /\ \A u \in Po!Threads : u # t => o_iterations'[u] = o_iterations[u]
<1>1. o_items' \in 0..PoolItems
  BY PoolAssumption DEF PInv, Po!Cannot, Po!Change
<1>2. o_iterations \in [Po!Threads -> 0..NUM_ITERATIONS] /\ NUM_ITERATIONS \in Nat
  BY BufferAssumption DEF PInv, Po!TypeOK
<1>3. o_iterations[t] + 1 \in 0..NUM_ITERATIONS /\ o_iterations' = [o_iterations EXCEPT ![t] = o_iterations[t] + 1]
  BY <1>2 DEF Po!Counted
<1> QED  BY <1>1, <1>2, <1>3

LEMMA PSpins == ASSUME PInv, NEW t \in Po!Threads, Po!SpinEnds(t) \/ Po!Locked(t)  PROVE PInv'
<1>1. CASE Po!SpinEnds(t)
  BY <1>1 DEF Po!SpinEnds, PInv, Po!TypeOK
<1>2. CASE Po!Locked(t)
  <2>1. o_pc[t] = "saw" /\ o_pc' = [o_pc EXCEPT ![t] = "runs"] /\ UNCHANGED <<o_version, o_waiters>>
    BY <1>2 DEF Po!Locked
  <2>2. /\ o_items' \in 0..PoolItems
        /\ o_iterations' \in [Po!Threads -> 0..NUM_ITERATIONS]
        /\ \A u \in Po!Threads : u # t => o_iterations'[u] = o_iterations[u]
    <3>1. CASE Po!Cannot(t)
      BY <1>2, <3>1 DEF Po!Locked, PInv, Po!TypeOK
    <3>2. CASE ~Po!Cannot(t)
      BY <1>2, <2>1, <3>2, PChange DEF Po!Locked, PInv
    <3> QED  BY <3>1, <3>2
  <2>3. o_pc' \in [Po!Threads -> {"runs", "saw", "waits"}] /\ \A u \in Po!Threads : u # t => o_pc'[u] = o_pc[u]
    BY <2>1 DEF PInv, Po!TypeOK
  <2>4. o_pc'[t] = "runs" /\ o_items' \in Int
    BY <2>1, <2>2 DEF PInv, Po!TypeOK
  <2> QED  BY <2>1, <2>2, <2>3, <2>4 DEF PInv, Po!TypeOK
<1> QED  BY <1>1, <1>2

LEMMA PMonitor == ASSUME PInv, NEW t \in Po!Threads, Po!Monitor(t)  PROVE PInv'
<1>1. o_pc[t] = "runs" /\ o_iterations[t] < NUM_ITERATIONS /\ UNCHANGED o_version
  BY DEF Po!Monitor
<1>2. Po!Own(t) \in Po!Conds /\ Po!Other(t) \in Po!Conds
  BY DEF Po!Own, Po!Other, Po!Conds
<1>t. o_waiters \in [Po!Conds -> Seq(Po!Threads)]
  BY DEF PInv, Po!TypeOK
<1>3. CASE Po!Cannot(t)
  <2>1. /\ o_waiters' = [o_waiters EXCEPT ![Po!Own(t)] = Append(o_waiters[Po!Own(t)], t)]
        /\ o_pc' = [o_pc EXCEPT ![t] = "waits"] /\ UNCHANGED <<o_items, o_iterations>>
    BY <1>2, <1>3, <1>t DEF Po!Monitor
  <2>2. Append(o_waiters[Po!Own(t)], t) \in Seq(Po!Threads)
    BY <1>2, <1>t
  <2>3. o_waiters' \in [Po!Conds -> Seq(Po!Threads)]
    BY <1>t, <2>1, <2>2
  <2> QED  BY <1>1, <2>1, <2>3 DEF PInv, Po!TypeOK
<1>4. CASE ~Po!Cannot(t)
  <2> DEFINE woken == Signalled(o_waiters[Po!Other(t)], 1)
             left == LeftAfter(o_waiters[Po!Other(t)], 1)
  <2>1. /\ Po!Change(t) /\ Po!Counted(t)
        /\ o_waiters' = [o_waiters EXCEPT ![Po!Other(t)] = left]
        /\ o_pc' = [u \in Po!Threads |-> IF u \in woken THEN "runs" ELSE o_pc[u]]
    BY <1>2, <1>4, <1>t, SameWaiting DEF Po!Monitor
  <2>2. left \in Seq(Po!Threads)
    BY <1>2, <1>t, LeftIn
  <2> HIDE DEF left, woken
  <2>3. o_waiters' \in [Po!Conds -> Seq(Po!Threads)]
    BY <1>t, <2>1, <2>2
  <2>4. /\ o_items' \in 0..PoolItems
        /\ o_iterations' \in [Po!Threads -> 0..NUM_ITERATIONS]
        /\ \A u \in Po!Threads : u # t => o_iterations'[u] = o_iterations[u]
    BY <1>1, <1>4, <2>1, PChange
  <2>5. o_pc' \in [Po!Threads -> {"runs", "saw", "waits"}] /\ \A u \in Po!Threads : o_pc'[u] = "saw" => o_pc[u] = "saw"
    BY <2>1 DEF PInv, Po!TypeOK
  <2>6. o_items' \in Int
    BY <2>4
  <2> QED  BY <1>1, <2>3, <2>4, <2>5, <2>6 DEF PInv, Po!TypeOK
<1> QED  BY <1>3, <1>4

LEMMA PStep == ASSUME PInv, Po!Next \/ UNCHANGED Povars  PROVE PInv'
<1>1. CASE UNCHANGED Povars
  BY <1>1 DEF Povars, PInv, Po!TypeOK
<1>2. CASE Po!Next
  BY <1>2, PSpins, PMonitor DEF Po!Next, Po!Step
<1> QED  BY <1>1, <1>2

-----------------------------------------------------------------------------
(* racedemo.c, alone and with the lock that excludes.                      *)

\* The elements of s, first pushed first, are linked from t on.
GStack(s, t, links) ==
    /\ Line(s, Addresses) /\ Len(s) = Cardinality(Elems(s))
    /\ t = IF Len(s) = 0 THEN 0 ELSE s[Len(s)]
    /\ \A i \in 1..Len(s) : links[s[i]] = IF i = 1 THEN 0 ELSE s[i - 1]

LEMMA GFinite ==
    ASSUME NEW A, A \subseteq Addresses
    PROVE  /\ IsFiniteSet(A) /\ Cardinality(A) \in Nat /\ Cardinality(A) <= Cardinality(Addresses)
           /\ Cardinality(Addresses) \in Nat /\ 0 \notin A
           /\ \A a \in Addresses : Cardinality(A \cup {a}) = IF a \in A THEN Cardinality(A) ELSE Cardinality(A) + 1
           /\ \A a \in A : Cardinality(A \ {a}) = Cardinality(A) - 1
           /\ Cardinality(A) = 0 <=> A = {}
<1>1. IsFiniteSet(A) /\ Cardinality(A) <= Cardinality(Addresses)
  BY StackAssumption, FS_Subset
<1>2. Cardinality(A) \in Nat /\ Cardinality(Addresses) \in Nat /\ (Cardinality(A) = 0 <=> A = {})
  BY <1>1, StackAssumption, FS_CardinalityType, FS_EmptySet
<1>3. \A a : a \notin A => Cardinality(A \cup {a}) = Cardinality(A) + 1
  BY <1>1, FS_AddElement
<1>4. \A a \in A : A \cup {a} = A
  OBVIOUS
<1>5. \A a \in A : Cardinality(A \ {a}) = Cardinality(A) - 1
  BY <1>1, FS_RemoveElement
<1> QED  BY <1>1, <1>2, <1>3, <1>4, <1>5, StackAssumption

LEMMA GEmpty == ASSUME NEW links  PROVE GStack(<<>>, 0, links)
<1>1. Line(<<>>, Addresses) /\ Elems(<<>>) = {} /\ Len(<<>>) = 0
  BY EmptyLine
<1> QED  BY <1>1, FS_EmptySet DEF GStack

\* An element that is linked to the top goes on top.
LEMMA GPush ==
    ASSUME NEW s, NEW t, NEW links, GStack(s, t, links), NEW a \in Addresses, a \notin Elems(s), links[a] = t
    PROVE  GStack(Append(s, a), a, links) /\ Elems(Append(s, a)) = Elems(s) \cup {a}
<1> DEFINE r == Append(s, a)
<1>1. Line(r, Addresses) /\ Elems(r) = Elems(s) \cup {a} /\ Elems(s) \subseteq Addresses
  BY JoinLine, LineFacts DEF GStack
<1>2. s \in Seq(Addresses) /\ Len(s) \in Nat /\ Len(r) = Len(s) + 1
  BY DEF GStack, Line
<1>3. r[Len(r)] = a /\ \A i \in 1..Len(s) : r[i] = s[i]
  BY <1>2
<1>4. Len(r) = Cardinality(Elems(r))
  BY <1>1, <1>2, GFinite DEF GStack
<1>5. ASSUME NEW i \in 1..Len(r)  PROVE links[r[i]] = IF i = 1 THEN 0 ELSE r[i - 1]
  <2>1. CASE i = Len(r)
    <3>1. i - 1 = Len(s) /\ (i # 1 => i - 1 \in 1..Len(s))
      BY <1>2, <2>1
    <3> QED  BY <1>2, <1>3, <2>1, <3>1 DEF GStack
  <2>2. CASE i # Len(r)
    <3>1. i \in 1..Len(s) /\ (i # 1 => i - 1 \in 1..Len(s))
      BY <1>2, <2>2
    <3> QED  BY <1>3, <3>1 DEF GStack
  <2> QED  BY <2>1, <2>2
<1>6. Len(r) # 0
  BY <1>2
<1> QED  BY <1>1, <1>3, <1>4, <1>5, <1>6 DEF GStack

\* The top is taken off, and what it is linked to is the top of the others.
LEMMA GPop ==
    ASSUME NEW s, NEW t, NEW links, GStack(s, t, links), t # 0
    PROVE  t \in Elems(s) /\ \E r : GStack(r, links[t], links) /\ Elems(r) = Elems(s) \ {t}
<1> DEFINE n == Len(s)
           r == [i \in 1..(n - 1) |-> s[i]]
<1>1. s \in Seq(Addresses) /\ n \in Nat /\ n # 0 /\ Distinct(s) /\ t = s[n]
  BY DEF GStack, Line
<1>2. n - 1 \in Nat /\ n \in 1..n /\ \A i \in 1..(n - 1) : i \in 1..n /\ i # n
  BY <1>1
<1>3. \A i \in 1..n : s[i] \in Addresses
  BY <1>1
<1>4. r \in Seq(Addresses) /\ Len(r) = n - 1
  BY <1>2, <1>3
<1>5. t \in Elems(s) /\ t \in Addresses
  BY <1>1, <1>2, <1>3 DEF Elems
<1>6. Elems(r) = Elems(s) \ {t}
  <2>1. \A i \in 1..n : s[i] # t => i \in 1..(n - 1)
    BY <1>1
  <2>2. \A i \in 1..(n - 1) : s[i] # t
    BY <1>1, <1>2 DEF Distinct
  <2>3. Elems(r) = {s[i] : i \in 1..(n - 1)}
    BY <1>4 DEF Elems
  <2> QED  BY <1>2, <2>1, <2>2, <2>3 DEF Elems
<1>7. Line(r, Addresses)
  BY <1>1, <1>2, <1>4 DEF Line, Distinct
<1>8. Len(r) = Cardinality(Elems(r))
  <2>1. Elems(s) \subseteq Addresses
    BY LineFacts DEF GStack
  <2>2. Cardinality(Elems(s) \ {t}) = Cardinality(Elems(s)) - 1
    BY <1>5, <2>1, GFinite
  <2> QED  BY <1>4, <1>6, <2>2 DEF GStack
<1>9. links[t] = IF Len(r) = 0 THEN 0 ELSE r[Len(r)]
  <2>1. links[t] = IF n = 1 THEN 0 ELSE s[n - 1]
    BY <1>1, <1>2 DEF GStack
  <2>2. CASE n = 1
    BY <1>4, <2>1, <2>2
  <2>3. CASE n # 1
    <3>1. n - 1 \in 1..(n - 1) /\ n - 1 # 0
      <4>1. n \in Nat /\ n # 0 /\ n # 1
        BY <1>1, <2>3
      <4> HIDE DEF n
      <4> QED  BY <4>1
    <3>2. r[n - 1] = s[n - 1]
      BY <3>1
    <3> HIDE DEF r
    <3> QED  BY <1>4, <2>1, <2>3, <3>1, <3>2
  <2> QED  BY <2>2, <2>3
<1>10. \A i \in 1..Len(r) : links[r[i]] = IF i = 1 THEN 0 ELSE r[i - 1]
  <2> SUFFICES ASSUME NEW i \in 1..(n - 1)  PROVE links[s[i]] = IF i = 1 THEN 0 ELSE r[i - 1]
    BY <1>4
  <2>1. i # 1 => i - 1 \in 1..(n - 1)
    BY <1>2
  <2> QED  BY <1>2, <2>1 DEF GStack
<1> HIDE DEF r
<1> QED  BY <1>5, <1>6, <1>7, <1>8, <1>9, <1>10 DEF GStack

\* An element that is not on the stack may be linked.
LEMMA GLink ==
    ASSUME NEW s, NEW t, NEW links, links \in [Addresses -> Addresses \cup {0}], GStack(s, t, links),
           NEW a \in Addresses, a \notin Elems(s), NEW b
    PROVE  GStack(s, t, [links EXCEPT ![a] = b])
<1>1. \A i \in 1..Len(s) : s[i] \in Elems(s) /\ s[i] \in Addresses
  BY LineFacts DEF GStack, Elems
<1>2. \A i \in 1..Len(s) : [links EXCEPT ![a] = b][s[i]] = links[s[i]]
  BY <1>1
<1> QED  BY <1>2 DEF GStack

\* Following the links from the top finds all elements.
LEMMA GStacked == ASSUME NEW s, GStack(s, d_top, d_next)  PROVE Rs!Stacked = Elems(s)
<1> DEFINE n == Len(s)
           m == Cardinality(Addresses)
           Body(f, k) == IF k = 0 THEN d_top ELSE IF f[k - 1] = 0 THEN 0 ELSE d_next[f[k - 1]]
           g == [k \in 0..m |-> IF k < n THEN s[n - k] ELSE 0]
<1>1. /\ s \in Seq(Addresses) /\ n \in Nat /\ Elems(s) \subseteq Addresses /\ n = Cardinality(Elems(s))
      /\ \A j \in 1..n : s[j] \in Addresses
  BY LineFacts DEF GStack, Line
<1>2. m \in Nat /\ n <= m /\ 0 \notin Addresses
  BY <1>1, GFinite, StackAssumption
<1>3. ASSUME NEW k \in 0..m  PROVE g[k] = Body(g, k)
  <2>1. CASE k = 0
    <3>1. n # 0 => n - k = n /\ k < n
      BY <1>1, <2>1
    <3>2. n = 0 => ~(k < n)
      BY <2>1
    <3> QED  BY <1>1, <2>1, <3>1, <3>2 DEF GStack
  <2>2. CASE k # 0
    <3>1. k - 1 \in 0..m
      BY <1>2, <2>2
    <3>2. CASE k - 1 < n
      <4>1. n - (k - 1) \in 1..n /\ g[k - 1] = s[n - (k - 1)]
        BY <1>1, <3>1, <3>2
      <4>2. g[k - 1] # 0 /\ d_next[g[k - 1]] = IF n - (k - 1) = 1 THEN 0 ELSE s[(n - (k - 1)) - 1]
        BY <1>1, <1>2, <4>1 DEF GStack
      <4>3. (n - (k - 1) = 1 <=> ~(k < n)) /\ (n - (k - 1)) - 1 = n - k
        BY <1>1, <3>2
      <4>4. g[k] = IF k < n THEN s[n - k] ELSE 0
        OBVIOUS
      <4> HIDE DEF g
      <4> QED  BY <2>2, <4>2, <4>3, <4>4
    <3>3. CASE ~(k - 1 < n)
      <4>1. g[k - 1] = 0 /\ g[k] = 0
        BY <1>1, <3>1, <3>3
      <4> HIDE DEF g
      <4> QED  BY <2>2, <4>1
    <3> QED  BY <3>2, <3>3
  <2> QED  BY <2>1, <2>2
<1> HIDE DEF n, m
<1> DEFINE from == CHOOSE f : f = [k \in 0..m |-> Body(f, k)]
<1>4. from = [k \in 0..m |-> Body(from, k)]
  <2>1. g = [k \in 0..m |-> Body(g, k)]
    BY <1>3
  <2> QED  BY <2>1
<1>5. ASSUME NEW k \in 0..m  PROVE from[k] = Body(from, k)
  <2> HIDE DEF Body, from
  <2> QED  BY <1>4
<1>6. \A k \in 0..m : from[k] = g[k]
  <2> HIDE DEF from, g
  <2> DEFINE A == {k \in 0..m : from[k] # g[k]}
  <2> SUFFICES ASSUME A # {}  PROVE FALSE
    OBVIOUS
  <2>1. A \subseteq Nat
    BY <1>2
  <2>2. PICK k \in A : \A j \in A : k <= j
    BY <2>1, LeastElement
  <2>3. k \in 0..m /\ from[k] # g[k] /\ from[k] = Body(from, k) /\ g[k] = Body(g, k)
    BY <1>3, <1>5, <2>2
  <2>4. CASE k = 0
    BY <2>3, <2>4
  <2>5. CASE k # 0
    <3>1. k - 1 \in 0..m /\ ~(k <= k - 1)
      BY <1>2, <2>3, <2>5
    <3>2. from[k - 1] = g[k - 1]
      BY <2>2, <3>1
    <3> QED  BY <2>3, <2>5, <3>2
  <2> QED  BY <2>4, <2>5
<1>7. Rs!Cardinality(Addresses) = m
  BY DEF Rs!Cardinality, Cardinality, m
<1>8. Rs!Stacked = {from[k] : k \in DOMAIN from} \ {0}
  BY <1>7 DEF Rs!Stacked, Rs!NULL
<1>9. DOMAIN from = 0..m
  <2> HIDE DEF Body, from
  <2> QED  BY <1>4
<1>10. {from[k] : k \in DOMAIN from} = {g[k] : k \in 0..m}
  <2> HIDE DEF from, g
  <2> QED  BY <1>6, <1>9
<1>11. {g[k] : k \in 0..m} \ {0} = {s[i] : i \in 1..n}
  <2>1. ASSUME NEW k \in 0..m, g[k] # 0  PROVE g[k] \in {s[i] : i \in 1..n}
    <3>1. k < n /\ g[k] = s[n - k] /\ n - k \in 1..n
      BY <1>1, <1>2, <2>1 DEF n
    <3> QED  BY <3>1
  <2>2. ASSUME NEW i \in 1..n  PROVE s[i] \in {g[k] : k \in 0..m} \ {0}
    <3>1. n - i \in 0..m /\ n - i < n /\ n - (n - i) = i /\ s[i] # 0
      BY <1>1, <1>2 DEF n
    <3>2. g[n - i] = s[i]
      BY <3>1
    <3> QED  BY <3>1, <3>2
  <2> HIDE DEF g
  <2> QED  BY <2>1, <2>2
<1> QED  BY <1>8, <1>10, <1>11 DEF Elems, n

GSafe == d_version \notin {"race", "broken spinlock"}
GPushHas == d_push_pc \in {"lock", "link", "top"}
GHeldPush == IF GPushHas THEN {d_push_e} ELSE {}
GHeldPop == IF d_pop_pc \in {"unlock", "free"} /\ d_pop_e # 0 THEN {d_pop_e} ELSE {}
GPushIn == d_push_pc \in {"link", "top", "unlock"}
GPopIn == d_pop_pc \in {"top", "next", "unlock"}

GTypes ==
    /\ d_next \in [Addresses -> Addresses \cup {0}] /\ d_top \in Addresses \cup {0}
    /\ d_pushes \in Nat /\ d_pops \in Int /\ d_allocated \subseteq Addresses /\ ~d_crashed
    /\ d_push_pc \in {"malloc", "lock", "link", "top", "unlock"}
    /\ d_pop_pc \in {"lock", "top", "next", "unlock", "free"}
    /\ GPushHas => d_push_e \in Addresses
    /\ d_pop_e \in Addresses \cup {0}

\* Who is inside push or pop is there alone, and what it has read still holds.
GTurns ==
    /\ GPushHas => d_pushes > 0
    /\ ~(GPushIn /\ GPopIn)
    /\ d_version = "synchronized" /\ d_lock = 0 => ~GPushIn /\ ~GPopIn
    /\ d_version = "single" => /\ d_push_pc # "unlock" /\ d_pop_pc # "unlock"
                               /\ d_pop_pc # "lock" => d_pushes = 0
    /\ d_pop_pc = "next" => d_pop_e = d_top
    /\ d_push_pc = "top" => d_next[d_push_e] = d_top

\* Allocated is what lies on the stack and what the two threads have in hand.
GMemory(s) ==
    /\ GStack(s, d_top, d_next)
    /\ d_allocated = Elems(s) \cup (GHeldPush \cup GHeldPop)
    /\ Elems(s) \cap GHeldPush = {} /\ Elems(s) \cap GHeldPop = {} /\ GHeldPush \cap GHeldPop = {}
    /\ Cardinality(d_allocated) = (d_pops - d_pushes) + Flag(GPushHas)

GInv == d_version \in Rs!Versions /\ (GSafe => GTypes /\ GTurns /\ \E s : GMemory(s))

LEMMA GInit == Rs!Init => GInv
<1> SUFFICES ASSUME Rs!Init  PROVE GInv
  OBVIOUS
<1>1. GTypes /\ GTurns
  <2>1. GTypes
    BY StackAssumption DEF Rs!Init, Rs!NULL, GTypes, GPushHas
  <2>2. GTurns
    BY DEF Rs!Init, GTurns, GPushHas, GPushIn, GPopIn
  <2> QED  BY <2>1, <2>2
<1>2. GMemory(<<>>)
  <2>1. GHeldPush = {} /\ GHeldPop = {} /\ ~GPushHas /\ d_allocated = {} /\ d_pops - d_pushes = 0
    BY StackAssumption DEF Rs!Init, GHeldPush, GHeldPop, GPushHas
  <2>2. GStack(<<>>, d_top, d_next)
    BY GEmpty DEF Rs!Init, Rs!NULL
  <2> QED  BY <2>1, <2>2, EmptyLine, FS_EmptySet DEF GMemory, Flag
<1> QED  BY <1>1, <1>2 DEF GInv, Rs!Init

\* A step that keeps the stack, what is allocated and what is in hand.
LEMMA GSameMemory ==
    ASSUME NEW s, GMemory(s), UNCHANGED <<d_top, d_next, d_allocated, d_pops, d_pushes>>,
           GHeldPush' = GHeldPush, GHeldPop' = GHeldPop, GPushHas' = GPushHas
    PROVE  GMemory(s)'
BY DEF GMemory

LEMMA GMalloc == ASSUME GInv, GSafe, Rs!Malloc  PROVE GInv'
<1>1. PICK s : GMemory(s)
  BY DEF GInv
<1>2. PICK a \in Addresses \ d_allocated :
        d_push_e' = a /\ d_allocated' = d_allocated \cup {a} /\ d_push_pc' = "lock"
  BY DEF Rs!Malloc
<1>3. GTypes /\ GTurns /\ d_version \in Rs!Versions
  BY DEF GInv
<1>4. GTypes' /\ GTurns'
  BY <1>2, <1>3 DEF Rs!Malloc, GTypes, GTurns, GPushHas, GPushIn, GPopIn
<1>5. GMemory(s)'
  <2>1. GHeldPush = {} /\ ~GPushHas /\ GHeldPush' = {a} /\ GPushHas' /\ GHeldPop' = GHeldPop
    BY <1>2 DEF Rs!Malloc, GHeldPush, GHeldPop, GPushHas
  <2>2. a \notin Elems(s) /\ a \notin GHeldPop
    BY <1>1, <1>2 DEF GMemory
  <2>3. Cardinality(d_allocated') = Cardinality(d_allocated) + 1
    BY <1>2, <1>3, GFinite DEF GTypes
  <2>4. Cardinality(d_allocated') = (d_pops - d_pushes) + Flag(GPushHas')
    BY <1>1, <1>3, <2>1, <2>3 DEF GMemory, GTypes, Flag
  <2>5. UNCHANGED <<d_top, d_next, d_pops, d_pushes>>
    BY DEF Rs!Malloc
  <2>6. d_allocated' = Elems(s) \cup (GHeldPush' \cup GHeldPop')
    BY <1>1, <1>2, <2>1 DEF GMemory
  <2> QED  BY <1>1, <2>1, <2>2, <2>4, <2>5, <2>6 DEF GMemory
<1> QED  BY <1>3, <1>4, <1>5 DEF GInv, GSafe, Rs!Malloc

\* A thread comes in or goes out.
LEMMA GInOut ==
    ASSUME GInv, GSafe,
           Rs!LockPush \/ Rs!UnlockPush \/ Rs!LockPop \/ Rs!ReadTop \/ Rs!UnlockPop
    PROVE  GInv'
<1>1. PICK s : GMemory(s)
  BY DEF GInv
<1>2. GTypes /\ GTurns /\ d_version \in {"single", "synchronized"} /\ d_version' = d_version
  BY DEF GInv, GSafe, Rs!Versions, Rs!LockPush, Rs!UnlockPush, Rs!LockPop, Rs!ReadTop, Rs!UnlockPop
<1>3. CASE Rs!LockPush
  <2>1. d_push_pc = "lock" /\ d_push_pc' = "link"
    BY <1>2, <1>3 DEF Rs!LockPush, Rs!Behind
  <2>2. d_version = "synchronized" => d_lock = 0 /\ d_lock' = 1
    BY <1>3 DEF Rs!LockPush, Rs!LockTested, Rs!Locks
  <2>3. UNCHANGED <<d_top, d_next, d_allocated, d_pops, d_pushes, d_pop_pc, d_push_e, d_pop_e, d_crashed>>
    BY <1>3 DEF Rs!LockPush
  <2>4. GTypes' /\ GPushHas' = GPushHas
    BY <1>2, <2>1, <2>3 DEF GTypes, GPushHas
  <2>5. GTurns'
    BY <1>2, <2>1, <2>2, <2>3 DEF GTypes, GTurns, GPushHas, GPushIn, GPopIn
  <2>6. GMemory(s)'
    BY <1>1, <2>1, <2>3, <2>4, GSameMemory DEF GPushHas, GHeldPush, GHeldPop
  <2> QED  BY <1>2, <2>4, <2>5, <2>6 DEF GInv, Rs!Versions
<1>4. CASE Rs!UnlockPush
  <2>1. GTypes'
    BY <1>2, <1>4 DEF Rs!UnlockPush, GTypes, GPushHas
  <2>2. GTurns'
    BY <1>2, <1>4 DEF Rs!UnlockPush, GTypes, GTurns, GPushHas, GPushIn, GPopIn
  <2>3. GMemory(s)'
    BY <1>1, <1>2, <1>4, GSameMemory DEF Rs!UnlockPush, GPushHas, GHeldPush, GHeldPop
  <2> QED  BY <1>2, <2>1, <2>2, <2>3 DEF GInv, Rs!Versions
<1>5. CASE Rs!LockPop
  <2>1. d_pop_pc = "lock" /\ d_pop_pc' = "top" /\ (d_version = "single" => d_pushes = 0)
    BY <1>2, <1>5 DEF Rs!LockPop, Rs!Behind, Rs!MayPop
  <2>2. d_version = "synchronized" => d_lock = 0 /\ d_lock' = 1
    BY <1>5 DEF Rs!LockPop, Rs!LockTested, Rs!Locks
  <2>3. UNCHANGED <<d_top, d_next, d_allocated, d_pops, d_pushes, d_push_pc, d_push_e, d_pop_e, d_crashed>>
    BY <1>5 DEF Rs!LockPop
  <2>4. GTypes' /\ GPushHas' = GPushHas
    BY <1>2, <2>1, <2>3 DEF GTypes, GPushHas
  <2>5. GTurns'
    BY <1>2, <2>1, <2>2, <2>3 DEF GTypes, GTurns, GPushHas, GPushIn, GPopIn
  <2>6. GMemory(s)'
    BY <1>1, <2>1, <2>3, <2>4, GSameMemory DEF GPushHas, GHeldPush, GHeldPop
  <2> QED  BY <1>2, <2>4, <2>5, <2>6 DEF GInv, Rs!Versions
<1>6. CASE Rs!ReadTop
  <2>1. GTypes'
    BY <1>2, <1>6 DEF Rs!ReadTop, GTypes, GPushHas
  <2>2. GTurns'
    BY <1>2, <1>6 DEF Rs!ReadTop, GTypes, GTurns, GPushHas, GPushIn, GPopIn
  <2>3. GMemory(s)'
    BY <1>1, <1>2, <1>6, GSameMemory DEF Rs!ReadTop, GPushHas, GHeldPush, GHeldPop
  <2> QED  BY <1>2, <2>1, <2>2, <2>3 DEF GInv, Rs!Versions
<1>7. CASE Rs!UnlockPop
  <2>1. GTypes'
    BY <1>2, <1>7 DEF Rs!UnlockPop, GTypes, GPushHas
  <2>2. GTurns'
    BY <1>2, <1>7 DEF Rs!UnlockPop, GTypes, GTurns, GPushHas, GPushIn, GPopIn
  <2>3. GMemory(s)'
    BY <1>1, <1>2, <1>7, GSameMemory DEF Rs!UnlockPop, GPushHas, GHeldPush, GHeldPop
  <2> QED  BY <1>2, <2>1, <2>2, <2>3 DEF GInv, Rs!Versions
<1> QED  BY <1>3, <1>4, <1>5, <1>6, <1>7

LEMMA GLinks == ASSUME GInv, GSafe, Rs!Link  PROVE GInv'
<1>1. PICK s : GMemory(s)
  BY DEF GInv
<1>2. GTypes /\ GTurns /\ d_version \in Rs!Versions
  BY DEF GInv
<1>3. GPushHas /\ d_push_e \in Addresses /\ d_push_e \notin Elems(s)
  BY <1>1, <1>2 DEF Rs!Link, GPushHas, GHeldPush, GTypes, GMemory
<1>4. GTypes' /\ GTurns'
  BY <1>2, <1>3 DEF Rs!Link, GTypes, GTurns, GPushHas, GPushIn, GPopIn
<1>5. GMemory(s)'
  <2>1. GHeldPush' = GHeldPush /\ GHeldPop' = GHeldPop /\ GPushHas'
    BY <1>3 DEF Rs!Link, GPushHas, GHeldPush, GHeldPop
  <2>2. GStack(s, d_top, d_next')
    BY <1>1, <1>2, <1>3, GLink DEF Rs!Link, GMemory, GTypes
  <2>3. UNCHANGED <<d_top, d_allocated, d_pops, d_pushes>>
    BY DEF Rs!Link
  <2> QED  BY <1>1, <1>3, <2>1, <2>2, <2>3 DEF GMemory, Flag
<1> QED  BY <1>2, <1>4, <1>5 DEF GInv, GSafe, Rs!Link

LEMMA GSetTop == ASSUME GInv, GSafe, Rs!SetTop  PROVE GInv'
<1>1. PICK s : GMemory(s)
  BY DEF GInv
<1>2. GTypes /\ GTurns /\ d_version \in Rs!Versions
  BY DEF GInv
<1>3. GPushHas /\ d_push_e \in Addresses /\ d_push_e \notin Elems(s) /\ d_next[d_push_e] = d_top /\ d_pushes > 0
  BY <1>1, <1>2 DEF Rs!SetTop, GPushHas, GHeldPush, GTypes, GTurns, GMemory
<1>4. GTypes' /\ GTurns'
  <2>1. d_version \in {"single", "synchronized"} /\ d_version' = d_version
    BY <1>2 DEF GSafe, Rs!Versions, Rs!SetTop
  <2>2. /\ d_push_pc = "top" /\ d_push_pc' \in {"unlock", "malloc"} /\ d_top' = d_push_e /\ d_pushes' = d_pushes - 1
        /\ d_version = "single" => d_push_pc' = "malloc"
        /\ UNCHANGED <<d_next, d_lock, d_allocated, d_pops, d_pop_pc, d_push_e, d_pop_e, d_crashed>>
    BY <2>1 DEF Rs!SetTop, Rs!Locks
  <2>3. GTypes'
    BY <1>2, <1>3, <2>2 DEF GTypes, GPushHas
  <2>4. GTurns'
    BY <1>2, <1>3, <2>1, <2>2 DEF GTypes, GTurns, GPushHas, GPushIn, GPopIn
  <2> QED  BY <2>3, <2>4
<1>5. \E r : GMemory(r)'
  <2>1. GHeldPush = {d_push_e} /\ GHeldPush' = {} /\ GHeldPop' = GHeldPop /\ ~GPushHas'
    BY <1>3 DEF Rs!SetTop, GPushHas, GHeldPush, GHeldPop
  <2>2. /\ GStack(Append(s, d_push_e), d_push_e, d_next)
        /\ Elems(Append(s, d_push_e)) = Elems(s) \cup {d_push_e}
    BY <1>1, <1>3, GPush DEF GMemory
  <2>3. d_top' = d_push_e /\ UNCHANGED <<d_next, d_allocated, d_pops>> /\ d_pushes' = d_pushes - 1
    BY DEF Rs!SetTop
  <2>4. Cardinality(d_allocated) = (d_pops - d_pushes') + 0
    BY <1>1, <1>2, <1>3, <2>3 DEF GMemory, GTypes, Flag
  <2>5. d_push_e \notin GHeldPop
    BY <1>1, <2>1 DEF GMemory
  <2>6. GMemory(Append(s, d_push_e))'
    <3>1. Elems(Append(s, d_push_e)) \cap GHeldPop = {}
      BY <1>1, <2>2, <2>5 DEF GMemory
    <3>2. d_allocated = Elems(Append(s, d_push_e)) \cup GHeldPop
      BY <1>1, <2>1, <2>2 DEF GMemory
    <3>3. d_push_pc' \notin {"lock", "link", "top"}
      BY <2>1 DEF GPushHas
    <3> QED
      <4> DEFINE r == Append(s, d_push_e)
      <4>1. GStack(r, d_top', d_next')
        BY <2>2, <2>3
      <4> SUFFICES /\ GStack(r, d_top', d_next')
                   /\ d_allocated' = Elems(r) \cup (GHeldPush' \cup GHeldPop')
                   /\ Elems(r) \cap GHeldPush' = {} /\ Elems(r) \cap GHeldPop' = {}
                   /\ GHeldPush' \cap GHeldPop' = {}
                   /\ Cardinality(d_allocated') = (d_pops' - d_pushes') + Flag(GPushHas')
        BY <2>3 DEF GMemory, Rs!SetTop
      <4> HIDE DEF r
      <4> QED  BY <2>1, <2>3, <2>4, <3>1, <3>2, <4>1 DEF Flag, r
  <2> QED  BY <2>6
<1> QED  BY <1>2, <1>4, <1>5 DEF GInv, GSafe, Rs!SetTop

LEMMA GTakeTop == ASSUME GInv, GSafe, Rs!TakeTop  PROVE GInv'
<1>1. PICK s : GMemory(s)
  BY DEF GInv
<1>2. GTypes /\ GTurns /\ d_version \in {"single", "synchronized"} /\ d_version' = d_version
  BY DEF GInv, GSafe, Rs!Versions, Rs!TakeTop
<1>3. d_pop_e = d_top /\ ~GPushIn
  BY <1>2 DEF Rs!TakeTop, GTurns, GPopIn
<1>4. d_top # 0 => /\ d_top \in Elems(s) /\ d_top \in d_allocated /\ d_top \in Addresses
                   /\ \E r : GStack(r, d_next[d_top], d_next) /\ Elems(r) = Elems(s) \ {d_top}
  BY <1>1, <1>2, GPop DEF GMemory, GTypes
<1>5. GTypes' /\ GTurns'
  BY <1>2, <1>3, <1>4 DEF Rs!TakeTop, Rs!NULL, Rs!Locks, GTypes, GTurns, GPushHas, GPushIn, GPopIn
<1>6. /\ GHeldPush' = GHeldPush /\ GPushHas' = GPushHas /\ GHeldPop = {}
      /\ GHeldPop' = IF d_top = 0 THEN {} ELSE {d_top}
      /\ UNCHANGED <<d_next, d_allocated, d_pops, d_pushes>>
  BY <1>2, <1>3 DEF Rs!TakeTop, Rs!Locks, GHeldPush, GHeldPop, GPushHas
<1>7. CASE d_top = 0
  <2>1. d_top' = d_top
    BY <1>7 DEF Rs!TakeTop, Rs!NULL
  <2> QED  BY <1>1, <1>2, <1>5, <1>6, <1>7, <2>1, GSameMemory DEF GInv, Rs!Versions
<1>8. CASE d_top # 0
  <2>1. PICK r : GStack(r, d_next[d_top], d_next) /\ Elems(r) = Elems(s) \ {d_top}
    BY <1>4, <1>8
  <2>2. d_top' = d_next[d_top]
    BY <1>8 DEF Rs!TakeTop, Rs!NULL
  <2>3. GHeldPop' = {d_top} /\ d_top \notin GHeldPush /\ d_top \in Elems(s)
    BY <1>1, <1>4, <1>6, <1>8 DEF GMemory
  <2>4. GMemory(r)'
    <3>1. d_allocated = Elems(r) \cup (GHeldPush \cup {d_top})
      BY <1>1, <1>6, <2>1, <2>3 DEF GMemory
    <3>2. Elems(r) \cap GHeldPush = {} /\ Elems(r) \cap {d_top} = {} /\ GHeldPush \cap {d_top} = {}
      BY <1>1, <2>1, <2>3 DEF GMemory
    <3>3. GStack(r, d_top', d_next')
      BY <1>6, <2>1, <2>2
    <3>4. Cardinality(d_allocated) = (d_pops - d_pushes) + Flag(GPushHas)
      BY <1>1 DEF GMemory
    <3> QED  BY <1>6, <2>3, <3>1, <3>2, <3>3, <3>4 DEF GMemory
  <2> QED  BY <1>2, <1>5, <2>4 DEF GInv, Rs!Versions
<1> QED  BY <1>7, <1>8

LEMMA GFree == ASSUME GInv, GSafe, Rs!Free  PROVE GInv'
<1>1. PICK s : GMemory(s)
  BY DEF GInv
<1>2. GTypes /\ GTurns /\ d_version \in Rs!Versions /\ d_version' = d_version
  BY DEF GInv, Rs!Free
<1>3. /\ GHeldPush' = GHeldPush /\ GPushHas' = GPushHas /\ GHeldPop' = {}
      /\ GHeldPop = IF d_pop_e = 0 THEN {} ELSE {d_pop_e}
      /\ UNCHANGED <<d_top, d_next, d_pushes>>
  BY DEF Rs!Free, GHeldPush, GHeldPop, GPushHas
<1>4. CASE d_pop_e = 0
  <2>1. UNCHANGED <<d_allocated, d_pops, d_crashed>> /\ GHeldPop' = GHeldPop
    BY <1>3, <1>4 DEF Rs!Free, Rs!NULL
  <2>2. GMemory(s)'
    BY <1>1, <1>3, <2>1, GSameMemory
  <2>3. GTypes' /\ GTurns'
    BY <1>2, <2>1 DEF Rs!Free, GTypes, GTurns, GPushHas, GPushIn, GPopIn
  <2> QED  BY <1>2, <2>2, <2>3 DEF GInv
<1>5. CASE d_pop_e # 0
  <2>1. /\ d_pops' = d_pops - 1 /\ d_allocated' = d_allocated \ {d_pop_e}
        /\ d_crashed' = (d_pop_e \notin d_allocated)
    BY <1>5 DEF Rs!Free, Rs!NULL
  <2>2. d_pop_e \in d_allocated /\ d_pop_e \notin Elems(s) /\ d_pop_e \notin GHeldPush /\ GHeldPop = {d_pop_e}
    BY <1>1, <1>3, <1>5 DEF GMemory
  <2>3. GTypes' /\ GTurns'
    <3>1. GTypes'
      <4>1. ~d_crashed'
        BY <2>1, <2>2, Zenon
      <4>2. d_allocated' \subseteq Addresses
        BY <1>2, <2>1 DEF GTypes
      <4>3. d_pops' \in Int
        BY <1>2, <2>1 DEF GTypes
      <4> QED  BY <1>2, <4>1, <4>2, <4>3 DEF Rs!Free, GTypes, GPushHas
    <3>2. GTurns'
      BY <1>2, <2>1 DEF Rs!Free, GTypes, GTurns, GPushHas, GPushIn, GPopIn
    <3> QED  BY <3>1, <3>2
  <2>4. Cardinality(d_allocated') = (d_pops' - d_pushes) + Flag(GPushHas)
    <3>1. Cardinality(d_allocated') = Cardinality(d_allocated) - 1 /\ Cardinality(d_allocated) \in Nat
      BY <1>2, <2>1, <2>2, GFinite DEF GTypes
    <3>2. Cardinality(d_allocated) = (d_pops - d_pushes) + Flag(GPushHas) /\ Flag(GPushHas) \in Int
      BY <1>1 DEF GMemory, Flag
    <3> QED  BY <1>2, <2>1, <3>1, <3>2 DEF GTypes
  <2>5. GMemory(s)'
    <3>1. d_allocated' = Elems(s) \cup (GHeldPush \cup {})
      BY <1>1, <2>1, <2>2 DEF GMemory
    <3>2. GStack(s, d_top', d_next')
      BY <1>1, <1>3 DEF GMemory
    <3>3. Elems(s) \cap GHeldPush' = {} /\ Elems(s) \cap GHeldPop' = {} /\ GHeldPush' \cap GHeldPop' = {}
      BY <1>1, <1>3 DEF GMemory
    <3>4. d_allocated' = Elems(s) \cup (GHeldPush' \cup GHeldPop')
      BY <1>3, <3>1
    <3>5. Cardinality(d_allocated') = (d_pops' - d_pushes') + Flag(GPushHas')
      BY <1>3, <2>4
    <3> QED  BY <3>2, <3>3, <3>4, <3>5 DEF GMemory
  <2> QED  BY <1>2, <2>3, <2>5 DEF GInv
<1> QED  BY <1>4, <1>5

LEMMA GStep == ASSUME GInv, Rs!Next \/ UNCHANGED Rsvars  PROVE GInv'
<1>1. CASE UNCHANGED Rsvars
  <2>1. /\ GPushHas' = GPushHas /\ GPushIn' = GPushIn /\ GPopIn' = GPopIn
        /\ GHeldPush' = GHeldPush /\ GHeldPop' = GHeldPop /\ GSafe' = GSafe
    BY <1>1 DEF Rsvars, GPushHas, GPushIn, GPopIn, GHeldPush, GHeldPop, GSafe
  <2>2. (GTypes' <=> GTypes) /\ (GTurns' <=> GTurns)
    BY <1>1, <2>1 DEF Rsvars, GTypes, GTurns
  <2>3. \A s : GMemory(s) => GMemory(s)'
    BY <1>1, <2>1, GSameMemory DEF Rsvars
  <2>4. d_version' = d_version
    BY <1>1 DEF Rsvars
  <2> QED  BY <2>1, <2>2, <2>3, <2>4 DEF GInv, Rs!Versions
<1>2. CASE Rs!Next
  <2>1. d_version' = d_version
    BY <1>2 DEF Rs!Next, Rs!Pusher, Rs!Popper, Rs!Malloc, Rs!LockPush, Rs!SetPush, Rs!Link, Rs!SetTop,
       Rs!UnlockPush, Rs!LockPop, Rs!SetPop, Rs!ReadTop, Rs!TakeTop, Rs!UnlockPop, Rs!Free
  <2>2. CASE ~GSafe
    BY <2>1, <2>2 DEF GInv, GSafe
  <2>3. CASE GSafe
    <3>1. ~Rs!SetPush /\ ~Rs!SetPop
      BY <2>3 DEF GInv, GTypes, Rs!SetPush, Rs!SetPop
    <3> QED  BY <1>2, <2>3, <3>1, GMalloc, GInOut, GLinks, GSetTop, GTakeTop, GFree
             DEF Rs!Next, Rs!Pusher, Rs!Popper
  <2> QED  BY <2>2, <2>3
<1> QED  BY <1>1, <1>2

LEMMA GStackIntact == GInv => Rs!StackIntact
<1> SUFFICES ASSUME GInv, GSafe  PROVE Rs!StackIntact
  BY DEF Rs!StackIntact, GSafe
<1>1. PICK s : GMemory(s)
  BY DEF GInv
<1>2. GTypes /\ GTurns
  BY DEF GInv
<1>3. Rs!Stacked = Elems(s)
  BY <1>1, GStacked DEF GMemory
<1>4. Rs!Cardinality(d_allocated) = Cardinality(d_allocated)
  BY DEF Rs!Cardinality, Cardinality
<1>5. ASSUME d_push_pc = "malloc", d_pop_pc = "lock"
      PROVE  Rs!Stacked = d_allocated /\ Rs!Cardinality(d_allocated) = d_pops - d_pushes
  BY <1>1, <1>2, <1>3, <1>4, <1>5 DEF GMemory, GTypes, GHeldPush, GHeldPop, GPushHas, Flag
<1>6. ASSUME Rs!AllDone  PROVE d_top = 0
  <2>1. ~GPushHas /\ Cardinality(d_allocated) = 0
    BY <1>1, <1>2, <1>6 DEF Rs!AllDone, GMemory, GTypes, GTurns, Flag
  <2>2. Elems(s) = {}
    BY <1>1, <1>2, <2>1, GFinite DEF GMemory, GTypes
  <2> QED  BY <1>1, <2>2, FS_EmptySet DEF GMemory, GStack
<1> QED  BY <1>2, <1>5, <1>6 DEF Rs!StackIntact, Rs!NULL, GTypes

-----------------------------------------------------------------------------
(* sor.c                                                                   *)

\* The cell that is next in the square of a thread.
LEMMA MFirst ==
    ASSUME NEW t \in Sr!Threads, m_todo[t] \subseteq Sr!Cells, m_todo[t] # {}
    PROVE  Sr!First(t) \in m_todo[t]
<1> DEFINE D == m_todo[t]
           N == MatrixSize
           A == {c[1] * N + c[2] : c \in D}
<1>1. \A c \in D : c[1] \in Nat /\ c[2] \in Nat /\ c[1] * N + c[2] \in Nat
  BY SorAssumption DEF Sr!Cells
<1>2. PICK a \in A : \A b \in A : a <= b
  BY <1>1, LeastElement
<1>3. \E c \in D : \A d \in D : c[1] * N + c[2] <= d[1] * N + d[2]
  BY <1>2
<1> QED  BY <1>3 DEF Sr!First

LEMMA MShare == ASSUME NEW x \in Nat, NEW y \in Nat \ {0}  PROVE (y * x) \div y = x
<1> DEFINE q == (y * x) \div y
           r == (y * x) % y
<1>1. y * x \in Nat
  OBVIOUS
<1>2. q \in Int /\ r \in 0..(y - 1) /\ y * x = y * q + r
  BY <1>1
<1>3. y * (x - q) = r
  BY <1>2
<1>4. x - q <= 0
  BY <1>2, <1>3
<1>5. x - q >= 0
  BY <1>2, <1>3
<1> QED  BY <1>2, <1>4, <1>5

\* The squares of the threads leave no cell out, whether or not tpr divides N.
LEMMA MCovered ==
    ASSUME NEW c \in Sr!Cells
    PROVE  \E t \in Sr!Threads : c \in Sr!Square(t)
<1> DEFINE N == MatrixSize
           Start(a) == (a * N) \div tpr
<1>1. c[1] \in 0..(N - 1) /\ c[2] \in 0..(N - 1) /\ N \in Nat /\ tpr \in Nat \ {0}
  BY SorAssumption DEF Sr!Cells
<1>2. Start(0) = 0 /\ Start(tpr) = N /\ \A a \in Nat : Start(a) \in Nat
  BY <1>1, MShare
<1>3. ASSUME NEW x \in 0..(N - 1)
      PROVE  \E a \in 0..(tpr - 1) : x \in Start(a)..(Start(a + 1) - 1)
  <2> HIDE DEF Start, N
  <2> DEFINE A == {a \in Nat : x < Start(a + 1)}
  <2>1. tpr - 1 \in A
    BY <1>1, <1>2, <1>3
  <2>2. PICK a \in A : \A b \in A : a <= b
    BY <2>1, LeastElement
  <2>3. a \in 0..(tpr - 1) /\ x < Start(a + 1) /\ Start(a) \in Nat /\ Start(a + 1) \in Nat
    <3>1. a \in Nat /\ x < Start(a + 1) /\ a <= tpr - 1
      BY <2>1, <2>2
    <3>2. a + 1 \in Nat
      BY <3>1
    <3> HIDE DEF A
    <3> QED  BY <1>1, <1>2, <3>1, <3>2
  <2>4. Start(a) <= x
    <3>1. CASE a = 0
      BY <1>2, <1>3, <3>1
    <3>2. CASE a # 0
      <4>1. a - 1 \in Nat /\ a - 1 \notin A /\ (a - 1) + 1 = a
        BY <2>2, <2>3, <3>2
      <4> QED  BY <1>1, <1>3, <2>3, <4>1
    <3> QED  BY <3>1, <3>2
  <2> QED  BY <1>1, <2>3, <2>4
<1>4. PICK a \in 0..(tpr - 1) : c[1] \in Start(a)..(Start(a + 1) - 1)
  BY <1>1, <1>3
<1>5. PICK b \in 0..(tpr - 1) : c[2] \in Start(b)..(Start(b + 1) - 1)
  BY <1>1, <1>3
<1>6. <<a, b>> \in Sr!Threads /\ c \in Sr!Square(<<a, b>>)
  BY <1>4, <1>5 DEF Sr!Threads, Sr!Square
<1> QED  BY <1>6

\* The control case is defined for every number of relaxations.
MControl(k) == Sr!control_matrix[k]

LEMMA MControlled ==
    /\ MControl(0) = Sr!initial_values
    /\ \A k \in 1..Relaxations : MControl(k) = [c \in Sr!Cells |-> Sr!Relaxed(MControl(k - 1), c)]
<1> DEFINE Body(f, k) == IF k = 0 THEN Sr!initial_values ELSE [c \in Sr!Cells |-> Sr!Relaxed(f[k - 1], c)]
           Defined(n) == \E f : f = [k \in 0..n |-> Body(f, k)]
           A == {n \in Nat : ~Defined(n)}
<1>1. Defined(0)
  <2> DEFINE f == [k \in 0..0 |-> Sr!initial_values]
  <2>1. f = [k \in 0..0 |-> Body(f, k)]
    OBVIOUS
  <2> QED  BY <2>1
<1>2. ASSUME NEW n \in Nat, Defined(n)  PROVE Defined(n + 1)
  <2>1. PICK f : f = [k \in 0..n |-> Body(f, k)]
    BY <1>2
  <2> DEFINE g == [k \in 0..(n + 1) |-> IF k = n + 1 THEN [c \in Sr!Cells |-> Sr!Relaxed(f[n], c)] ELSE f[k]]
  <2>2. ASSUME NEW k \in 0..(n + 1)  PROVE g[k] = Body(g, k)
    <3>1. CASE k = n + 1
      <4>1. g[k - 1] = f[n] /\ k # 0
        BY <3>1
      <4> QED  BY <3>1, <4>1
    <3>2. CASE k # n + 1
      <4>1. k \in 0..n /\ g[k] = f[k]
        BY <3>2
      <4>2. f[k] = Body(f, k)
        <5> HIDE DEF Body
        <5> QED  BY <2>1, <4>1
      <4>3. k # 0 => g[k - 1] = f[k - 1]
        BY <4>1
      <4> HIDE DEF g
      <4> QED  BY <4>1, <4>2, <4>3
    <3> QED  BY <3>1, <3>2
  <2>3. g = [k \in 0..(n + 1) |-> Body(g, k)]
    BY <2>2
  <2> QED  BY <2>3
<1>3. \A n \in Nat : Defined(n)
  <2> HIDE DEF Defined
  <2> SUFFICES ASSUME A # {}  PROVE FALSE
    OBVIOUS
  <2>1. PICK n \in A : \A m \in A : n <= m
    BY LeastElement
  <2>2. n # 0 /\ n - 1 \in Nat /\ n - 1 \notin A /\ (n - 1) + 1 = n
    BY <1>1, <2>1
  <2> QED  BY <1>2, <2>1, <2>2
<1>4. Sr!control_matrix = [k \in 0..Relaxations |-> Body(Sr!control_matrix, k)]
  <2>1. Defined(Relaxations)
    BY <1>3, SorAssumption
  <2> QED  BY <2>1 DEF Sr!control_matrix
<1>5. ASSUME NEW k \in 0..Relaxations  PROVE MControl(k) = Body(Sr!control_matrix, k)
  <2> HIDE DEF Body
  <2> QED  BY <1>4 DEF MControl
<1>6. 0 \in 0..Relaxations /\ \A k \in 1..Relaxations : k \in 0..Relaxations /\ k # 0
  BY SorAssumption
<1> QED  BY <1>5, <1>6 DEF MControl

\* All threads are in the same iteration k and on the same side of its barrier: in
\* the squares the matrix, or the other one, is what the control case makes of it.
MRelaxing(k) ==
    /\ k < Relaxations /\ m_matrix = MControl(k)
    /\ \A t \in Sr!Threads : \A c \in Sr!Square(t) \ m_todo[t] : m_temp_matrix[c] = MControl(k + 1)[c]
MCopying(k) ==
    /\ k < Relaxations /\ \A c \in Sr!Cells : m_temp_matrix[c] = MControl(k + 1)[c]
    /\ \A t \in Sr!Threads : \A c \in Sr!Square(t) \ m_todo[t] : m_matrix[c] = MControl(k + 1)[c]
MOver(k) == k = Relaxations /\ m_matrix = MControl(k)

MAt(k, place) ==
    /\ m_phase = [t \in Sr!Threads |-> place] /\ m_i = [t \in Sr!Threads |-> k]
    /\ \/ place = "relax" /\ MRelaxing(k)
       \/ place = "copy" /\ MCopying(k)
       \/ place = "done" /\ MOver(k)

MTypes ==
    /\ m_matrix = [c \in Sr!Cells |-> m_matrix[c]]
    /\ m_temp_matrix = [c \in Sr!Cells |-> m_temp_matrix[c]]
    /\ m_todo \in [Sr!Threads -> SUBSET Sr!Cells]
    /\ m_arrived \subseteq Sr!Threads
    /\ \A t \in m_arrived : m_todo[t] = {}

MInv == MTypes /\ \E k \in 0..Relaxations, place \in {"relax", "copy", "done"} : MAt(k, place)

LEMMA MInit == Sr!Init => MInv
<1> SUFFICES ASSUME Sr!Init  PROVE MInv
  OBVIOUS
<1>1. MTypes
  BY DEF Sr!Init, MTypes, Sr!Square, Sr!initial_values
<1>2. MAt(0, "relax")
  BY MControlled, SorAssumption DEF Sr!Init, MAt, MRelaxing
<1>3. 0 \in 0..Relaxations
  BY SorAssumption
<1> QED  BY <1>1, <1>2, <1>3 DEF MInv

\* A thread writes the next cell of its square.
LEMMA MRelaxes == ASSUME MInv, NEW t \in Sr!Threads, Sr!relax_one_step(t)  PROVE MInv'
<1> DEFINE c == Sr!First(t)
<1>1. PICK k \in 0..Relaxations, place \in {"relax", "copy", "done"} : MAt(k, place)
  BY DEF MInv
<1>2. m_phase[t] = "relax" /\ place = "relax" /\ MRelaxing(k)
  BY <1>1 DEF Sr!relax_one_step, MAt
<1>3. /\ m_todo[t] # {} /\ c \in m_todo[t] /\ c \in Sr!Cells
      /\ m_temp_matrix' = [m_temp_matrix EXCEPT ![c] = Sr!Relaxed(m_matrix, c)]
      /\ m_todo' = [m_todo EXCEPT ![t] = m_todo[t] \ {c}]
      /\ UNCHANGED <<m_matrix, m_phase, m_i, m_arrived>>
  BY MFirst DEF Sr!relax_one_step, MInv, MTypes
<1>4. Sr!Relaxed(m_matrix, c) = MControl(k + 1)[c]
  <2>1. k + 1 \in 1..Relaxations /\ (k + 1) - 1 = k
    BY <1>2, SorAssumption DEF MRelaxing
  <2>2. MControl(k + 1) = [d \in Sr!Cells |-> Sr!Relaxed(MControl(k), d)]
    BY <2>1, MControlled
  <2> QED  BY <1>2, <1>3, <2>2 DEF MRelaxing
<1> HIDE DEF c
<1>5. MTypes'
  BY <1>3 DEF MInv, MTypes
<1>6. ASSUME NEW u \in Sr!Threads, NEW d \in Sr!Square(u) \ m_todo'[u]
      PROVE  m_temp_matrix'[d] = MControl(k + 1)[d]
  <2>1. d \in Sr!Cells /\ DOMAIN m_temp_matrix = Sr!Cells /\ m_todo \in [Sr!Threads -> SUBSET Sr!Cells]
    BY DEF Sr!Square, MInv, MTypes
  <2>2. d # c => d \notin m_todo[u]
    BY <1>3, <1>6, <2>1
  <2> QED  BY <1>2, <1>3, <1>4, <2>1, <2>2 DEF MRelaxing
<1>7. MRelaxing(k)'
  BY <1>2, <1>3, <1>6 DEF MRelaxing, MControl
<1>8. MAt(k, "relax")'
  BY <1>1, <1>2, <1>3, <1>7 DEF MAt
<1> QED  BY <1>5, <1>8 DEF MInv

LEMMA MCopies == ASSUME MInv, NEW t \in Sr!Threads, Sr!matrix_copy(t)  PROVE MInv'
<1> DEFINE c == Sr!First(t)
<1>1. PICK k \in 0..Relaxations, place \in {"relax", "copy", "done"} : MAt(k, place)
  BY DEF MInv
<1>2. m_phase[t] = "copy" /\ place = "copy" /\ MCopying(k)
  BY <1>1 DEF Sr!matrix_copy, MAt
<1>3. /\ m_todo[t] # {} /\ c \in m_todo[t] /\ c \in Sr!Cells
      /\ m_matrix' = [m_matrix EXCEPT ![c] = m_temp_matrix[c]]
      /\ m_todo' = [m_todo EXCEPT ![t] = m_todo[t] \ {c}]
      /\ UNCHANGED <<m_temp_matrix, m_phase, m_i, m_arrived>>
  BY MFirst DEF Sr!matrix_copy, MInv, MTypes
<1>4. m_temp_matrix[c] = MControl(k + 1)[c]
  BY <1>2, <1>3 DEF MCopying
<1> HIDE DEF c
<1>5. MTypes'
  BY <1>3 DEF MInv, MTypes
<1>6. ASSUME NEW u \in Sr!Threads, NEW d \in Sr!Square(u) \ m_todo'[u]
      PROVE  m_matrix'[d] = MControl(k + 1)[d]
  <2>1. d \in Sr!Cells /\ DOMAIN m_matrix = Sr!Cells /\ m_todo \in [Sr!Threads -> SUBSET Sr!Cells]
    BY DEF Sr!Square, MInv, MTypes
  <2>2. d # c => d \notin m_todo[u]
    BY <1>3, <1>6, <2>1
  <2> QED  BY <1>2, <1>3, <1>4, <2>1, <2>2 DEF MCopying
<1>7. MCopying(k)'
  BY <1>2, <1>3, <1>6 DEF MCopying, MControl
<1>8. MAt(k, "copy")'
  BY <1>1, <1>2, <1>3, <1>7 DEF MAt
<1> QED  BY <1>5, <1>8 DEF MInv

\* When the last thread arrives the squares of all are done, so that the matrix is.
LEMMA MArrives == ASSUME MInv, NEW t \in Sr!Threads, Sr!uthread_barrier_arrive(t)  PROVE MInv'
<1>1. PICK k \in 0..Relaxations, place \in {"relax", "copy", "done"} : MAt(k, place)
  BY DEF MInv
<1>2. /\ m_phase = [u \in Sr!Threads |-> place] /\ m_i = [u \in Sr!Threads |-> k]
      /\ place # "done" /\ m_todo[t] = {} /\ UNCHANGED <<m_matrix, m_temp_matrix>>
  BY <1>1 DEF Sr!uthread_barrier_arrive, MAt
<1>3. CASE m_arrived \cup {t} # Sr!Threads
  <2>1. m_arrived' = m_arrived \cup {t} /\ UNCHANGED <<m_todo, m_phase, m_i>>
    BY <1>3 DEF Sr!uthread_barrier_arrive
  <2>2. MTypes'
    BY <1>2, <2>1 DEF MInv, MTypes
  <2>3. MAt(k, place)'
    BY <1>1, <1>2, <2>1 DEF MAt, MRelaxing, MCopying, MOver, MControl
  <2> QED  BY <2>2, <2>3 DEF MInv
<1>4. CASE m_arrived \cup {t} = Sr!Threads
  <2>1. m_arrived' = {} /\ Sr!Proceed(Sr!Threads)
    BY <1>4 DEF Sr!uthread_barrier_arrive
  <2>2. \A u \in Sr!Threads : m_todo[u] = {}
    BY <1>2, <1>4 DEF MInv, MTypes
  <2>3. m_todo' = [u \in Sr!Threads |-> Sr!Square(u)]
    BY <2>1 DEF Sr!Proceed
  <2>4. MTypes'
    BY <1>2, <2>1, <2>3 DEF MInv, MTypes, Sr!Square
  <2>5. k + 1 \in 1..Relaxations /\ (k + 1) - 1 = k /\ k + 1 \in 0..Relaxations
    BY <1>1, <1>2, SorAssumption DEF MAt, MRelaxing, MCopying
  <2>6. \A u \in Sr!Threads : \A c \in Sr!Square(u) \ m_todo'[u] : FALSE
    BY <2>3
  <2>7. CASE place = "relax"
    <3>1. MRelaxing(k)
      BY <1>1, <2>7 DEF MAt
    <3>2. \A c \in Sr!Cells : m_temp_matrix[c] = MControl(k + 1)[c]
      BY <2>2, <3>1, MCovered DEF MRelaxing
    <3>3. MCopying(k)'
      BY <1>2, <2>6, <3>1, <3>2 DEF MRelaxing, MCopying, MControl
    <3>4. m_phase' = [u \in Sr!Threads |-> "copy"] /\ m_i' = [u \in Sr!Threads |-> k]
      BY <1>2, <2>1, <2>7 DEF Sr!Proceed
    <3> QED  BY <2>4, <3>3, <3>4 DEF MInv, MAt
  <2>8. CASE place = "copy"
    <3>1. MCopying(k)
      BY <1>1, <2>8 DEF MAt
    <3>2. \A c \in Sr!Cells : m_matrix[c] = MControl(k + 1)[c]
      BY <2>2, <3>1, MCovered DEF MCopying
    <3>3. m_matrix = MControl(k + 1)
      <4>1. MControl(k + 1) = [c \in Sr!Cells |-> Sr!Relaxed(MControl(k), c)]
        BY <2>5, MControlled
      <4>2. m_matrix = [c \in Sr!Cells |-> m_matrix[c]]
        BY DEF MInv, MTypes
      <4>3. \A c \in Sr!Cells : m_matrix[c] = Sr!Relaxed(MControl(k), c)
        BY <3>2, <4>1
      <4> QED  BY <4>1, <4>2, <4>3
    <3>4. m_i' = [u \in Sr!Threads |-> k + 1]
      BY <1>2, <2>1, <2>8 DEF Sr!Proceed
    <3>5. m_phase' = [u \in Sr!Threads |-> IF k + 1 < Relaxations THEN "relax" ELSE "done"]
      BY <1>2, <2>1, <2>8 DEF Sr!Proceed
    <3>6. CASE k + 1 < Relaxations
      <4>1. MRelaxing(k + 1)'
        BY <1>2, <2>6, <3>3, <3>6 DEF MRelaxing, MControl
      <4> QED  BY <2>4, <2>5, <3>4, <3>5, <3>6, <4>1 DEF MInv, MAt
    <3>7. CASE ~(k + 1 < Relaxations)
      <4>1. MOver(k + 1)'
        BY <1>2, <2>5, <3>3, <3>7, SorAssumption DEF MOver, MControl
      <4> QED  BY <2>4, <2>5, <3>4, <3>5, <3>7, <4>1 DEF MInv, MAt
    <3> QED  BY <3>6, <3>7
  <2> QED  BY <1>2, <2>7, <2>8
<1> QED  BY <1>3, <1>4

LEMMA MStep == ASSUME MInv, Sr!Next \/ UNCHANGED Srvars  PROVE MInv'
<1>1. CASE UNCHANGED Srvars
  <2>1. PICK k \in 0..Relaxations, place \in {"relax", "copy", "done"} : MAt(k, place)
    BY DEF MInv
  <2>2. MTypes' /\ MAt(k, place)'
    BY <1>1, <2>1 DEF Srvars, MInv, MTypes, MAt, MRelaxing, MCopying, MOver, MControl
  <2> QED  BY <2>2 DEF MInv
<1>2. CASE Sr!Next
  BY <1>2, MRelaxes, MCopies, MArrives DEF Sr!Next, Sr!Step
<1> QED  BY <1>1, <1>2

LEMMA MSameAsSequential == MInv => Sr!SameAsSequential
BY DEF MInv, MAt, MRelaxing, MOver, MControl, Sr!SameAsSequential

-----------------------------------------------------------------------------
(* What is counted stays within its bounds.                                *)

LEMMA SubsetBounds ==
    ASSUME NEW S, IsFiniteSet(S), NEW A, A \subseteq S
    PROVE  Cardinality(A) \in 0..Cardinality(S)
BY FS_Subset, FS_CardinalityType

LEMMA TTypeOK == TInv => T!TypeOK
<1> SUFFICES ASSUME TInv  PROVE T!TypeOK
  OBVIOUS
<1>1. T!InStreet \subseteq Cars /\ \A g \in T!Directions : TActive(g) \subseteq Cars
  BY DEF T!InStreet, TActive
<1>2. /\ Cardinality(T!InStreet) \in 0..Cardinality(Cars)
      /\ \A g \in T!Directions : Cardinality(TActive(g)) \in 0..Cardinality(Cars)
      /\ T!Cardinality(Cars) = Cardinality(Cars)
  BY <1>1, SubsetBounds, SameCardinality, CarsAssumption
<1>3. t_count \in 0..MaxOccupancy
  BY <1>2, CarsAssumption DEF TInv, TStreet
<1>4. t_active \in [T!Directions -> 0..Cardinality(Cars)]
  BY <1>2 DEF TInv, TCounts
<1> QED  BY <1>2, <1>3, <1>4 DEF TInv, TTypes, T!TypeOK

LEMMA STypeOK == SInv => TS!TypeOK
<1> SUFFICES ASSUME SInv  PROVE TS!TypeOK
  OBVIOUS
<1> DEFINE N == Cardinality(Cars)
<1>1. /\ SInStreet \subseteq Cars
      /\ \A g \in TS!Directions : SActive(g) \subseteq Cars /\ SWaiting(g) \subseteq Cars /\ SCrossing(g) \subseteq Cars
  BY DEF SInStreet, SActive, SWaiting, SCrossing
<1>2. /\ Cardinality(SInStreet) \in 0..N
      /\ \A g \in TS!Directions : /\ Cardinality(SActive(g)) \in 0..N /\ Cardinality(SWaiting(g)) \in 0..N
                                  /\ Cardinality(SCrossing(g)) \in 0..N
  BY <1>1, SubsetBounds, CarsAssumption
<1>3. TS!Cardinality(Cars) = N
  BY SameCardinality
<1> HIDE DEF N
<1>4. /\ s_count \in 0..N /\ s_inStreet \in [TS!Directions -> 0..N]
      /\ s_numWaiting \in [TS!Directions -> 0..N] /\ s_active \in [TS!Directions -> 0..N]
  BY <1>2 DEF SInv, SCounts
<1> QED  BY <1>3, <1>4 DEF SInv, STypes, TS!TypeOK

LEMMA KTypeOK == KInv => Sm!TypeOK
<1> SUFFICES ASSUME KInv  PROVE Sm!TypeOK
  OBVIOUS
<1>1. k_num_active_threads \in 0..3
  <2>1. KPresent \subseteq Sm!Resource
    BY DEF KPresent
  <2>2. Cardinality(KPresent) \in 0..3
    BY <2>1, SubsetBounds, KResources
  <2> QED  BY <2>2 DEF KInv, KSmokers
<1>2. k_offered \in 0..Rounds /\ Rounds \in Nat
  BY RoundsAssumption DEF KInv, KTypes
<1>3. k_signal_count \in [Sm!Resource -> 0..Rounds]
  BY <1>2 DEF KInv, KTypes
<1>4. ASSUME NEW r \in Sm!Resource  PROVE k_smoke_count[r] <= k_signal_count[r]
  <2>1. k_smoke_count \in [Sm!Resource -> Nat]
    BY DEF KInv, KTypes
  <2>2. k_smoke_count = k_signal_count \/ \E m \in Sm!Resource : KOpen(m)
    BY DEF KInv, KTurn, KIdle, KNoting, KSmoking, KSmoked
  <2>3. CASE k_smoke_count = k_signal_count
    BY <2>1, <2>3
  <2>4. CASE \E m \in Sm!Resource : KOpen(m)
    <3>1. PICK m \in Sm!Resource : k_signal_count = [k_smoke_count EXCEPT ![m] = @ + 1]
      BY <2>4 DEF KOpen
    <3> QED  BY <2>1, <3>1
  <2> QED  BY <2>2, <2>3, <2>4
<1>5. k_smoke_count \in [Sm!Resource -> 0..Rounds]
  <2>1. k_smoke_count \in [Sm!Resource -> Nat]
    BY DEF KInv, KTypes
  <2>2. \A r \in Sm!Resource : k_smoke_count[r] \in 0..Rounds
    BY <1>2, <1>3, <1>4, <2>1
  <2> QED  BY <2>1, <2>2
<1> QED  BY <1>1, <1>2, <1>3, <1>5 DEF KInv, KTypes, Sm!TypeOK

LEMMA RTypeOK == RInv => Rv!TypeOK
<1>1. Rv!NUM_THREADS = Cardinality(Meeting)
  BY SameCardinality DEF Rv!NUM_THREADS
<1> QED  BY <1>1, RCounts DEF RInv, Rv!TypeOK

-----------------------------------------------------------------------------
(* All programs together.                                                  *)

\* A step moves one program at most.
LEMMA OnlyOneRuns ==
    ASSUME ProgramsNext \/ UNCHANGED programsVars
    PROVE  /\ T!Next \/ UNCHANGED Tvars
           /\ TS!Next \/ UNCHANGED TSvars
           /\ Sm!Next \/ UNCHANGED Smvars
           /\ Next \/ UNCHANGED vars
           /\ BB!Next \/ UNCHANGED BBvars
           /\ Po!Next \/ UNCHANGED Povars
           /\ Rv!Next \/ UNCHANGED Rvvars
           /\ Ha!Next \/ UNCHANGED Havars
           /\ Rs!Next \/ UNCHANGED Rsvars
           /\ Sr!Next \/ UNCHANGED Srvars
<1>1. CASE UNCHANGED programsVars
  BY <1>1 DEF programsVars
<1>2. ASSUME NEW name \in Programs, OthersStay(name)
      PROVE  /\ name = "traffic" \/ UNCHANGED Tvars
             /\ name = "traffic_sem" \/ UNCHANGED TSvars
             /\ name = "smoke" \/ UNCHANGED Smvars
             /\ name = "phil" \/ UNCHANGED vars
             /\ name = "buffer" \/ UNCHANGED BBvars
             /\ name = "pool" \/ UNCHANGED Povars
             /\ name = "q3" \/ UNCHANGED Rvvars
             /\ name = "handoffs" \/ UNCHANGED Havars
             /\ name = "racedemo" \/ UNCHANGED Rsvars
             /\ name = "sor" \/ UNCHANGED Srvars
  BY <1>2 DEF OthersStay
<1>3. CASE ProgramsNext
  BY <1>2, <1>3 DEF ProgramsNext, Programs
<1> QED  BY <1>1, <1>3

\* traffic.c: at any time all cars in the street go the way the street is marked
\* and they are at most MAX_OCCUPANCY, whoever is signalled, woken or overtaken.
THEOREM StreetIsOneWay == ProgramsSpec => []OneWayStreet
<1>1. ProgramsInit => TInv
  BY TInit DEF ProgramsInit
<1>2. TInv /\ [ProgramsNext]_programsVars => TInv'
  BY OnlyOneRuns, TStep
<1>3. TInv => OneWayStreet
  BY SameCardinality DEF OneWayStreet, T!OneWayStreet, TInv, TStreet
<1> QED  BY <1>1, <1>2, <1>3, PTL DEF ProgramsSpec

\* traffic_sem.c: the counters of the street agree with where the cars are, and
\* the semaphore of a direction has as many cars in line as its value says.
THEOREM StreetIsCounted == ProgramsSpec => []CountersAgree
<1>1. ProgramsInit => SInv
  BY SInit DEF ProgramsInit
<1>2. SInv /\ [ProgramsNext]_programsVars => SInv'
  BY OnlyOneRuns, SStep
<1>3. SInv => CountersAgree
  <2> SUFFICES ASSUME SInv  PROVE CountersAgree
    OBVIOUS
  <2>1. \A g \in TS!Directions : s_numWaiting[g] = TS!Cardinality({c \in Cars : s_dir[c] = g /\ s_pc[c] \in SWaits})
    BY SameCardinality DEF SInv, SCounts, SWaiting
  <2> QED  BY <2>1 DEF SWaits, SInv, SCounts, SLines, CountersAgree, TS!CountersAgree, TS!EAST, TS!WEST
<1> QED  BY <1>1, <1>2, <1>3, PTL DEF ProgramsSpec
\* Nobody goes before its turn: in smoke.c the smoker that smokes is the one the
\* agent's pair calls for, in q3.c no thread is at its b before all are past their
\* a, and in q1.c, q4.c and ping_pong_sem.c the words come in order.
THEOREM NobodyGoesEarly == ProgramsSpec => []TurnsKept
<1> DEFINE Inv == KInv /\ RInv /\ HInv
<1>1. ProgramsInit => Inv
  BY KInit, RInit, HInit DEF ProgramsInit
<1>2. Inv /\ [ProgramsNext]_programsVars => Inv'
  BY OnlyOneRuns, KStep, RStep, HStep
<1>3. Inv => TurnsKept
  BY KSmokersMatchOffers, RNobodyLeavesEarly, HInOrder DEF TurnsKept
<1> HIDE DEF Inv
<1> QED  BY <1>1, <1>2, <1>3, PTL DEF ProgramsSpec
\* bounded-buffer.c: what the ring holds from head to tail is a first-in first-out
\* queue of QUEUE_SIZE - 1 values, and each section puts one in, takes the first
\* one out, or leaves it.
THEOREM BufferImplemented == ProgramsSpec => ImplementsBoundedQueue
<1>1. ProgramsInit => BTypes /\ BB!Q!BQInit
  BY BInit DEF ProgramsInit
<1>2. BTypes /\ [ProgramsNext]_programsVars => BTypes' /\ [BB!Q!BQNext]_<<BB!Contents, b_val>>
  BY OnlyOneRuns, BStep
<1> QED  BY <1>1, <1>2, PTL DEF ProgramsSpec, ImplementsBoundedQueue, BB!ImplementsBoundedQueue, BB!Q!BQSpec

\* What the threads share survives all interleavings, in all programs: every
\* variable keeps its type, the pool's counter its range, q2.c counts back to
\* zero, the stack of racedemo.c holds what is allocated wherever its lock
\* excludes, and sor.c leaves the matrix that one thread would leave.
THEOREM SharedDataSurvives == ProgramsSpec => []SharedDataIntact
<1> DEFINE Inv == /\ program \in Programs
                  /\ TInv /\ SInv /\ KInv /\ IInv /\ BTypes /\ PInv /\ RInv /\ HInv /\ GInv /\ MInv
<1>1. ProgramsInit => Inv
  BY TInit, SInit, KInit, InitInv, BInit, PInit, RInit, HInit, GInit, MInit DEF ProgramsInit
<1>2. Inv /\ [ProgramsNext]_programsVars => Inv'
  <2> SUFFICES ASSUME Inv, ProgramsNext \/ UNCHANGED programsVars  PROVE Inv'
    OBVIOUS
  <2>1. program' \in Programs
    BY DEF ProgramsNext, OthersStay, programsVars
  <2>2. IInv'
    BY OnlyOneRuns, TypeStep, OrderStep, HungryStep, LocksStep, FlagsStep, CircleStep DEF IInv
  <2>3. TInv' /\ SInv' /\ KInv' /\ PInv' /\ RInv' /\ HInv' /\ GInv' /\ MInv'
    BY OnlyOneRuns, TStep, SStep, KStep, PStep, RStep, HStep, GStep, MStep
  <2>4. BTypes'
    BY OnlyOneRuns, BStep
  <2> QED  BY <2>1, <2>2, <2>3, <2>4
<1>3. Inv => SharedDataIntact
  <2> SUFFICES ASSUME Inv  PROVE SharedDataIntact
    OBVIOUS
  <2>1. T!TypeOK /\ TS!TypeOK /\ Sm!TypeOK /\ Rv!TypeOK
    BY TTypeOK, STypeOK, KTypeOK, RTypeOK
  <2>2. TypeOK /\ BB!TypeOK /\ Po!TypeOK
    BY DEF IInv, BTypes, BB!TypeOK, PInv
  <2>3. Po!ItemsInRange
    BY DEF PInv, Po!ItemsInRange
  <2>4. Ha!CountsBack /\ Rs!StackIntact /\ Sr!SameAsSequential
    BY HInOrder, GStackIntact, MSameAsSequential
  <2> QED  BY <2>1, <2>2, <2>3, <2>4 DEF SharedDataIntact, ProgramsTypeOK
<1> HIDE DEF Inv
<1> QED  BY <1>1, <1>2, <1>3, PTL DEF ProgramsSpec
=============================================================================
