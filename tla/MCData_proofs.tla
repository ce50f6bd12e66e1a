--------------------------- MODULE MCData_proofs ---------------------------
(***************************************************************************)
(* The sequential parts, for any sizes.  One part runs and the variables   *)
(* of the others stay, so each is proved about by itself: the heap as in   *)
(* HeapImplicit_proofs, of whose specification this is a part; the         *)
(* promises; the reference counts with their list and tree; the growing    *)
(* list, whose loops are recursions with a known value at each index       *)
(* (LoopDownMoves, LoopUpMoves); the four                                  *)
(* simulators, which take the same step from any state but where they are  *)
(* known to part (SameCycleC, SameCycleJava).                              *)
(*                                                                         *)
(* Promises: who waits for whom forms ways that go up in the order of the  *)
(* making, so promise_resolve comes to an end (ChainIsWay), resolves what  *)
(* is on its way (GivenValues), and nothing on it was resolved before.     *)
(*                                                                         *)
(* Counts: the count of an element is the number of references the client  *)
(* has, of nodes of the list with it and of its places in the tree         *)
(* (References).  The nodes from head on are a sequence without            *)
(* repetition (ListIs), and only they have elements, so that what          *)
(* list_delete walks over are all of them (ListedDrops).                   *)
(***************************************************************************)
EXTENDS MCData, HeapImplicit_proofs, SequenceTheorems, FiniteSetTheorems

-----------------------------------------------------------------------------
(* Numbers and recursion over them.                                        *)

\* f begins with base and goes on by g.
RecursesBy(f, N, base, g) == f[0] = base /\ \A k \in 1..N : f[k] = g[k][f[k - 1]]

\* A value for 0 and one for each number from the one before define a function.
LEMMA Recursion ==
    ASSUME NEW N \in Nat, NEW S, NEW base \in S, NEW g \in [1..N -> [S -> S]]
    PROVE  \E f \in [0..N -> S] : RecursesBy(f, N, base, g)
<1> DEFINE UpTo(n, f) == f[0] = base /\ \A k \in 1..n : f[k] = g[k][f[k - 1]]
           Wrong == {n \in 0..N : ~\E f \in [0..N -> S] : UpTo(n, f)}
<1>1. Wrong = {}
  <2> SUFFICES ASSUME Wrong # {}  PROVE FALSE
    OBVIOUS
  <2>0. Wrong \subseteq Nat
    OBVIOUS
  <2>1. PICK n \in Wrong : \A k \in Wrong : n <= k
    <3> HIDE DEF Wrong
    <3> QED  BY <2>0, LeastElement
  <2>2. CASE n = 0
    <3> DEFINE f == [k \in 0..N |-> base]
    <3>1. f \in [0..N -> S] /\ UpTo(0, f)
      OBVIOUS
    <3> QED  BY <2>2, <3>1
  <2>3. CASE n # 0
    <3>1. n \in 1..N /\ n - 1 \in 0..N /\ ~(n <= n - 1)
      BY <2>3
    <3>2. PICK f \in [0..N -> S] : UpTo(n - 1, f)
      BY <2>1, <3>1
    <3> DEFINE h == [f EXCEPT ![n] = g[n][f[n - 1]]]
    <3>3. h \in [0..N -> S]
      BY <3>1
    <3>4. h[0] = base
      BY <3>1, <3>2
    <3>5. ASSUME NEW k \in 1..n  PROVE h[k] = g[k][h[k - 1]]
      <4>1. k - 1 \in 0..N /\ k - 1 # n /\ h[k - 1] = f[k - 1]
        BY <3>1
      <4>2. CASE k = n
        BY <3>1, <4>1, <4>2
      <4>3. CASE k # n
        <5>1. k \in 1..(n - 1) /\ h[k] = f[k]
          BY <3>1, <4>3
        <5> QED  BY <3>2, <4>1, <5>1
      <4> QED  BY <4>2, <4>3
    <3> QED  BY <2>1, <3>3, <3>4, <3>5
  <2> QED  BY <2>2, <2>3
<1>2. N \notin Wrong
  BY <1>1
<1> QED  BY <1>2 DEF RecursesBy

\* Functions that begin alike and go on alike are alike.
LEMMA SameRecursion ==
    ASSUME NEW N \in Nat, NEW f, NEW h, f[0] = h[0],
           \A k \in 1..N : f[k - 1] = h[k - 1] => f[k] = h[k]
    PROVE  \A k \in 0..N : f[k] = h[k]
<1> DEFINE Wrong == {k \in 0..N : f[k] # h[k]}
<1>1. Wrong = {}
  <2> SUFFICES ASSUME Wrong # {}  PROVE FALSE
    OBVIOUS
  <2>1. Wrong \subseteq Nat
    OBVIOUS
  <2>2. PICK n \in Wrong : \A k \in Wrong : n <= k
    <3> HIDE DEF Wrong
    <3> QED  BY <2>1, LeastElement
  <2>3. n \in 1..N /\ n - 1 \in 0..N /\ ~(n <= n - 1)
    OBVIOUS
  <2>4. f[n - 1] = h[n - 1]
    BY <2>2, <2>3
  <2> QED  BY <2>3, <2>4
<1> QED  BY <1>1

\* A number more.
LEMMA OneMore == ASSUME NEW m \in Nat  PROVE 1..(m + 1) = 1..m \cup {m + 1} /\ m + 1 \notin 1..m
OBVIOUS

\* A sequence with one more at its end.
LEMMA AppendFacts ==
    ASSUME NEW S, NEW s \in Seq(S), NEW e \in S
    PROVE  /\ Append(s, e) \in Seq(S) /\ Len(Append(s, e)) = Len(s) + 1 /\ Len(s) \in Nat
           /\ \A k \in 1..Len(s) : Append(s, e)[k] = s[k]
           /\ Append(s, e)[Len(s) + 1] = e
OBVIOUS

-----------------------------------------------------------------------------
(* Promises.                                                               *)

\* Types.
PTypes ==
    /\ MaxPromises \in Nat /\ p_made \in 0..MaxPromises
    /\ p_is_resolved \in [Pr!Promise -> BOOLEAN] /\ p_value \in [Pr!Promise -> Seq(Nat)]
    /\ p_on_fulfilled \in [Pr!Promise -> 0..MaxPromises]
    /\ p_fulfilled_promise = p_on_fulfilled
    /\ p_expects \in Seq(Nat \X Nat) /\ Len(p_expects) = p_made

\* A function is with the promise that waits for it, which was made later.
PLinks ==
    /\ \A p \in Pr!Promise : p_on_fulfilled[p] # 0 =>
          LET t == p_on_fulfilled[p] IN p < t /\ t <= p_made /\ p_expects[t] = <<p, t>>
    /\ \A p \in 1..p_made : p_expects[p][1] # 0 =>
          /\ p_expects[p][1] < p /\ p_expects[p][2] = p
          /\ ~p_is_resolved[p_expects[p][1]] => p_on_fulfilled[p_expects[p][1]] = p

\* What is not made yet is not resolved and waits for nobody.
PFresh == \A p \in Pr!Promise : p > p_made => ~p_is_resolved[p] /\ p_on_fulfilled[p] = 0

\* The invariant of promise.c.
PInv == PTypes /\ PLinks /\ PFresh /\ Pr!PromisesSettle

\* No promise is made at first.
LEMMA PInit == ASSUME MaxPromises \in Nat, Pr!Init  PROVE PInv
BY DEF Pr!Init, Pr!Promise, Pr!NULL, PInv, PTypes, PLinks, PFresh, Pr!PromisesSettle

\* The way of promise_resolve from p on, after one call, two calls and so on.
ChainStep(p, c) ==
    [k \in 0..MaxPromises |->
        IF k = 0 THEN <<p>>
        ELSE LET q == c[k - 1][Len(c[k - 1])] IN
             IF p_on_fulfilled[q] = 0 THEN c[k - 1] ELSE Append(c[k - 1], p_fulfilled_promise[q])]

Chains(p) == CHOOSE c : c = ChainStep(p, c)

\* The way the model takes is the last of these.
LEMMA ChainFromChains == ASSUME NEW p  PROVE Pr!Chain(p) = Chains(p)[MaxPromises]
BY DEF Pr!Chain, Chains, ChainStep, Pr!NULL

\* A way along the waiting promises.
Way(p, c) ==
    /\ c \in Seq(Pr!Promise) /\ Len(c) >= 1 /\ c[1] = p
    /\ \A k \in 1..Len(c) : c[k] \in 1..p_made /\ c[k] >= k
    /\ \A k \in 1..(Len(c) - 1) : p_on_fulfilled[c[k]] # 0 /\ c[k + 1] = p_on_fulfilled[c[k]]
    /\ \A j, k \in 1..Len(c) : j < k => c[j] < c[k]

LEMMA WayOn ==
    ASSUME PInv, NEW p \in 1..p_made, NEW c, Way(p, c), p_on_fulfilled[c[Len(c)]] # 0
    PROVE  Way(p, Append(c, p_on_fulfilled[c[Len(c)]]))
<1> DEFINE n == Len(c)
           t == p_on_fulfilled[c[n]]
           d == Append(c, t)
<1>1. c \in Seq(Pr!Promise) /\ n \in Nat /\ n >= 1 /\ c[n] \in 1..p_made /\ c[n] >= n /\ p_made \in 0..MaxPromises /\ MaxPromises \in Nat
  BY DEF Way, PInv, PTypes
<1>2. t \in 1..p_made /\ c[n] < t /\ t \in Pr!Promise
  <2>1. c[n] \in Pr!Promise /\ t # 0
    BY <1>1 DEF Pr!Promise
  <2>2. t \in 0..MaxPromises /\ c[n] < t /\ t <= p_made
    BY <1>1, <2>1 DEF PInv, PTypes, PLinks
  <2> QED  BY <1>1, <2>2 DEF Pr!Promise
<1> HIDE DEF t
<1>3. Len(d) = n + 1 /\ d[n + 1] = t /\ d \in Seq(Pr!Promise) /\ \A k \in 1..n : d[k] = c[k]
  BY <1>1, <1>2
<1> HIDE DEF d
<1>4. \A k \in 1..Len(d) : d[k] \in 1..p_made /\ d[k] >= k
  BY <1>1, <1>2, <1>3 DEF Way
<1>5. \A k \in 1..(Len(d) - 1) : p_on_fulfilled[d[k]] # 0 /\ d[k + 1] = p_on_fulfilled[d[k]]
  <2> TAKE k \in 1..(Len(d) - 1)
  <2>1. CASE k = n
    BY <1>1, <1>3, <2>1 DEF t
  <2>2. CASE k # n
    <3>1. k \in 1..(n - 1) /\ k + 1 \in 1..n
      BY <1>1, <1>3, <2>2
    <3> QED  BY <1>3, <3>1 DEF Way
  <2> QED  BY <2>1, <2>2
<1>6. \A j, k \in 1..Len(d) : j < k => d[j] < d[k]
  <2> SUFFICES ASSUME NEW j \in 1..Len(d), NEW k \in 1..Len(d), j < k  PROVE d[j] < d[k]
    OBVIOUS
  <2>1. j \in 1..n /\ d[j] = c[j] /\ c[j] \in Int /\ c[j] <= c[n]
    BY <1>1, <1>3 DEF Way
  <2>2. CASE k = n + 1
    BY <1>1, <1>2, <1>3, <2>1, <2>2
  <2>3. CASE k # n + 1
    BY <1>1, <1>3, <2>1, <2>3 DEF Way
  <2> QED  BY <2>2, <2>3
<1>7. Len(d) >= 1 /\ d[1] = p
  BY <1>1, <1>3 DEF Way
<1> QED  BY <1>3, <1>4, <1>5, <1>6, <1>7 DEF Way, d, t

\* The recursion of promise_resolve has an end: a promise that waits for no other.
LEMMA ChainIsWay ==
    ASSUME PInv, NEW p \in 1..p_made
    PROVE  Way(p, Pr!Chain(p)) /\ p_on_fulfilled[Pr!Chain(p)[Len(Pr!Chain(p))]] = 0
<1> DEFINE S == {c \in Seq(Pr!Promise) : Way(p, c)}
           N == MaxPromises
           on(c) == IF p_on_fulfilled[c[Len(c)]] = 0 THEN c ELSE Append(c, p_on_fulfilled[c[Len(c)]])
           g == [k \in 1..N |-> [c \in S |-> on(c)]]
<1>1. N \in Nat /\ p_made \in 0..N /\ p \in Pr!Promise /\ p_fulfilled_promise = p_on_fulfilled
  BY DEF PInv, PTypes, Pr!Promise
<1>2. <<p>> \in S
  BY <1>1 DEF Way
<1>3. \A c \in S : on(c) \in S
  BY WayOn DEF Way
<1>4. g \in [1..N -> [S -> S]]
  BY <1>3
<1>5. PICK f \in [0..N -> S] : f[0] = <<p>> /\ \A k \in 1..N : f[k] = g[k][f[k - 1]]
  <2> DEFINE b == <<p>>
  <2>1. b \in S /\ N \in Nat
    BY <1>1, <1>2
  <2> HIDE DEF g, S, N, b
  <2>2. \E f \in [0..N -> S] : RecursesBy(f, N, b, g)
    BY <2>1, <1>4, Recursion
  <2> QED  BY <2>2 DEF b, RecursesBy
<1>6. f = ChainStep(p, f)
  <2>1. \A k \in 1..N : f[k - 1] \in S /\ f[k] = g[k][f[k - 1]]
    <3> HIDE DEF S, g
    <3> QED  BY <1>1, <1>5
  <2>2. \A k \in 1..N : f[k] = on(f[k - 1])
    <3> HIDE DEF S, on
    <3> QED  BY <2>1
  <2> DEFINE F == [k \in 0..N |-> IF k = 0 THEN <<p>> ELSE on(f[k - 1])]
  <2>3. f = F
    <3>1. f = [k \in 0..N |-> f[k]]
      <4> HIDE DEF S, g
      <4> QED  BY <1>5
    <3>2. \A k \in 0..N : f[k] = IF k = 0 THEN <<p>> ELSE on(f[k - 1])
      <4> HIDE DEF S, on, g
      <4> TAKE k \in 0..N
      <4>1. CASE k = 0
        BY <1>5, <4>1
      <4>2. CASE k # 0
        <5>1. k \in 1..N
          BY <1>1, <4>2
        <5> QED  BY <2>2, <4>2, <5>1
      <4> QED  BY <4>1, <4>2
    <3> HIDE DEF S, on, g
    <3> QED  BY <3>1, <3>2
  <2>4. ChainStep(p, f) = F
    BY <1>1 DEF ChainStep
  <2> QED  BY <2>3, <2>4
<1> DEFINE c == Chains(p)
<1>7. c = ChainStep(p, c)
  BY <1>6 DEF Chains
<1>8. c[0] = <<p>> /\ \A k \in 1..N : c[k] = on(c[k - 1])
  <2> HIDE DEF c
  <2> DEFINE F == [k \in 0..N |-> IF k = 0 THEN <<p>> ELSE on(c[k - 1])]
  <2>1. ChainStep(p, c) = F
    BY <1>1 DEF ChainStep
  <2>2. c = F
    BY <1>7, <2>1
  <2>3. F[0] = <<p>> /\ \A k \in 1..N : F[k] = on(c[k - 1])
    <3> HIDE DEF on
    <3> QED  BY <1>1
  <2> QED  BY <2>2, <2>3
<1> HIDE DEF c
<1> DEFINE WayEnds(k) == p_on_fulfilled[c[k][Len(c[k])]] = 0
           Good(k) == c[k] \in S /\ (Len(c[k]) = k + 1 \/ WayEnds(k))
           Bad == {k \in 0..N : ~Good(k)}
<1>9. Bad = {}
  <2> SUFFICES ASSUME Bad # {}  PROVE FALSE
    OBVIOUS
  <2> HIDE DEF Good
  <2>0. Bad \subseteq Nat
    BY <1>1
  <2>1. PICK k \in Bad : \A j \in Bad : k <= j
    <3> HIDE DEF Bad
    <3> QED  BY <2>0, LeastElement
  <2>2. k # 0
    <3>1. Good(0)
      <4> HIDE DEF S
      <4> QED  BY <1>2, <1>8 DEF Good
    <3> QED  BY <2>1, <3>1
  <2>3. k \in 1..N /\ Good(k - 1)
    <3>1. k \in 1..N /\ k - 1 \in 0..N /\ ~(k <= k - 1)
      BY <1>1, <2>1, <2>2
    <3> QED  BY <2>1, <3>1
  <2>4. c[k] = on(c[k - 1]) /\ c[k] \in S /\ c[k - 1] \in Seq(Pr!Promise)
    <3>1. c[k] = on(c[k - 1])
      BY <1>8, <2>3
    <3>2. c[k - 1] \in S
      BY <2>3 DEF Good
    <3> QED  BY <1>3, <3>1, <3>2
  <2>5. CASE WayEnds(k - 1)
    <3>1. c[k] = c[k - 1]
      BY <2>4, <2>5
    <3> HIDE DEF S
    <3> QED  BY <2>1, <2>4, <2>5, <3>1 DEF Good
  <2>6. CASE ~WayEnds(k - 1)
    <3>1. c[k] = Append(c[k - 1], p_on_fulfilled[c[k - 1][Len(c[k - 1])]])
      BY <2>4, <2>6
    <3>2. Len(c[k - 1]) = k
      <4> HIDE DEF S, WayEnds
      <4> QED  BY <2>3, <2>6 DEF Good
    <3>3. Len(c[k]) = k + 1
      BY <2>4, <3>1, <3>2
    <3> HIDE DEF S, WayEnds
    <3> QED  BY <2>1, <2>4, <3>3 DEF Good
  <2> QED  BY <2>5, <2>6
<1>10. Good(N)
  <2>1. N \in 0..N
    BY <1>1
  <2> HIDE DEF Good, N
  <2> QED  BY <1>9, <2>1
<1>11. Way(p, c[N])
  BY <1>10
<1>12. Len(c[N]) # N + 1
  <2>1. \A k \in 1..Len(c[N]) : c[N][k] \in 1..p_made /\ c[N][k] >= k
    BY <1>11 DEF Way
  <2> SUFFICES ASSUME Len(c[N]) = N + 1  PROVE FALSE
    OBVIOUS
  <2>2. N + 1 \in 1..(N + 1)
    BY <1>1
  <2>3. N + 1 <= c[N][N + 1] /\ c[N][N + 1] \in 1..p_made
    BY <2>1, <2>2
  <2> HIDE DEF N
  <2> QED  BY <1>1, <2>3
<1>13. WayEnds(N)
  <2> HIDE DEF WayEnds, S
  <2> QED  BY <1>10, <1>12
<1>14. Pr!Chain(p) = c[N]
  BY ChainFromChains DEF c
<1> QED  BY <1>11, <1>13, <1>14

\* What promise_resolve gives each promise on its way, from the one before.
GivenStep(c, v, h) ==
    [k \in DOMAIN c |-> IF k = 1 THEN v ELSE Pr!Apply(p_on_fulfilled[c[k - 1]], h[k - 1])]

Givens(c, v) == CHOOSE h : h = GivenStep(c, v, h)

\* h starts with v and each further value is what the function of its promise makes of the one before.
ResolvedAlong(c, v, h) ==
    /\ h[1] = v /\ \A k \in 1..Len(c) : h[k] \in Seq(Nat)
    /\ \A k \in 1..(Len(c) - 1) : h[k + 1] = Append(h[k], p_on_fulfilled[c[k]])

\* What each promise on the way is resolved with.
LEMMA GivenValues ==
    ASSUME PInv, NEW p \in 1..p_made, NEW c, Way(p, c), NEW v \in Seq(Nat)
    PROVE  ResolvedAlong(c, v, Givens(c, v))
<1> DEFINE N == Len(c) - 1
           S == Seq(Nat)
           g == [k \in 1..N |-> [w \in S |-> Append(w, p_on_fulfilled[c[k]])]]
<1>1. N \in Nat /\ Len(c) = N + 1 /\ DOMAIN c = 1..(N + 1)
  BY DEF Way
<1>2. \A k \in 1..N : p_on_fulfilled[c[k]] \in Nat
  <2>1. \A k \in 1..Len(c) : c[k] \in Pr!Promise
    BY DEF Way
  <2> QED  BY <1>1, <2>1 DEF PInv, PTypes
<1>3. g \in [1..N -> [S -> S]]
  BY <1>2
<1>4. PICK f \in [0..N -> S] : f[0] = v /\ \A k \in 1..N : f[k] = g[k][f[k - 1]]
  <2>1. v \in S
    OBVIOUS
  <2> HIDE DEF g, S, N
  <2>2. \E f \in [0..N -> S] : RecursesBy(f, N, v, g)
    BY <1>1, <1>3, <2>1, Recursion
  <2> QED  BY <2>2 DEF RecursesBy
<1> DEFINE h0 == [k \in DOMAIN c |-> f[k - 1]]
<1>5. h0 = GivenStep(c, v, h0)
  <2>1. ASSUME NEW k \in DOMAIN c  PROVE h0[k] = GivenStep(c, v, h0)[k]
    <3>1. CASE k = 1
      BY <1>4, <3>1 DEF GivenStep
    <3>2. CASE k # 1
      <4>1. k - 1 \in DOMAIN c /\ k - 1 \in 1..N /\ (k - 1) - 1 \in 0..N
        BY <1>1, <3>2
      <4>2. f[(k - 1) - 1] \in S /\ f[k - 1] = g[k - 1][f[(k - 1) - 1]]
        <5> HIDE DEF g, S
        <5> QED  BY <1>4, <4>1
      <4>3. f[k - 1] = Append(f[(k - 1) - 1], p_on_fulfilled[c[k - 1]])
        BY <4>1, <4>2
      <4>4. h0[k] = f[k - 1] /\ h0[k - 1] = f[(k - 1) - 1]
        BY <4>1
      <4> HIDE DEF h0
      <4> QED  BY <3>2, <4>3, <4>4 DEF GivenStep, Pr!Apply
    <3> QED  BY <3>1, <3>2
  <2>2. h0 = [k \in DOMAIN c |-> h0[k]] /\ GivenStep(c, v, h0) = [k \in DOMAIN c |-> GivenStep(c, v, h0)[k]]
    BY DEF GivenStep
  <2> HIDE DEF h0
  <2> QED  BY <2>1, <2>2
<1> DEFINE h == Givens(c, v)
<1>6. h = GivenStep(c, v, h)
  BY <1>5 DEF Givens
<1>7. h[1] = v /\ \A k \in 1..N : h[k + 1] = Append(h[k], p_on_fulfilled[c[k]])
  <2>1. \A k \in DOMAIN c : h[k] = GivenStep(c, v, h)[k]
    BY <1>6
  <2> HIDE DEF h
  <2>2. h[1] = v
    <3>1. 1 \in DOMAIN c
      BY <1>1
    <3>2. h[1] = GivenStep(c, v, h)[1]
      BY <2>1, <3>1
    <3> QED  BY <3>1, <3>2 DEF GivenStep
  <2>3. ASSUME NEW k \in 1..N  PROVE h[k + 1] = Append(h[k], p_on_fulfilled[c[k]])
    <3>1. k + 1 \in DOMAIN c /\ k + 1 # 1 /\ (k + 1) - 1 = k
      BY <1>1
    <3> QED  BY <2>1, <3>1 DEF GivenStep, Pr!Apply
  <2> QED  BY <2>2, <2>3
<1> HIDE DEF h
<1> DEFINE Bad == {k \in 1..(N + 1) : h[k] \notin Seq(Nat)}
<1>8. Bad = {}
  <2> SUFFICES ASSUME Bad # {}  PROVE FALSE
    OBVIOUS
  <2>0. Bad \subseteq Nat
    BY <1>1
  <2>1. PICK k \in Bad : \A j \in Bad : k <= j
    <3> HIDE DEF Bad
    <3> QED  BY <2>0, LeastElement
  <2>2. k # 1
    BY <1>7, <2>1
  <2>3. k - 1 \in 1..N /\ k - 1 \in 1..(N + 1) /\ ~(k <= k - 1) /\ (k - 1) + 1 = k
    BY <1>1, <2>1, <2>2
  <2>4. h[k - 1] \in Seq(Nat)
    BY <2>1, <2>3
  <2>5. h[k] = Append(h[k - 1], p_on_fulfilled[c[k - 1]])
    BY <1>7, <2>3
  <2>6. h[k] \in Seq(Nat)
    BY <1>2, <2>3, <2>4, <2>5
  <2> QED  BY <2>1, <2>6
<1> QED  BY <1>1, <1>7, <1>8 DEF h, ResolvedAlong

\* promise_new keeps the invariant: nobody waits for the new promise.
LEMMA PNew == ASSUME PInv, Pr!promise_new  PROVE PInv'
<1>1. /\ p_made < MaxPromises /\ p_made' = p_made + 1 /\ p_expects' = Append(p_expects, <<0, 0>>)
      /\ UNCHANGED <<p_is_resolved, p_value, p_on_fulfilled, p_fulfilled_promise>>
  BY DEF Pr!promise_new, Pr!promise_vars, Pr!NULL
<1>2. PTypes'
  <2>1. <<0, 0>> \in Nat \X Nat
    OBVIOUS
  <2> QED  BY <1>1, <2>1 DEF PInv, PTypes
<1>3. /\ p_made \in Nat /\ Len(p_expects) = p_made /\ p_expects \in Seq(Nat \X Nat)
      /\ \A p \in 1..p_made : p_expects'[p] = p_expects[p]
      /\ p_expects'[p_made + 1] = <<0, 0>> /\ 1..p_made' = 1..p_made \cup {p_made + 1}
  BY <1>1 DEF PInv, PTypes
<1>4. PLinks'
  <2>1. \A p \in Pr!Promise : p_on_fulfilled[p] # 0 => p_on_fulfilled[p] \in 1..p_made
    <3> TAKE p \in Pr!Promise
    <3>1. p_on_fulfilled[p] \in 0..MaxPromises /\ MaxPromises \in Nat /\ p \in Pr!Promise
      BY DEF PInv, PTypes
    <3>2. p_on_fulfilled[p] # 0 => p < p_on_fulfilled[p] /\ p_on_fulfilled[p] <= p_made
      BY DEF PInv, PLinks
    <3> QED  BY <1>3, <3>1, <3>2 DEF Pr!Promise
  <2>2. \A p \in Pr!Promise : p_on_fulfilled'[p] # 0 =>
            LET t == p_on_fulfilled'[p] IN p < t /\ t <= p_made' /\ p_expects'[t] = <<p, t>>
    BY <1>1, <1>3, <2>1 DEF PInv, PLinks
  <2>3. \A p \in 1..p_made' : p_expects'[p][1] # 0 =>
          /\ p_expects'[p][1] < p /\ p_expects'[p][2] = p
          /\ ~p_is_resolved'[p_expects'[p][1]] => p_on_fulfilled'[p_expects'[p][1]] = p
    BY <1>1, <1>3 DEF PInv, PLinks
  <2> QED  BY <2>2, <2>3 DEF PLinks, Pr!Promise
<1>5. PFresh'
  BY <1>1, <1>3 DEF PInv, PFresh, Pr!Promise
<1>6. Pr!PromisesSettle'
  <2> SUFFICES ASSUME NEW p \in 1..p_made', p_expects'[p][1] # 0
               PROVE  /\ p_is_resolved'[p] <=> p_is_resolved'[p_expects'[p][1]]
                      /\ p_is_resolved'[p] =>
                            p_value'[p] = Pr!Apply(p_expects'[p][2], p_value'[p_expects'[p][1]])
    BY DEF Pr!PromisesSettle, Pr!NULL, Pr!Apply
  <2>1. p # p_made + 1
    BY <1>3
  <2>2. p \in 1..p_made /\ p_expects'[p] = p_expects[p]
    BY <1>3, <2>1
  <2>3. Pr!PromisesSettle /\ p_is_resolved' = p_is_resolved /\ p_value' = p_value
    BY <1>1 DEF PInv
  <2> QED  BY <2>2, <2>3 DEF Pr!PromisesSettle, Pr!NULL
<1> QED  BY <1>2, <1>4, <1>5, <1>6 DEF PInv

\* promise_then keeps it: the new promise is behind a waiting one, or resolved at once.
LEMMA PThen == ASSUME PInv, NEW p \in Pr!Promise, Pr!promise_then(p)  PROVE PInv'
<1> DEFINE t == p_made + 1
<1>1. /\ p <= p_made /\ p_made < MaxPromises /\ p_on_fulfilled[p] = 0
      /\ p_made' = t /\ p_expects' = Append(p_expects, <<p, t>>)
  BY DEF Pr!promise_then, Pr!NULL
<1>2. /\ p_made \in Nat /\ MaxPromises \in Nat /\ Len(p_expects) = p_made /\ p_expects \in Seq(Nat \X Nat)
      /\ t \in Pr!Promise /\ p \in 1..p_made /\ p # t /\ p < t
  BY <1>1 DEF PInv, PTypes, Pr!Promise
<1>3. /\ \A q \in 1..p_made : p_expects'[q] = p_expects[q]
      /\ p_expects'[t] = <<p, t>> /\ 1..p_made' = 1..p_made \cup {t} /\ t \notin 1..p_made
      /\ p_expects' \in Seq(Nat \X Nat) /\ Len(p_expects') = p_made'
  <2> DEFINE e == <<p, t>>
  <2>1. e \in Nat \X Nat
    BY <1>2
  <2> DEFINE S == Nat \X Nat
  <2> HIDE DEF e, S
  <2>2. /\ \A q \in 1..Len(p_expects) : Append(p_expects, e)[q] = p_expects[q]
        /\ Append(p_expects, e)[Len(p_expects) + 1] = e /\ Append(p_expects, e) \in Seq(S)
        /\ Len(Append(p_expects, e)) = Len(p_expects) + 1
    <3>1. e \in S /\ p_expects \in Seq(S)
      BY <1>2, <2>1 DEF S
    <3> QED  BY <3>1, AppendFacts
  <2>3. p_expects' = Append(p_expects, e)
    BY <1>1 DEF e
  <2>4. 1..p_made' = 1..p_made \cup {t} /\ t \notin 1..p_made
    BY <1>1, <1>2, OneMore
  <2> QED  BY <1>1, <1>2, <2>2, <2>3, <2>4 DEF e, S
<1>4. p_made' \in 0..MaxPromises
  BY <1>1, <1>2
<1>5. ~p_is_resolved[t] /\ p_on_fulfilled[t] = 0
  BY <1>2 DEF PInv, PFresh
<1>6. /\ \A q \in Pr!Promise : p_on_fulfilled[q] # 0 => p_on_fulfilled[q] \in 1..p_made
      /\ \A q \in 1..p_made : p_expects[q][1] # 0 => p_expects[q][1] \in 1..p_made
  <2>1. ASSUME NEW q \in Pr!Promise, p_on_fulfilled[q] # 0  PROVE p_on_fulfilled[q] \in 1..p_made
    <3>1. p_on_fulfilled[q] \in 0..MaxPromises
      BY DEF PInv, PTypes
    <3>2. p_on_fulfilled[q] <= p_made
      BY <2>1 DEF PInv, PLinks
    <3> QED  BY <1>2, <2>1, <3>1, <3>2
  <2>2. ASSUME NEW q \in 1..p_made, p_expects[q][1] # 0  PROVE p_expects[q][1] \in 1..p_made
    <3>1. p_expects[q] \in Nat \X Nat
      BY <1>2
    <3>2. p_expects[q][1] < q
      BY <2>2 DEF PInv, PLinks
    <3> QED  BY <1>2, <2>2, <3>1, <3>2
  <2> QED  BY <2>1, <2>2
<1>7. CASE p_is_resolved[p]
  <2>1. /\ p_is_resolved' = [p_is_resolved EXCEPT ![t] = TRUE]
        /\ p_value' = [p_value EXCEPT ![t] = Pr!Apply(t, p_value[p])]
        /\ UNCHANGED <<p_on_fulfilled, p_fulfilled_promise>>
    BY <1>7 DEF Pr!promise_then
  <2>2. PTypes'
    <3>1. Pr!Apply(t, p_value[p]) \in Seq(Nat)
      BY <1>2 DEF Pr!Apply, PInv, PTypes
    <3>2. p_is_resolved' \in [Pr!Promise -> BOOLEAN] /\ p_value' \in [Pr!Promise -> Seq(Nat)]
      BY <2>1, <3>1 DEF PInv, PTypes
    <3> QED  BY <1>2, <1>3, <1>4, <2>1, <3>2 DEF PInv, PTypes, Pr!Promise
  <2>3. \A q \in 1..p_made : q \in Pr!Promise /\ q # t /\ p_is_resolved'[q] = p_is_resolved[q] /\ p_value'[q] = p_value[q]
    <3> TAKE q \in 1..p_made
    <3>1. q \in Pr!Promise /\ q # t
      BY <1>1, <1>2, <1>3 DEF Pr!Promise
    <3> QED  BY <2>1, <3>1 DEF PInv, PTypes
  <2>4. p_is_resolved'[t] /\ p_value'[t] = Pr!Apply(t, p_value[p])
    BY <1>2, <2>1 DEF PInv, PTypes
  <2>5. PLinks'
    <3>1. ASSUME NEW q \in Pr!Promise', p_on_fulfilled'[q] # 0
          PROVE  LET u == p_on_fulfilled'[q] IN q < u /\ u <= p_made' /\ p_expects'[u] = <<q, u>>
      <4> DEFINE u == p_on_fulfilled[q]
      <4>1. q \in Pr!Promise /\ u # 0 /\ p_on_fulfilled'[q] = u
        BY <2>1, <3>1 DEF Pr!Promise
      <4>2. u \in 1..p_made /\ q < u /\ p_expects[u] = <<q, u>>
        BY <1>6, <4>1 DEF PInv, PLinks
      <4>3. u <= p_made' /\ p_expects'[u] = p_expects[u]
        BY <1>1, <1>2, <1>3, <4>2
      <4> QED  BY <4>1, <4>2, <4>3
    <3>2. ASSUME NEW q \in 1..p_made', p_expects'[q][1] # 0
          PROVE  /\ p_expects'[q][1] < q /\ p_expects'[q][2] = q
                 /\ ~p_is_resolved'[p_expects'[q][1]] => p_on_fulfilled'[p_expects'[q][1]] = q
      <4>1. CASE q = t
        <5>1. p_expects'[q][1] = p /\ p_expects'[q][2] = q
          BY <1>3, <4>1
        <5>2. p_is_resolved'[p]
          BY <1>2, <1>7, <2>3
        <5> QED  BY <1>2, <4>1, <5>1, <5>2
      <4>2. CASE q # t
        <5>1. q \in 1..p_made /\ p_expects'[q] = p_expects[q] /\ p_expects[q][1] \in 1..p_made
          BY <1>3, <1>6, <3>2, <4>2
        <5> QED  BY <2>1, <2>3, <3>2, <5>1 DEF PInv, PLinks
      <4> QED  BY <4>1, <4>2
    <3> QED  BY <3>1, <3>2 DEF PLinks
  <2>6. PFresh'
    <3>1. ASSUME NEW q \in Pr!Promise, q > p_made'  PROVE ~p_is_resolved'[q] /\ p_on_fulfilled'[q] = 0
      <4>1. q # t /\ q > p_made
        BY <1>1, <1>2, <3>1 DEF Pr!Promise
      <4>2. p_is_resolved'[q] = p_is_resolved[q] /\ p_on_fulfilled'[q] = p_on_fulfilled[q]
        BY <2>1, <4>1 DEF PInv, PTypes
      <4> QED  BY <4>1, <4>2 DEF PInv, PFresh
    <3> QED  BY <3>1 DEF PFresh, Pr!Promise
  <2>7. Pr!PromisesSettle'
    <3>1. ASSUME NEW q \in 1..p_made', p_expects'[q][1] # 0
          PROVE  LET from == p_expects'[q][1] IN
                 /\ p_is_resolved'[q] <=> p_is_resolved'[from]
                 /\ p_is_resolved'[q] => p_value'[q] = Pr!Apply(p_expects'[q][2], p_value'[from])
      <4>1. CASE q = t
        BY <1>2, <1>3, <1>7, <2>3, <2>4, <4>1
      <4>2. CASE q # t
        <5>1. q \in 1..p_made /\ p_expects'[q] = p_expects[q] /\ p_expects[q][1] \in 1..p_made
          BY <1>3, <1>6, <3>1, <4>2
        <5> QED  BY <2>3, <3>1, <5>1 DEF PInv, Pr!PromisesSettle, Pr!NULL
      <4> QED  BY <4>1, <4>2
    <3> QED  BY <3>1 DEF Pr!PromisesSettle, Pr!NULL, Pr!Apply
  <2> QED  BY <2>2, <2>5, <2>6, <2>7 DEF PInv
<1>8. CASE ~p_is_resolved[p]
  <2>1. /\ p_on_fulfilled' = [p_on_fulfilled EXCEPT ![p] = t]
        /\ p_fulfilled_promise' = [p_fulfilled_promise EXCEPT ![p] = t]
        /\ UNCHANGED <<p_is_resolved, p_value>>
    BY <1>8 DEF Pr!promise_then
  <2>2. PTypes'
    <3>1. t \in 0..MaxPromises
      BY <1>2 DEF Pr!Promise
    <3>2. p_on_fulfilled' \in [Pr!Promise -> 0..MaxPromises] /\ p_fulfilled_promise' = p_on_fulfilled'
      BY <2>1, <3>1 DEF PInv, PTypes
    <3> QED  BY <1>2, <1>3, <1>4, <2>1, <3>2 DEF PInv, PTypes, Pr!Promise
  <2>3. /\ p_on_fulfilled'[p] = t
        /\ \A q \in Pr!Promise : q # p => p_on_fulfilled'[q] = p_on_fulfilled[q]
    BY <2>1 DEF PInv, PTypes
  <2>4. PLinks'
    <3>1. ASSUME NEW q \in Pr!Promise', p_on_fulfilled'[q] # 0
          PROVE  LET u == p_on_fulfilled'[q] IN q < u /\ u <= p_made' /\ p_expects'[u] = <<q, u>>
      <4>0. q \in Pr!Promise
        BY DEF Pr!Promise
      <4>1. CASE q = p
        BY <1>1, <1>2, <1>3, <2>3, <4>1
      <4>2. CASE q # p
        <5>1. p_on_fulfilled'[q] = p_on_fulfilled[q] /\ p_on_fulfilled[q] \in 1..p_made
          BY <1>6, <2>3, <3>1, <4>0, <4>2
        <5>2. q < p_on_fulfilled[q] /\ p_on_fulfilled[q] <= p_made /\ p_expects[p_on_fulfilled[q]] = <<q, p_on_fulfilled[q]>>
          BY <3>1, <4>0, <5>1 DEF PInv, PLinks
        <5>3. p_on_fulfilled[q] <= p_made'
          BY <1>1, <1>2, <5>1
        <5> QED  BY <1>3, <5>1, <5>2, <5>3
      <4> QED  BY <4>1, <4>2
    <3>2. ASSUME NEW q \in 1..p_made', p_expects'[q][1] # 0
          PROVE  /\ p_expects'[q][1] < q /\ p_expects'[q][2] = q
                 /\ ~p_is_resolved'[p_expects'[q][1]] => p_on_fulfilled'[p_expects'[q][1]] = q
      <4>1. CASE q = t
        BY <1>2, <1>3, <2>3, <4>1
      <4>2. CASE q # t
        <5>1. q \in 1..p_made /\ p_expects'[q] = p_expects[q] /\ p_expects[q][1] \in 1..p_made
          BY <1>3, <1>6, <3>2, <4>2
        <5>2. p_expects[q][1] \in Pr!Promise /\ q # 0
          <6>1. \A m \in 1..p_made : m \in 1..MaxPromises /\ m # 0
            BY <1>1, <1>2
          <6> QED  BY <5>1, <6>1 DEF Pr!Promise
        <5>3. /\ p_expects[q][1] < q /\ p_expects[q][2] = q
              /\ ~p_is_resolved[p_expects[q][1]] => p_on_fulfilled[p_expects[q][1]] = q
          BY <3>2, <5>1 DEF PInv, PLinks
        <5>4. ~p_is_resolved[p_expects[q][1]] => p_expects[q][1] # p
          BY <1>1, <5>2, <5>3
        <5> QED  BY <2>1, <2>3, <5>1, <5>2, <5>3, <5>4
      <4> QED  BY <4>1, <4>2
    <3> QED  BY <3>1, <3>2 DEF PLinks
  <2>5. PFresh'
    <3>1. ASSUME NEW q \in Pr!Promise', q > p_made'  PROVE ~p_is_resolved'[q] /\ p_on_fulfilled'[q] = 0
      <4>1. q \in Pr!Promise /\ q > p_made /\ q # p
        BY <1>1, <1>2, <3>1 DEF Pr!Promise
      <4> QED  BY <2>1, <2>3, <4>1 DEF PInv, PFresh
    <3> QED  BY <3>1 DEF PFresh
  <2>6. Pr!PromisesSettle'
    <3>1. ASSUME NEW q \in 1..p_made', p_expects'[q][1] # 0
          PROVE  LET from == p_expects'[q][1] IN
                 /\ p_is_resolved'[q] <=> p_is_resolved'[from]
                 /\ p_is_resolved'[q] => p_value'[q] = Pr!Apply(p_expects'[q][2], p_value'[from])
      <4>1. CASE q = t
        BY <1>2, <1>3, <1>5, <1>8, <2>1, <4>1
      <4>2. CASE q # t
        <5>1. q \in 1..p_made /\ p_expects'[q] = p_expects[q] /\ p_expects[q][1] \in 1..p_made
          BY <1>3, <1>6, <3>1, <4>2
        <5> QED  BY <2>1, <3>1, <5>1 DEF PInv, Pr!PromisesSettle, Pr!NULL
      <4> QED  BY <4>1, <4>2
    <3> QED  BY <3>1 DEF Pr!PromisesSettle, Pr!NULL, Pr!Apply
  <2> QED  BY <2>2, <2>4, <2>5, <2>6 DEF PInv
<1> QED  BY <1>7, <1>8

\* promise_resolve keeps it: all promises on the way are resolved, each with what its function makes of the one before.
LEMMA PResolve == ASSUME PInv, NEW p \in Pr!Promise, Pr!Resolve(p)  PROVE PInv'
<1> DEFINE c == Pr!Chain(p)
           h == Givens(c, <<p>>)
           n == Len(c)
           reached == {c[k] : k \in 1..n}
           at(q) == CHOOSE k \in 1..n : c[k] = q
<1>1. /\ p <= p_made /\ p_expects[p][1] = 0 /\ ~p_is_resolved[p]
      /\ UNCHANGED <<p_made, p_on_fulfilled, p_fulfilled_promise, p_expects>>
  BY DEF Pr!Resolve, Pr!NULL
<1>2. p \in 1..p_made /\ p_made \in Nat /\ MaxPromises \in Nat /\ p_made <= MaxPromises /\ <<p>> \in Seq(Nat)
  BY <1>1 DEF PInv, PTypes, Pr!Promise
<1>3. Way(p, c) /\ p_on_fulfilled[c[n]] = 0
  BY <1>2, ChainIsWay
<1>4. /\ h[1] = <<p>> /\ \A k \in 1..n : h[k] \in Seq(Nat)
      /\ \A k \in 1..(n - 1) : h[k + 1] = Append(h[k], p_on_fulfilled[c[k]])
  <2> DEFINE v == <<p>>
  <2>1. v \in Seq(Nat)
    BY <1>2
  <2> HIDE DEF c, v
  <2>2. ResolvedAlong(c, v, Givens(c, v))
    BY <1>2, <1>3, <2>1, GivenValues
  <2> QED  BY <2>2 DEF v, ResolvedAlong
<1>5. /\ p_is_resolved' = [q \in Pr!Promise |-> p_is_resolved[q] \/ q \in reached]
      /\ p_value' = [q \in Pr!Promise |-> IF q \in reached THEN h[at(q)] ELSE p_value[q]]
  <2>1. DOMAIN c = 1..n
    BY <1>3 DEF Way
  <2> QED  BY <2>1 DEF Pr!Resolve, Pr!promise_resolve, Givens, GivenStep
<1> HIDE DEF c, h
<1>6. n \in Nat /\ n >= 1 /\ c[1] = p /\ \A k \in 1..n : c[k] \in 1..p_made /\ c[k] \in Pr!Promise
  BY <1>3 DEF Way
<1>7. \A k \in 1..n : c[k] \in reached /\ at(c[k]) = k
  <2> TAKE k \in 1..n
  <2>1. \A j \in 1..n : c[j] = c[k] => j = k
    <3> TAKE j \in 1..n
    <3>1. /\ j < k => c[j] < c[k]
          /\ k < j => c[k] < c[j]
      BY <1>3 DEF Way
    <3> QED  BY <1>6, <3>1
  <2> QED  BY <2>1
<1>8. \A q \in reached : \E k \in 1..n : q = c[k]
  OBVIOUS
<1> HIDE DEF reached, at, n
<1>9. /\ \A k \in 1..n : p_is_resolved'[c[k]] /\ p_value'[c[k]] = h[k]
      /\ \A q \in Pr!Promise : q \notin reached => p_is_resolved'[q] = p_is_resolved[q] /\ p_value'[q] = p_value[q]
  <2>1. \A q \in Pr!Promise : p_is_resolved[q] \in BOOLEAN
    BY DEF PInv, PTypes
  <2> QED  BY <1>5, <1>6, <1>7, <2>1
\* Before p is resolved nothing on its way is.
<1>10. \A k \in 1..n : ~p_is_resolved[c[k]]
  <2> DEFINE Bad == {k \in 1..n : p_is_resolved[c[k]]}
  <2> SUFFICES ASSUME Bad # {}  PROVE FALSE
    OBVIOUS
  <2>0. Bad \subseteq Nat
    BY <1>6
  <2>1. PICK k \in Bad : \A j \in Bad : k <= j
    <3> HIDE DEF Bad
    <3> QED  BY <2>0, LeastElement
  <2>2. k # 1
    BY <1>1, <1>6, <2>1
  <2>3. k - 1 \in 1..(n - 1) /\ k - 1 \in 1..n /\ ~(k <= k - 1) /\ (k - 1) + 1 = k
    BY <1>6, <2>1, <2>2
  <2>4. ~p_is_resolved[c[k - 1]]
    BY <2>1, <2>3
  <2>5. p_on_fulfilled[c[k - 1]] # 0 /\ c[k] = p_on_fulfilled[c[k - 1]]
    BY <1>3, <2>3 DEF Way, n
  <2>6. p_expects[c[k]] = <<c[k - 1], c[k]>> /\ c[k] \in 1..p_made /\ c[k - 1] \in 1..p_made
    <3>1. c[k] \in 1..p_made /\ c[k - 1] \in 1..p_made /\ c[k - 1] \in Pr!Promise
      BY <1>6, <2>1, <2>3
    <3> QED  BY <2>5, <3>1 DEF PInv, PLinks
  <2>7. p_expects[c[k]][1] = c[k - 1] /\ c[k - 1] # 0
    BY <2>6
  <2>8. p_is_resolved[c[k]] <=> p_is_resolved[c[k - 1]]
    BY <2>6, <2>7 DEF PInv, Pr!PromisesSettle, Pr!NULL
  <2> QED  BY <2>1, <2>4, <2>8
<1>11. ASSUME NEW q \in 1..p_made, p_expects[q][1] # 0
       PROVE  /\ p_expects[q][1] \in 1..p_made /\ q \in Pr!Promise /\ p_expects[q][1] \in Pr!Promise
              /\ p_expects[q][2] = q
              /\ ~p_is_resolved[p_expects[q][1]] => p_on_fulfilled[p_expects[q][1]] = q
  <2>1. p_expects[q] \in Nat \X Nat
    BY DEF PInv, PTypes
  <2>2. /\ p_expects[q][1] < q /\ p_expects[q][2] = q
        /\ ~p_is_resolved[p_expects[q][1]] => p_on_fulfilled[p_expects[q][1]] = q
    BY <1>11 DEF PInv, PLinks
  <2> QED  BY <1>2, <1>11, <2>1, <2>2 DEF Pr!Promise
<1>12. PTypes'
  <2>1. \A q \in reached : h[at(q)] \in Seq(Nat)
    BY <1>4, <1>7, <1>8 DEF n
  <2> QED  BY <1>1, <1>5, <2>1 DEF PInv, PTypes, Pr!Promise
<1>13. PLinks'
  <2>1. \A q \in Pr!Promise : p_is_resolved[q] => p_is_resolved'[q]
    BY <1>5
  <2>2. \A q \in 1..p_made : p_expects[q][1] # 0 =>
          /\ p_expects[q][1] < q /\ p_expects[q][2] = q
          /\ ~p_is_resolved'[p_expects[q][1]] => p_on_fulfilled[p_expects[q][1]] = q
    BY <1>11, <2>1 DEF PInv, PLinks
  <2> QED  BY <1>1, <2>2 DEF PInv, PLinks, Pr!Promise
<1>14. PFresh'
  <2>1. \A q \in reached : q <= p_made /\ q \in 1..p_made
    BY <1>6, <1>8
  <2>2. \A q \in Pr!Promise : q > p_made => q \notin reached
    BY <1>2, <2>1 DEF Pr!Promise
  <2> QED  BY <1>1, <1>9, <2>2 DEF PInv, PFresh, Pr!Promise
<1>15. Pr!PromisesSettle'
  <2>1. ASSUME NEW q \in 1..p_made, p_expects[q][1] # 0
        PROVE  LET from == p_expects[q][1] IN
               /\ p_is_resolved'[q] <=> p_is_resolved'[from]
               /\ p_is_resolved'[q] => p_value'[q] = Append(p_value'[from], p_expects[q][2])
    <3> DEFINE from == p_expects[q][1]
    <3>1. /\ from \in 1..p_made /\ from \in Pr!Promise /\ q \in Pr!Promise /\ from # 0
          /\ p_expects[q][2] = q /\ (~p_is_resolved[from] => p_on_fulfilled[from] = q)
      BY <1>11, <2>1
    <3>2. /\ p_is_resolved[q] <=> p_is_resolved[from]
          /\ p_is_resolved[q] => p_value[q] = Append(p_value[from], q)
      BY <2>1, <3>1 DEF PInv, Pr!PromisesSettle, Pr!NULL, Pr!Apply
    <3>3. CASE from \in reached
      <4>1. PICK k \in 1..n : from = c[k]
        BY <1>8, <3>3
      <4>2. p_on_fulfilled[from] = q /\ k # n
        <5>1. p_on_fulfilled[from] = q
          BY <1>10, <3>1, <4>1
        <5>2. q # 0
          BY <1>2
        <5> QED  BY <1>3, <4>1, <5>1, <5>2 DEF n
      <4>3. k \in 1..(n - 1) /\ k + 1 \in 1..n
        BY <1>6, <4>2
      <4>4. c[k + 1] = q
        BY <1>3, <4>1, <4>2, <4>3 DEF Way, n
      <4>5. h[k + 1] = Append(h[k], q)
        BY <1>4, <4>1, <4>2, <4>3 DEF n
      <4>6. p_is_resolved'[q] /\ p_is_resolved'[from] /\ p_value'[q] = h[k + 1] /\ p_value'[from] = h[k]
        BY <1>9, <4>1, <4>3, <4>4
      <4> QED  BY <3>1, <4>5, <4>6
    <3>4. CASE from \notin reached
      <4>1. q \notin reached
        <5> SUFFICES ASSUME q \in reached  PROVE FALSE
          OBVIOUS
        <5>1. PICK k \in 1..n : q = c[k]
          BY <1>8
        <5>2. k # 1
          BY <1>1, <1>6, <2>1, <5>1
        <5>3. k - 1 \in 1..(n - 1) /\ k - 1 \in 1..n /\ (k - 1) + 1 = k
          BY <1>6, <5>2
        <5>4. p_on_fulfilled[c[k - 1]] # 0 /\ q = p_on_fulfilled[c[k - 1]]
          BY <1>3, <5>1, <5>3 DEF Way, n
        <5>5. p_expects[q] = <<c[k - 1], q>>
          BY <1>6, <5>3, <5>4 DEF PInv, PLinks
        <5>6. from = c[k - 1]
          BY <5>5
        <5> QED  BY <1>7, <3>4, <5>3, <5>6
      <4> QED  BY <1>9, <3>1, <3>2, <3>4, <4>1
    <3> QED  BY <3>3, <3>4
  <2> QED  BY <1>1, <2>1 DEF Pr!PromisesSettle, Pr!NULL, Pr!Apply
<1> QED  BY <1>12, <1>13, <1>14, <1>15 DEF PInv

\* Every step of the promises keeps the invariant.
LEMMA PStep == ASSUME PInv, Pr!Next \/ UNCHANGED prvars  PROVE PInv'
<1>1. CASE UNCHANGED prvars
  BY <1>1 DEF prvars, PInv, PTypes, PLinks, PFresh, Pr!PromisesSettle, Pr!Promise, Pr!NULL, Pr!Apply
<1> QED  BY <1>1, PNew, PThen, PResolve DEF Pr!Next

-----------------------------------------------------------------------------
(* Sets and their sizes.                                                   *)

\* The operators that RefCounts takes from the library are the library's.
LEMMA RcLibrary ==
    /\ \A S : Rc!Cardinality(S) = Cardinality(S)
    /\ \A f : Rc!Range(f) = {f[x] : x \in DOMAIN f}
    /\ \A s : Rc!Last(s) = s[Len(s)]
BY DEF Cardinality, Rc!Cardinality, Rc!Range, Rc!Last

\* The size of a part of a finite set, with a member more or less.
LEMMA SizeChange ==
    ASSUME NEW S, IsFiniteSet(S), NEW A \in SUBSET S, NEW x
    PROVE  /\ IsFiniteSet(A) /\ Cardinality(A) \in Nat
           /\ x \in A => Cardinality(A \ {x}) = Cardinality(A) - 1 /\ Cardinality(A) >= 1
           /\ x \notin A => Cardinality(A \cup {x}) = Cardinality(A) + 1
           /\ Cardinality(A) = 0 <=> A = {}
<1>1. IsFiniteSet(A)
  BY FS_Subset
<1>2. Cardinality(A) \in Nat /\ (Cardinality(A) = 0 <=> A = {})
  BY <1>1, FS_CardinalityType, FS_EmptySet
<1>3. x \in A => Cardinality(A \ {x}) = Cardinality(A) - 1
  BY <1>1, FS_RemoveElement
<1>4. x \notin A => Cardinality(A \cup {x}) = Cardinality(A) + 1
  BY <1>1, FS_AddElement
<1>5. x \in A => Cardinality(A) >= 1
  <2>1. x \in A => Cardinality(A) # 0
    BY <1>2
  <2> QED  BY <1>2, <2>1
<1> QED  BY <1>1, <1>2, <1>3, <1>4, <1>5

\* As many places of a sequence as members of what they name, if none is named twice.
LEMMA SameSize ==
    ASSUME NEW A, NEW B, IsFiniteSet(A), NEW f \in [A -> B],
           \A x, y \in A : f[x] = f[y] => x = y, \A z \in B : \E x \in A : f[x] = z
    PROVE  Cardinality(A) = Cardinality(B)
<1>1. f \in Bijection(A, B)
  BY DEF Bijection, Injection, Surjection, IsInjective
<1>2. ExistsBijection(A, B)
  BY <1>1 DEF ExistsBijection
<1> QED  BY <1>2, FS_Bijection

-----------------------------------------------------------------------------
(* Reference counts.                                                       *)

\* Types.
RTypes ==
    /\ MaxElements \in Nat /\ MaxNodes \in Nat
    /\ c_version \in {"a5/5.6", "a7/q3"}
    /\ c_element \in Seq([kind : {"int", "str"}, value : Values]) /\ Len(c_element) <= MaxElements
    /\ c_version = "a5/5.6" => \A e \in DOMAIN c_element : c_element[e].kind = "str"
    /\ c_ref_count \in [Rc!Elements -> Int] /\ c_refcount \in [Rc!Elements -> Int]
    /\ c_allocated \subseteq Rc!Elements /\ c_strings \subseteq Rc!Elements
    /\ c_held \in [Rc!Elements -> Nat]
    /\ c_elem \in [Rc!Nodes -> {0} \cup Rc!Elements]
    /\ c_next \in [Rc!Nodes -> {0} \cup Rc!Nodes] /\ c_prev \in [Rc!Nodes -> {0} \cup Rc!Nodes]
    /\ c_tree = [p \in DOMAIN c_tree |-> c_tree[p]] /\ IsFiniteSet(DOMAIN c_tree)

\* What is referred to has been made.
RMade ==
    /\ \A e \in Rc!Elements : c_held[e] > 0 => e \in DOMAIN c_element
    /\ \A n \in Rc!Nodes : c_elem[n] # 0 => c_elem[n] \in DOMAIN c_element
    /\ \A p \in DOMAIN c_tree : c_tree[p] \in DOMAIN c_element

\* The nodes of the list, from head to tail.
ListIs(s) ==
    /\ s \in Seq(Rc!Nodes)
    /\ \A j, k \in 1..Len(s) : s[j] = s[k] => j = k
    /\ c_head = (IF s = <<>> THEN 0 ELSE s[1]) /\ c_tail = (IF s = <<>> THEN 0 ELSE s[Len(s)])
    /\ \A k \in 1..Len(s) :
          /\ c_next[s[k]] = IF k = Len(s) THEN 0 ELSE s[k + 1]
          /\ c_prev[s[k]] = IF k = 1 THEN 0 ELSE s[k - 1]
    /\ \A n \in Rc!Nodes : c_elem[n] # 0 <=> \E k \in 1..Len(s) : n = s[k]

RList == \E s : ListIs(s)

\* The nodes with e, the places of e in the tree, and how many refer to it.
Listings(e) == {n \in Rc!Nodes : c_elem[n] = e}
Planted(e) == {p \in DOMAIN c_tree : c_tree[p] = e}
References == [e \in Rc!Elements |-> c_held[e] + Cardinality(Listings(e)) + Cardinality(Planted(e))]

\* The counts are R, and what has a count above 0 is there.
Counted(R, version, ref_count, refcount, allocated, strings) ==
    \A e \in Rc!Elements :
        /\ ref_count[e] = R[e] /\ (version = "a5/5.6" => refcount[e] = R[e])
        /\ e \in allocated <=> R[e] > 0
        /\ e \in strings <=> R[e] > 0

\* The counts are the references.
RCounts == Counted(References, c_version, c_ref_count, c_refcount, c_allocated, c_strings)

\* The order of the tree; every place is reached from the root.
RTree ==
    /\ \A p \in DOMAIN c_tree : p \in Seq({"left", "right"}) /\ \A k \in 0..Len(p) : SubSeq(p, 1, k) \in DOMAIN c_tree
    /\ Rc!TreeSorted

\* The invariant of refcount.c, list.c and tree.c.
RInv == RTypes /\ RMade /\ RList /\ RCounts /\ RTree

\* Nothing is made at first.
LEMMA RInit == ASSUME MaxElements \in Nat, MaxNodes \in Nat, Rc!Init  PROVE RInv
<1> USE DEF Rc!Init, Rc!Null
<1>1. c_tree = <<>> /\ DOMAIN c_tree = {}
  OBVIOUS
<1>2. RTypes
  <2>1. c_tree = [p \in DOMAIN c_tree |-> c_tree[p]]
    BY <1>1
  <2> QED  BY <1>1, <2>1, FS_EmptySet DEF RTypes
<1>3. RMade
  BY <1>1 DEF RMade
<1>4. RList
  <2>1. ListIs(<<>>)
    BY DEF ListIs
  <2> QED  BY <2>1 DEF RList
<1>5. RCounts
  <2>1. \A e \in Rc!Elements : Listings(e) = {} /\ Planted(e) = {}
    BY <1>1 DEF Listings, Planted, Rc!Elements
  <2>2. \A e \in Rc!Elements : References[e] = 0
    <3> TAKE e \in Rc!Elements
    <3>1. References[e] = c_held[e] + Cardinality(Listings(e)) + Cardinality(Planted(e))
      BY DEF References
    <3>2. c_held[e] = 0
      OBVIOUS
    <3>3. Listings(e) = {} /\ Planted(e) = {}
      BY <2>1
    <3>4. Cardinality({}) = 0
      BY FS_EmptySet
    <3> QED  BY <3>1, <3>2, <3>3, <3>4
  <2> QED  BY <2>2 DEF RCounts, Counted
<1>6. RTree
  BY <1>1 DEF RTree, Rc!TreeSorted
<1> QED  BY <1>2, <1>3, <1>4, <1>5, <1>6 DEF RInv

\* The references of an element are a number, and so are its three parts.
LEMMA ReferenceSizes ==
    ASSUME RInv, NEW e \in Rc!Elements
    PROVE  /\ References[e] \in Nat
           /\ References[e] = c_held[e] + Cardinality(Listings(e)) + Cardinality(Planted(e))
           /\ c_held[e] \in Nat /\ Cardinality(Listings(e)) \in Nat /\ Cardinality(Planted(e)) \in Nat
           /\ IsFiniteSet(Rc!Nodes) /\ IsFiniteSet(DOMAIN c_tree)
           /\ IsFiniteSet(Listings(e)) /\ IsFiniteSet(Planted(e))
<1>1. IsFiniteSet(Rc!Nodes) /\ IsFiniteSet(DOMAIN c_tree) /\ c_held[e] \in Nat
  <2>1. MaxNodes \in Int /\ IsFiniteSet(DOMAIN c_tree) /\ c_held[e] \in Nat
    BY DEF RInv, RTypes
  <2> QED  BY <2>1, FS_Interval DEF Rc!Nodes
<1>2. Listings(e) \in SUBSET Rc!Nodes /\ Planted(e) \in SUBSET DOMAIN c_tree
  BY DEF Listings, Planted
<1>3. /\ Cardinality(Listings(e)) \in Nat /\ Cardinality(Planted(e)) \in Nat
      /\ IsFiniteSet(Listings(e)) /\ IsFiniteSet(Planted(e))
  BY <1>1, <1>2, SizeChange
<1> QED  BY <1>1, <1>3 DEF References

\* The nodes found from head on, one call of list_node_get_next after the other.
AfterStep(a) ==
    [k \in 0..MaxNodes |->
        IF k = 0 THEN (IF c_head = Rc!Null THEN <<>> ELSE <<c_head>>)
        ELSE IF a[k - 1] = <<>> \/ c_next[Rc!Last(a[k - 1])] = Rc!Null THEN a[k - 1]
             ELSE Append(a[k - 1], c_next[Rc!Last(a[k - 1])])]

Afters == CHOOSE a : a = AfterStep(a)

\* The model's list is the last of these.
LEMMA ListedFromAfters == Rc!Listed = Afters[MaxNodes]
BY DEF Rc!Listed, Afters, AfterStep

\* No more nodes are in the list than there are.
LEMMA ShortList ==
    ASSUME RInv, NEW s, ListIs(s)
    PROVE  Len(s) \in Nat /\ Len(s) <= MaxNodes /\ MaxNodes \in Nat
<1>1. MaxNodes \in Nat /\ Len(s) \in Nat /\ s \in [1..Len(s) -> Rc!Nodes]
  BY DEF RInv, RTypes, ListIs
<1>2. s \in Injection(1..Len(s), Rc!Nodes)
  BY <1>1 DEF ListIs, Injection, IsInjective
<1>3. /\ IsFiniteSet(Rc!Nodes) /\ Cardinality(Rc!Nodes) = MaxNodes
      /\ Cardinality(1..Len(s)) = Len(s)
  <2>1. IsFiniteSet(1..MaxNodes) /\ Cardinality(1..MaxNodes) = IF 1 > MaxNodes THEN 0 ELSE MaxNodes - 1 + 1
    BY <1>1, FS_Interval
  <2>2. Cardinality(1..Len(s)) = IF 1 > Len(s) THEN 0 ELSE Len(s) - 1 + 1
    BY <1>1, FS_Interval
  <2> QED  BY <1>1, <2>1, <2>2 DEF Rc!Nodes
<1>4. Cardinality(1..Len(s)) <= Cardinality(Rc!Nodes)
  BY <1>2, <1>3, FS_Injection
<1> QED  BY <1>1, <1>3, <1>4

\* One element further in a sequence.
LEMMA OneFurther ==
    ASSUME NEW S, NEW s \in Seq(S), NEW k \in 1..(Len(s) - 1)
    PROVE  /\ SubSeq(s, 1, k) \in Seq(S) /\ Len(SubSeq(s, 1, k)) = k /\ SubSeq(s, 1, k)[k] = s[k]
           /\ Append(SubSeq(s, 1, k), s[k + 1]) = SubSeq(s, 1, k + 1)
OBVIOUS

\* What the clients of the list find in it.
LEMMA ListedIs == ASSUME RInv, NEW s, ListIs(s)  PROVE Rc!Listed = s
<1> DEFINE N == MaxNodes
           upto(k) == IF k < Len(s) THEN SubSeq(s, 1, k + 1) ELSE s
           more(c) == IF c = <<>> \/ c_next[c[Len(c)]] = 0 THEN c ELSE Append(c, c_next[c[Len(c)]])
           first == IF c_head = 0 THEN <<>> ELSE <<c_head>>
           f == [k \in 0..N |-> upto(k)]
<1>1. Len(s) \in Nat /\ Len(s) <= N /\ N \in Nat /\ s \in Seq(Rc!Nodes)
  BY ShortList DEF ListIs
<1>2. \A k \in 1..Len(s) : s[k] \in Rc!Nodes /\ s[k] # 0
  BY <1>1 DEF Rc!Nodes
<1>3. upto(0) = first
  <2>1. CASE s = <<>>
    BY <2>1 DEF ListIs
  <2>2. CASE s # <<>>
    <3>1. Len(s) # 0 /\ c_head = s[1] /\ c_head # 0
      BY <1>1, <1>2, <2>2 DEF ListIs
    <3>2. SubSeq(s, 1, 1) = <<s[1]>>
      <4>1. 1 \in 1..Len(s) /\ 1 \in 1..1 /\ s[1] \in Rc!Nodes
        BY <1>1, <1>2, <3>1
      <4>2. SubSeq(s, 1, 1) = <<s[1]>> \o SubSeq(s, 2, 1)
        BY <1>1, <4>1, SubSeqRecursiveFirst
      <4>3. SubSeq(s, 2, 1) = <<>>
        BY SubSeqEmpty
      <4>4. <<s[1]>> \in Seq(Rc!Nodes)
        BY <4>1
      <4>5. <<s[1]>> \o <<>> = <<s[1]>>
        BY <4>4, ConcatEmptySeq
      <4> QED  BY <4>2, <4>3, <4>5
    <3> QED  BY <1>1, <3>1, <3>2
  <2> QED  BY <2>1, <2>2
<1>4. ASSUME NEW k \in 1..N  PROVE upto(k) = more(upto(k - 1))
  <2>1. CASE k < Len(s)
    <3>1. k \in 1..(Len(s) - 1) /\ k - 1 < Len(s) /\ (k - 1) + 1 = k /\ k \in 1..Len(s) /\ k + 1 \in 1..Len(s)
      BY <1>1, <2>1
    <3> DEFINE c == SubSeq(s, 1, k)
    <3>2. upto(k - 1) = c /\ upto(k) = SubSeq(s, 1, k + 1)
      BY <2>1, <3>1
    <3>3. Len(c) = k /\ c[k] = s[k] /\ Append(c, s[k + 1]) = SubSeq(s, 1, k + 1) /\ c # <<>>
      <4>1. Len(c) = k /\ c[k] = s[k] /\ Append(c, s[k + 1]) = SubSeq(s, 1, k + 1)
        BY <1>1, <3>1, OneFurther
      <4> QED  BY <3>1, <4>1
    <3>4. c_next[s[k]] = s[k + 1] /\ s[k + 1] # 0
      BY <1>2, <2>1, <3>1 DEF ListIs
    <3> HIDE DEF c, upto
    <3> QED  BY <3>2, <3>3, <3>4
  <2>2. CASE ~(k < Len(s))
    <3>1. upto(k) = s /\ upto(k - 1) = s
      <4>1. CASE k - 1 < Len(s)
        <5>1. k = Len(s) /\ (k - 1) + 1 = Len(s)
          BY <1>1, <2>2, <4>1
        <5>2. SubSeq(s, 1, Len(s)) = s
          BY <1>1
        <5> QED  BY <2>2, <4>1, <5>1, <5>2
      <4>2. CASE ~(k - 1 < Len(s))
        BY <2>2, <4>2
      <4> QED  BY <4>1, <4>2
    <3>2. s = <<>> \/ c_next[s[Len(s)]] = 0
      <4>1. s # <<>> => Len(s) \in 1..Len(s)
        BY <1>1
      <4> QED  BY <4>1 DEF ListIs
    <3> HIDE DEF upto
    <3> QED  BY <3>1, <3>2
  <2> QED  BY <2>1, <2>2
<1>5. f = AfterStep(f)
  <2>1. ASSUME NEW k \in 0..N  PROVE f[k] = IF k = 0 THEN first ELSE more(f[k - 1])
    <3> HIDE DEF upto, first, more
    <3>1. CASE k = 0
      BY <1>1, <1>3, <3>1
    <3>2. CASE k # 0
      <4>1. k \in 1..N /\ k - 1 \in 0..N
        BY <1>1, <3>2
      <4> QED  BY <1>4, <3>2, <4>1
    <3> QED  BY <3>1, <3>2
  <2> DEFINE F == [k \in 0..N |-> IF k = 0 THEN first ELSE more(f[k - 1])]
  <2>2. AfterStep(f) = F
    BY DEF AfterStep, Rc!Null, Rc!Last
  <2>3. f = F
    <3>1. f = [k \in 0..N |-> f[k]]
      OBVIOUS
    <3> HIDE DEF upto, first, more, f
    <3> QED  BY <2>1, <3>1
  <2> QED  BY <2>2, <2>3
<1> DEFINE a == Afters
<1>6. a = AfterStep(a)
  BY <1>5 DEF Afters
<1>7. a[0] = first /\ \A k \in 1..N : a[k] = more(a[k - 1])
  <2> HIDE DEF a
  <2> DEFINE F == [k \in 0..N |-> IF k = 0 THEN first ELSE more(a[k - 1])]
  <2>1. AfterStep(a) = F
    BY DEF AfterStep, Rc!Null, Rc!Last
  <2>2. a = F
    BY <1>6, <2>1
  <2>3. F[0] = first /\ \A k \in 1..N : F[k] = more(a[k - 1])
    <3> HIDE DEF first, more
    <3> QED  BY <1>1
  <2> QED  BY <2>2, <2>3
<1> HIDE DEF a
<1> DEFINE Bad == {k \in 0..N : a[k] # upto(k)}
<1>8. Bad = {}
  <2> SUFFICES ASSUME Bad # {}  PROVE FALSE
    OBVIOUS
  <2> HIDE DEF upto, first, more
  <2>0. Bad \subseteq Nat
    BY <1>1
  <2>1. PICK k \in Bad : \A j \in Bad : k <= j
    <3> HIDE DEF Bad
    <3> QED  BY <2>0, LeastElement
  <2>2. k # 0
    BY <1>3, <1>7, <2>1
  <2>3. k \in 1..N /\ k - 1 \in 0..N /\ ~(k <= k - 1)
    BY <1>1, <2>1, <2>2
  <2>4. a[k - 1] = upto(k - 1)
    BY <2>1, <2>3
  <2> QED  BY <1>4, <1>7, <2>1, <2>3, <2>4
<1>9. a[N] = s
  <2>1. N \in 0..N /\ ~(N < Len(s))
    BY <1>1
  <2>2. a[N] = upto(N)
    <3> HIDE DEF upto, N
    <3> QED  BY <1>8, <2>1
  <2> QED  BY <2>1, <2>2
<1> QED  BY <1>9, ListedFromAfters DEF a

\* What list_delete gives back: one reference for each node.
LEMMA ListedDrops ==
    ASSUME RInv, NEW e \in Rc!Elements
    PROVE  Rc!Drops(Rc!ListedElements, e) = Cardinality(Listings(e))
<1>1. PICK s : ListIs(s)
  BY DEF RInv, RList
<1>2. Rc!Listed = s /\ s \in Seq(Rc!Nodes) /\ Len(s) \in Nat /\ DOMAIN s = 1..Len(s)
  BY <1>1, ListedIs DEF ListIs
<1> DEFINE A == {k \in 1..Len(s) : c_elem[s[k]] = e}
           f == [k \in A |-> s[k]]
<1>3. Rc!Drops(Rc!ListedElements, e) = Cardinality(A)
  <2> DEFINE es == [k \in 1..Len(s) |-> c_elem[s[k]]]
  <2>1. Rc!ListedElements = es
    BY <1>2 DEF Rc!ListedElements
  <2>2. {k \in DOMAIN es : es[k] = e} = A
    OBVIOUS
  <2> HIDE DEF es, A
  <2> QED  BY <2>1, <2>2, RcLibrary DEF Rc!Drops
<1>4. IsFiniteSet(A)
  <2>1. A \in SUBSET (1..Len(s)) /\ IsFiniteSet(1..Len(s))
    <3>1. 1 \in Int /\ Len(s) \in Int
      BY <1>2
    <3> QED  BY <3>1, FS_Interval
  <2> HIDE DEF A
  <2> QED  BY <2>1, FS_Subset
<1>5. f \in [A -> Listings(e)] /\ \A x, y \in A : f[x] = f[y] => x = y
  <2>1. \A k \in A : s[k] \in Listings(e)
    BY <1>2 DEF Listings
  <2>2. \A x, y \in A : s[x] = s[y] => x = y
    BY <1>1 DEF ListIs
  <2> HIDE DEF A
  <2> QED  BY <2>1, <2>2
<1>6. \A z \in Listings(e) : \E x \in A : f[x] = z
  <2> TAKE z \in Listings(e)
  <2>1. z \in Rc!Nodes /\ c_elem[z] = e /\ e # 0
    BY DEF Listings, Rc!Elements
  <2>2. PICK k \in 1..Len(s) : z = s[k]
    BY <1>1, <2>1 DEF ListIs
  <2> QED  BY <2>1, <2>2
<1> HIDE DEF f, A
<1>7. Cardinality(A) = Cardinality(Listings(e))
  BY <1>4, <1>5, <1>6, SameSize
<1> QED  BY <1>3, <1>7

\* What tree_delete gives back: one for each place in the tree.
LEMMA PlantedDrops ==
    ASSUME RInv, NEW e \in Rc!Elements
    PROVE  Rc!Drops(Rc!InTree, e) = Cardinality(Planted(e))
<1> DEFINE D == DOMAIN c_tree
           n == Cardinality(D)
           paths == Rc!SetToSeq(D)
<1>1. IsFiniteSet(D) /\ n \in Nat /\ ExistsBijection(1..n, D)
  <2>1. IsFiniteSet(D)
    BY DEF RInv, RTypes
  <2> QED  BY <2>1, FS_CardinalityType
<1>2. \E b : b \in Bijection(1..n, D)
  BY <1>1 DEF ExistsBijection
<1>3. paths \in [1..n -> D] /\ \A x, y \in 1..n : paths[x] = paths[y] => x = y
  <2>1. paths = CHOOSE b \in [1..n -> D] : \A x, y \in DOMAIN b : b[x] = b[y] => x = y
    BY RcLibrary DEF Rc!SetToSeq, Rc!IsInjective
  <2>2. \E b \in [1..n -> D] : \A x, y \in DOMAIN b : b[x] = b[y] => x = y
    BY <1>2 DEF Bijection, Injection, IsInjective
  <2> HIDE DEF paths, n, D
  <2>3. paths \in [1..n -> D] /\ \A x, y \in DOMAIN paths : paths[x] = paths[y] => x = y
    BY <2>1, <2>2
  <2> QED  BY <2>3
<1>4. \A z \in D : \E x \in 1..n : paths[x] = z
  <2>1. paths \in Injection(1..n, D)
    BY <1>3 DEF Injection, IsInjective
  <2>2. Cardinality(1..n) = n
    <3>1. Cardinality(1..n) = IF 1 > n THEN 0 ELSE n - 1 + 1
      BY <1>1, FS_Interval
    <3> HIDE DEF n
    <3> QED  BY <1>1, <3>1
  <2>3. paths \in Surjection(1..n, D)
    BY <1>1, <2>1, <2>2, FS_Injection
  <2> QED  BY <2>3 DEF Surjection
<1> HIDE DEF paths
<1> DEFINE A == {k \in 1..n : c_tree[paths[k]] = e}
           f == [k \in A |-> paths[k]]
<1>5. Rc!Drops(Rc!InTree, e) = Cardinality(A)
  <2> DEFINE es == [k \in DOMAIN paths |-> c_tree[paths[k]]]
  <2>1. Rc!InTree = es
    BY DEF Rc!InTree, paths
  <2>2. {k \in DOMAIN es : es[k] = e} = A
    BY <1>3
  <2> HIDE DEF es, A
  <2> QED  BY <2>1, <2>2, RcLibrary DEF Rc!Drops
<1>6. IsFiniteSet(A)
  <2>1. A \in SUBSET (1..n) /\ IsFiniteSet(1..n)
    BY <1>1, FS_Interval
  <2> HIDE DEF A
  <2> QED  BY <2>1, FS_Subset
<1>7. f \in [A -> Planted(e)] /\ \A x, y \in A : f[x] = f[y] => x = y
  <2> HIDE DEF n
  <2> QED  BY <1>3 DEF Planted
<1>8. \A z \in Planted(e) : \E x \in A : f[x] = z
  <2> HIDE DEF n
  <2> QED  BY <1>4 DEF Planted
<1> HIDE DEF f, A
<1>9. Cardinality(A) = Cardinality(Planted(e))
  BY <1>6, <1>7, <1>8, SameSize
<1> QED  BY <1>5, <1>9

\* A sequence of one element names it once.
LEMMA OneDrop ==
    ASSUME NEW e, NEW f  PROVE Rc!Drops(<<e>>, f) = IF f = e THEN 1 ELSE 0
<1> DEFINE A == {k \in DOMAIN <<e>> : <<e>>[k] = f}
<1>1. A = IF f = e THEN {1} ELSE {}
  OBVIOUS
<1>2. Rc!Drops(<<e>>, f) = Cardinality(A)
  BY RcLibrary DEF Rc!Drops
<1> HIDE DEF A
<1> QED  BY <1>1, <1>2, FS_EmptySet, FS_Singleton

-----------------------------------------------------------------------------
(* The counts follow the references.                                       *)

\* One more reference to e.
LEMMA KeepCounts ==
    ASSUME RInv, NEW e \in Rc!Elements, e \in DOMAIN c_element, References[e] > 0, Rc!el_keep_ref(e), c_version' = c_version,
           NEW R, \A f \in Rc!Elements : R[f] = References[f] + IF f = e THEN 1 ELSE 0
    PROVE  /\ Counted(R, c_version', c_ref_count', c_refcount', c_allocated', c_strings')
           /\ c_ref_count' \in [Rc!Elements -> Int] /\ c_refcount' \in [Rc!Elements -> Int]
           /\ c_allocated' = c_allocated /\ c_strings' = c_strings
<1>1. /\ c_ref_count' = [c_ref_count EXCEPT ![e] = @ + 1]
      /\ c_refcount' = IF c_version = "a5/5.6" THEN [c_refcount EXCEPT ![e] = @ + 1] ELSE c_refcount
      /\ c_allocated' = c_allocated /\ c_strings' = c_strings
  BY DEF Rc!el_keep_ref, Rc!rc_keep_ref
<1>2. \A f \in Rc!Elements : References[f] \in Nat
  BY ReferenceSizes
<1>3. /\ c_ref_count \in [Rc!Elements -> Int] /\ c_refcount \in [Rc!Elements -> Int]
      /\ Counted(References, c_version, c_ref_count, c_refcount, c_allocated, c_strings)
  BY DEF RInv, RTypes, RCounts
<1>4. ASSUME NEW f \in Rc!Elements
      PROVE  /\ c_ref_count'[f] = R[f] /\ (c_version' = "a5/5.6" => c_refcount'[f] = R[f])
             /\ (f \in c_allocated' <=> R[f] > 0) /\ (f \in c_strings' <=> R[f] > 0)
  BY <1>1, <1>2, <1>3 DEF Counted
<1> QED  BY <1>1, <1>3, <1>4 DEF Counted

\* As many references less as a sequence of elements names.
LEMMA FreeCounts ==
    ASSUME RInv, NEW es, Rc!el_free_refs(es), c_version' = c_version,
           NEW R, \A f \in Rc!Elements : R[f] \in Nat /\ Rc!Drops(es, f) \in Nat /\ R[f] = References[f] - Rc!Drops(es, f)
    PROVE  /\ Counted(R, c_version', c_ref_count', c_refcount', c_allocated', c_strings')
           /\ c_ref_count' \in [Rc!Elements -> Int] /\ c_refcount' \in [Rc!Elements -> Int]
           /\ c_allocated' \subseteq Rc!Elements /\ c_strings' \subseteq Rc!Elements
<1>1. /\ c_ref_count' = [f \in Rc!Elements |-> c_ref_count[f] - Rc!Drops(es, f)]
      /\ c_allocated' = {f \in c_allocated : Rc!Drops(es, f) = 0 \/ c_ref_count'[f] # 0}
      /\ c_version = "a5/5.6" =>
            /\ c_refcount' = [f \in Rc!Elements |-> c_refcount[f] - Rc!Drops(es, f)]
            /\ c_strings' = {f \in c_strings : Rc!Drops(es, f) = 0 \/ c_refcount'[f] # 0}
      /\ c_version # "a5/5.6" =>
            c_strings' = {f \in c_strings : f \in c_allocated'} /\ c_refcount' = c_refcount
  BY DEF Rc!el_free_refs, Rc!rc_free_refs
<1>2. \A f \in Rc!Elements : References[f] \in Nat
  BY ReferenceSizes
<1>3. /\ c_ref_count \in [Rc!Elements -> Int] /\ c_refcount \in [Rc!Elements -> Int]
      /\ c_allocated \subseteq Rc!Elements /\ c_strings \subseteq Rc!Elements
      /\ Counted(References, c_version, c_ref_count, c_refcount, c_allocated, c_strings)
  BY DEF RInv, RTypes, RCounts
<1>4. ASSUME NEW f \in Rc!Elements
      PROVE  /\ c_ref_count'[f] = R[f] /\ (c_version' = "a5/5.6" => c_refcount'[f] = R[f])
             /\ (f \in c_allocated' <=> R[f] > 0) /\ (f \in c_strings' <=> R[f] > 0)
  <2>1. /\ c_ref_count[f] = References[f] /\ (c_version = "a5/5.6" => c_refcount[f] = References[f])
        /\ (f \in c_allocated <=> References[f] > 0) /\ (f \in c_strings <=> References[f] > 0)
    BY <1>3 DEF Counted
  <2>2. c_ref_count'[f] = R[f]
    BY <1>1, <2>1
  <2>3. f \in c_allocated' <=> R[f] > 0
    BY <1>1, <1>2, <2>1, <2>2
  <2>4. CASE c_version = "a5/5.6"
    <3>1. c_refcount'[f] = R[f]
      BY <1>1, <2>1, <2>4
    <3>2. f \in c_strings' <=> R[f] > 0
      BY <1>1, <1>2, <2>1, <2>4, <3>1
    <3> QED  BY <2>2, <2>3, <3>1, <3>2
  <2>5. CASE c_version # "a5/5.6"
    <3>1. f \in c_strings' <=> R[f] > 0
      BY <1>1, <1>2, <2>1, <2>3, <2>5
    <3> QED  BY <2>2, <2>3, <2>5, <3>1
  <2> QED  BY <2>4, <2>5
<1>5. /\ c_ref_count' \in [Rc!Elements -> Int] /\ c_refcount' \in [Rc!Elements -> Int]
  <2>1. \A f \in Rc!Elements : Rc!Drops(es, f) \in Int /\ c_ref_count[f] \in Int /\ c_refcount[f] \in Int
    BY <1>3
  <2> QED  BY <1>1, <1>3, <2>1
<1> QED  BY <1>1, <1>3, <1>4, <1>5 DEF Counted

\* The variables of the list.
RListVars == <<c_head, c_tail, c_elem, c_prev, c_next>>

\* What leaves the list alone keeps its order, and the same of the tree.
LEMMA SameListAndTree ==
    /\ RList /\ UNCHANGED RListVars => RList'
    /\ RTree /\ RMade /\ UNCHANGED <<c_tree, c_version>> /\ (\A f \in DOMAIN c_element : c_element'[f] = c_element[f]) => RTree'
<1>1. ASSUME RList, UNCHANGED RListVars  PROVE RList'
  BY <1>1 DEF RList, ListIs, RListVars, Rc!Nodes
<1>2. ASSUME RTree, RMade, UNCHANGED <<c_tree, c_version>>, \A f \in DOMAIN c_element : c_element'[f] = c_element[f]
      PROVE RTree'
  <2>1. \A p \in DOMAIN c_tree : c_element'[c_tree[p]] = c_element[c_tree[p]]
    BY <1>2 DEF RMade
  <2>2. Rc!TreeSorted'
    BY <1>2, <2>1 DEF RTree, Rc!TreeSorted
  <2> QED  BY <1>2, <2>2 DEF RTree
<1> QED  BY <1>1, <1>2

\* The references after a step.
LEMMA ReferencesNext ==
    \A f \in Rc!Elements :
        References'[f] = c_held'[f] + Cardinality({n \in Rc!Nodes : c_elem'[n] = f})
                                    + Cardinality({p \in DOMAIN c_tree' : c_tree'[p] = f})
BY DEF References, Listings, Planted, Rc!Elements, Rc!Nodes

\* Nobody refers to what is not made.
LEMMA NotMade ==
    ASSUME RInv, NEW e \in Rc!Elements, e \notin DOMAIN c_element
    PROVE  References[e] = 0
<1>1. Listings(e) = {} /\ Planted(e) = {}
  BY DEF RInv, RMade, Listings, Planted, Rc!Elements
<1>2. c_held[e] = 0
  BY DEF RInv, RTypes, RMade
<1> QED  BY <1>1, <1>2, ReferenceSizes, FS_EmptySet

\* A new element has the one reference of the client.
LEMMA RNew ==
    ASSUME RInv, NEW kind \in {"int", "str"}, NEW value \in Values, Rc!element_new(kind, value)
    PROVE  RInv'
<1> DEFINE e == Len(c_element) + 1
           r == [kind |-> kind, value |-> value]
<1>1. /\ e \in Rc!Elements /\ (kind = "int" => c_version = "a7/q3")
      /\ c_element' = Append(c_element, r)
      /\ c_ref_count' = [c_ref_count EXCEPT ![e] = 1]
      /\ c_refcount' = IF c_version = "a5/5.6" THEN [c_refcount EXCEPT ![e] = 1] ELSE c_refcount
      /\ c_allocated' = c_allocated \cup {e} /\ c_strings' = c_strings \cup {e}
      /\ c_held' = [c_held EXCEPT ![e] = 1]
      /\ UNCHANGED <<c_version, c_tree>> /\ UNCHANGED RListVars
  BY DEF Rc!element_new, Rc!list_vars, RListVars
<1>2. /\ c_element' \in Seq([kind : {"int", "str"}, value : Values]) /\ Len(c_element') = e
      /\ \A f \in DOMAIN c_element : c_element'[f] = c_element[f]
      /\ c_element'[e] = r /\ DOMAIN c_element' = DOMAIN c_element \cup {e} /\ e \notin DOMAIN c_element
      /\ e \in Nat /\ e <= MaxElements
  <2> DEFINE S == [kind : {"int", "str"}, value : Values]
  <2>1. r \in S /\ c_element \in Seq(S)
    BY DEF RInv, RTypes
  <2>2. e \in Nat /\ e <= MaxElements
    BY <1>1, <2>1 DEF RInv, RTypes, Rc!Elements
  <2> HIDE DEF S, r
  <2>3. /\ Append(c_element, r) \in Seq(S) /\ Len(Append(c_element, r)) = e /\ Len(c_element) \in Nat
        /\ \A k \in 1..Len(c_element) : Append(c_element, r)[k] = c_element[k]
        /\ Append(c_element, r)[e] = r
    BY <2>1, AppendFacts
  <2>4. DOMAIN c_element = 1..Len(c_element) /\ DOMAIN c_element' = 1..Len(c_element')
    BY <1>1, <2>1, <2>3
  <2>5. 1..e = 1..Len(c_element) \cup {e} /\ e \notin 1..Len(c_element)
    BY <2>3, OneMore
  <2> QED  BY <1>1, <2>2, <2>3, <2>4, <2>5 DEF S
<1>3. r.kind = kind
  OBVIOUS
<1> HIDE DEF e, r
<1>4. RTypes'
  <2>1. \A f \in DOMAIN c_element' : c_version' = "a5/5.6" => c_element'[f].kind = "str"
    BY <1>1, <1>2, <1>3 DEF RInv, RTypes
  <2>2. /\ c_ref_count' \in [Rc!Elements -> Int] /\ c_refcount' \in [Rc!Elements -> Int] /\ c_held' \in [Rc!Elements -> Nat]
        /\ c_allocated' \subseteq Rc!Elements /\ c_strings' \subseteq Rc!Elements
    BY <1>1 DEF RInv, RTypes
  <2> QED  BY <1>1, <1>2, <2>1, <2>2 DEF RInv, RTypes, RListVars, Rc!Elements, Rc!Nodes
<1>5. RMade'
  <2>1. \A f \in Rc!Elements : c_held'[f] > 0 => f \in DOMAIN c_element'
    BY <1>1, <1>2 DEF RInv, RTypes, RMade
  <2> QED  BY <1>1, <1>2, <2>1 DEF RInv, RMade, RListVars, Rc!Elements, Rc!Nodes
<1>6. RList' /\ RTree'
  BY <1>1, <1>2, SameListAndTree DEF RInv
<1>7. RCounts'
  <2>1. ASSUME NEW f \in Rc!Elements
        PROVE  References'[f] = c_held'[f] + Cardinality(Listings(f)) + Cardinality(Planted(f))
    BY <1>1, ReferencesNext DEF Listings, Planted, RListVars
  <2>2. References'[e] = 1
    <3>1. References[e] = 0
      BY <1>1, <1>2, NotMade
    <3>2. Cardinality(Listings(e)) + Cardinality(Planted(e)) = 0 /\ c_held'[e] = 1
      BY <1>1, <3>1, ReferenceSizes DEF RInv, RTypes
    <3> QED  BY <1>1, <2>1, <3>2, ReferenceSizes
  <2>3. ASSUME NEW f \in Rc!Elements, f # e  PROVE References'[f] = References[f]
    <3>1. c_held'[f] = c_held[f]
      BY <1>1, <2>3
    <3> QED  BY <2>1, <3>1, ReferenceSizes
  <2>4. ASSUME NEW f \in Rc!Elements
        PROVE  /\ c_ref_count'[f] = References'[f] /\ (c_version' = "a5/5.6" => c_refcount'[f] = References'[f])
               /\ (f \in c_allocated' <=> References'[f] > 0) /\ (f \in c_strings' <=> References'[f] > 0)
    <3>1. CASE f = e
      BY <1>1, <2>2, <3>1 DEF RInv, RTypes
    <3>2. CASE f # e
      <4>1. /\ c_ref_count'[f] = c_ref_count[f] /\ (c_version = "a5/5.6" => c_refcount'[f] = c_refcount[f])
            /\ (f \in c_allocated' <=> f \in c_allocated) /\ (f \in c_strings' <=> f \in c_strings)
        BY <1>1, <3>2 DEF RInv, RTypes
      <4> QED  BY <1>1, <2>3, <3>2, <4>1 DEF RInv, RCounts, Counted
    <3> QED  BY <3>1, <3>2
  <2> QED  BY <2>4 DEF RCounts, Counted, Rc!Elements
<1> QED  BY <1>4, <1>5, <1>6, <1>7 DEF RInv

\* The client keeps one more.
LEMMA RKeep == ASSUME RInv, NEW e \in Rc!Elements, Rc!Keep(e)  PROVE RInv'
<1>1. /\ c_held[e] > 0 /\ Rc!el_keep_ref(e) /\ c_held' = [c_held EXCEPT ![e] = @ + 1]
      /\ UNCHANGED <<c_version, c_element, c_tree>> /\ UNCHANGED RListVars
  BY DEF Rc!Keep, Rc!list_vars, RListVars
<1>2. e \in DOMAIN c_element /\ References[e] > 0
  BY <1>1, ReferenceSizes DEF RInv, RMade
<1>3. \A f \in Rc!Elements : References'[f] = References[f] + IF f = e THEN 1 ELSE 0
  <2> TAKE f \in Rc!Elements
  <2>1. References'[f] = c_held'[f] + Cardinality(Listings(f)) + Cardinality(Planted(f))
    BY <1>1, ReferencesNext DEF Listings, Planted, RListVars
  <2>2. c_held'[f] = c_held[f] + IF f = e THEN 1 ELSE 0
    BY <1>1 DEF RInv, RTypes
  <2> QED  BY <2>1, <2>2, ReferenceSizes
<1>4. /\ Counted(References', c_version', c_ref_count', c_refcount', c_allocated', c_strings')
      /\ c_ref_count' \in [Rc!Elements -> Int] /\ c_refcount' \in [Rc!Elements -> Int]
      /\ c_allocated' = c_allocated /\ c_strings' = c_strings
  BY <1>1, <1>2, <1>3, KeepCounts
<1>5. RTypes'
  <2>1. c_held' \in [Rc!Elements -> Nat]
    BY <1>1 DEF RInv, RTypes
  <2> QED  BY <1>1, <1>4, <2>1 DEF RInv, RTypes, RListVars, Rc!Elements, Rc!Nodes
<1>6. RMade'
  BY <1>1, <1>2 DEF RInv, RTypes, RMade, RListVars, Rc!Elements, Rc!Nodes
<1>7. RList' /\ RTree'
  BY <1>1, SameListAndTree DEF RInv
<1> QED  BY <1>4, <1>5, <1>6, <1>7 DEF RInv, RCounts, Counted, Rc!Elements

\* The client gives one up.
LEMMA RDelete == ASSUME RInv, NEW e \in Rc!Elements, Rc!element_delete(e)  PROVE RInv'
<1>1. /\ c_held[e] > 0 /\ Rc!el_free_refs(<<e>>) /\ c_held' = [c_held EXCEPT ![e] = @ - 1]
      /\ UNCHANGED <<c_version, c_element, c_tree>> /\ UNCHANGED RListVars
  BY DEF Rc!element_delete, Rc!list_vars, RListVars
<1>2. \A f \in Rc!Elements : c_held'[f] \in Nat /\ c_held'[f] = c_held[f] - IF f = e THEN 1 ELSE 0
  BY <1>1 DEF RInv, RTypes
<1>3. \A f \in Rc!Elements :
          /\ References'[f] \in Nat /\ Rc!Drops(<<e>>, f) \in Nat
          /\ References'[f] = References[f] - Rc!Drops(<<e>>, f)
  <2> TAKE f \in Rc!Elements
  <2>1. References'[f] = c_held'[f] + Cardinality(Listings(f)) + Cardinality(Planted(f))
    BY <1>1, ReferencesNext DEF Listings, Planted, RListVars
  <2>2. Rc!Drops(<<e>>, f) = IF f = e THEN 1 ELSE 0
    BY OneDrop
  <2> QED  BY <1>2, <2>1, <2>2, ReferenceSizes
<1>4. /\ Counted(References', c_version', c_ref_count', c_refcount', c_allocated', c_strings')
      /\ c_ref_count' \in [Rc!Elements -> Int] /\ c_refcount' \in [Rc!Elements -> Int]
      /\ c_allocated' \subseteq Rc!Elements /\ c_strings' \subseteq Rc!Elements
  BY <1>1, <1>3, FreeCounts
<1>5. RTypes'
  <2>1. c_held' \in [Rc!Elements -> Nat]
    BY <1>1, <1>2 DEF RInv, RTypes
  <2> QED  BY <1>1, <1>4, <2>1 DEF RInv, RTypes, RListVars, Rc!Elements, Rc!Nodes
<1>6. RMade'
  <2>1. \A f \in Rc!Elements : c_held'[f] > 0 => c_held[f] > 0
    BY <1>1, <1>2 DEF RInv, RTypes
  <2> QED  BY <1>1, <2>1 DEF RInv, RMade, RListVars, Rc!Elements, Rc!Nodes
<1>7. RList' /\ RTree'
  BY <1>1, SameListAndTree DEF RInv
<1> QED  BY <1>4, <1>5, <1>6, <1>7 DEF RInv, RCounts, Counted, Rc!Elements

-----------------------------------------------------------------------------
(* The list of nodes.                                                      *)

\* A node at the end.
LEMMA ListAppend ==
    ASSUME RInv, NEW s, ListIs(s), NEW n \in Rc!Nodes, \A k \in 1..Len(s) : s[k] # n, NEW e \in Rc!Elements,
           c_elem' = [c_elem EXCEPT ![n] = e],
           c_next' = IF c_head = 0 THEN [c_next EXCEPT ![n] = 0] ELSE [c_next EXCEPT ![n] = 0, ![c_tail] = n],
           c_prev' = [c_prev EXCEPT ![n] = IF c_head = 0 THEN 0 ELSE c_tail],
           c_head' = IF c_head = 0 THEN n ELSE c_head, c_tail' = n
    PROVE  ListIs(Append(s, n))'
<1> DEFINE t == Append(s, n)
           l == Len(s)
<1>1. /\ s \in Seq(Rc!Nodes) /\ l \in Nat /\ \A k \in 1..l : s[k] \in Rc!Nodes
      /\ t \in Seq(Rc!Nodes) /\ Len(t) = l + 1 /\ t[l + 1] = n /\ \A k \in 1..l : t[k] = s[k]
  BY AppendFacts DEF ListIs
<1>2. n # 0 /\ e # 0 /\ \A k \in 1..l : s[k] # 0
  BY <1>1 DEF Rc!Nodes, Rc!Elements
<1>3. /\ s = <<>> <=> l = 0
      /\ l = 0 => c_head = 0 /\ c_tail = 0
      /\ l # 0 => 1 \in 1..l /\ l \in 1..l /\ c_head = s[1] /\ c_tail = s[l] /\ c_head # 0
  <2>1. s = <<>> <=> l = 0
    BY <1>1
  <2>2. l # 0 => 1 \in 1..l /\ l \in 1..l
    BY <1>1
  <2> QED  BY <1>2, <2>1, <2>2 DEF ListIs
<1>4. /\ c_elem \in [Rc!Nodes -> {0} \cup Rc!Elements]
      /\ c_next \in [Rc!Nodes -> {0} \cup Rc!Nodes] /\ c_prev \in [Rc!Nodes -> {0} \cup Rc!Nodes]
  BY DEF RInv, RTypes
<1> HIDE DEF t, l
<1>5. ASSUME NEW k \in 1..(l + 1)
      PROVE  /\ c_next'[t[k]] = IF k = l + 1 THEN 0 ELSE t[k + 1]
             /\ c_prev'[t[k]] = IF k = 1 THEN 0 ELSE t[k - 1]
  <2>1. CASE k = l + 1
    <3>1. t[k] = n /\ c_prev'[n] = IF c_head = 0 THEN 0 ELSE c_tail
      BY <1>1, <1>4, <2>1
    <3>2. c_next'[n] = 0
      <4>1. c_head # 0 => c_tail # n
        BY <1>3 DEF l
      <4> QED  BY <1>4, <4>1
    <3>3. k # 1 => l # 0 /\ t[k - 1] = s[l] /\ k - 1 = l
      BY <1>1, <1>3, <2>1
    <3>4. k = 1 => l = 0
      BY <1>1, <2>1
    <3> QED  BY <1>3, <2>1, <3>1, <3>2, <3>3, <3>4
  <2>2. CASE k # l + 1
    <3>1. k \in 1..l /\ t[k] = s[k] /\ s[k] \in Rc!Nodes /\ s[k] # n /\ l # 0
      BY <1>1, <2>2 DEF l
    <3>2. c_prev'[s[k]] = c_prev[s[k]]
      BY <1>4, <3>1
    <3>3. c_prev[s[k]] = IF k = 1 THEN 0 ELSE t[k - 1]
      <4>1. k # 1 => k - 1 \in 1..l
        BY <1>1, <3>1
      <4> QED  BY <1>1, <3>1, <4>1 DEF ListIs, l
    <3>4. c_next'[s[k]] = t[k + 1]
      <4>1. CASE k = l
        BY <1>1, <1>3, <1>4, <3>1, <4>1
      <4>2. CASE k # l
        <5>1. k + 1 \in 1..l /\ s[k] # s[l]
          BY <1>1, <1>3, <3>1, <4>2 DEF ListIs, l
        <5>2. c_next'[s[k]] = c_next[s[k]]
          BY <1>3, <1>4, <3>1, <5>1
        <5> QED  BY <1>1, <3>1, <4>2, <5>1, <5>2 DEF ListIs, l
      <4> QED  BY <4>1, <4>2
    <3> QED  BY <2>2, <3>1, <3>2, <3>3, <3>4
  <2> QED  BY <2>1, <2>2
<1>6. \A j, k \in 1..(l + 1) : t[j] = t[k] => j = k
  <2> SUFFICES ASSUME NEW j \in 1..(l + 1), NEW k \in 1..(l + 1), t[j] = t[k]  PROVE j = k
    OBVIOUS
  <2>1. \A i \in 1..(l + 1) : i # l + 1 => i \in 1..l /\ t[i] = s[i] /\ t[i] # n
    BY <1>1 DEF l
  <2> QED  BY <1>1, <2>1 DEF ListIs, l
<1>7. \A m \in Rc!Nodes : c_elem'[m] # 0 <=> \E k \in 1..(l + 1) : m = t[k]
  <2> TAKE m \in Rc!Nodes
  <2>1. CASE m = n
    <3>1. l + 1 \in 1..(l + 1)
      BY <1>1
    <3> QED  BY <1>1, <1>2, <1>4, <2>1, <3>1
  <2>2. CASE m # n
    <3>1. c_elem'[m] = c_elem[m]
      BY <1>4, <2>2
    <3>2. (\E k \in 1..(l + 1) : m = t[k]) <=> \E k \in 1..l : m = s[k]
      BY <1>1, <2>2
    <3> QED  BY <3>1, <3>2 DEF ListIs, l
  <2> QED  BY <2>1, <2>2
<1>8. t # <<>> /\ c_head' = t[1] /\ c_tail' = t[Len(t)]
  <2>1. t # <<>>
    BY <1>1
  <2> QED  BY <1>1, <1>3, <2>1
<1>9. Len(t) = l + 1
  BY <1>1
<1>10. ListIs(t)'
  <2>1. \A j, k \in 1..Len(t) : t[j] = t[k] => j = k
    BY <1>6, <1>9
  <2>2. \A k \in 1..Len(t) : /\ c_next'[t[k]] = IF k = Len(t) THEN 0 ELSE t[k + 1]
                             /\ c_prev'[t[k]] = IF k = 1 THEN 0 ELSE t[k - 1]
    BY <1>5, <1>9
  <2>3. \A m \in Rc!Nodes : c_elem'[m] # 0 <=> \E k \in 1..Len(t) : m = t[k]
    BY <1>7, <1>9
  <2>4. t \in Seq(Rc!Nodes)
    BY <1>1
  <2> QED  BY <1>8, <2>1, <2>2, <2>3, <2>4 DEF ListIs, Rc!Nodes
<1> QED  BY <1>10 DEF t

\* A node less.
LEMMA ListRemove ==
    ASSUME RInv, NEW s, ListIs(s), NEW i \in 1..Len(s), Rc!Unlink(s[i]), c_elem' = [c_elem EXCEPT ![s[i]] = 0]
    PROVE  RList'
<1> DEFINE n == s[i]
           l == Len(s)
           t == [k \in 1..(l - 1) |-> IF k < i THEN s[k] ELSE s[k + 1]]
<1>1. /\ s \in Seq(Rc!Nodes) /\ l \in Nat /\ \A k \in 1..l : s[k] \in Rc!Nodes /\ s[k] # 0
      /\ n \in Rc!Nodes /\ i \in 1..l /\ l # 0 /\ 1 \in 1..l /\ l \in 1..l /\ l - 1 \in Nat
  <2>1. s \in Seq(Rc!Nodes)
    BY DEF ListIs
  <2>2. l \in Nat /\ \A k \in 1..l : s[k] \in Rc!Nodes
    BY <2>1
  <2>3. l # 0 /\ 1 \in 1..l /\ l \in 1..l /\ l - 1 \in Nat /\ i \in 1..l
    BY <2>2
  <2>4. \A m \in Rc!Nodes : m # 0
    BY DEF Rc!Nodes
  <2> QED  BY <2>1, <2>2, <2>3, <2>4
<1>2. /\ \A j, k \in 1..l : s[j] = s[k] => j = k
      /\ \A k \in 1..l : /\ c_next[s[k]] = IF k = l THEN 0 ELSE s[k + 1]
                         /\ c_prev[s[k]] = IF k = 1 THEN 0 ELSE s[k - 1]
      /\ \A m \in Rc!Nodes : c_elem[m] # 0 <=> \E k \in 1..l : m = s[k]
      /\ c_head = s[1] /\ c_tail = s[l]
  <2>1. s # <<>>
    BY <1>1
  <2> QED  BY <2>1 DEF ListIs
<1>3. /\ c_head' = (IF n = c_head THEN c_next[n] ELSE c_head)
      /\ c_tail' = (IF n = c_tail THEN c_prev[n] ELSE c_tail)
      /\ \A m \in Rc!Nodes : m # n =>
            /\ c_next'[m] = IF n # c_head /\ m = c_prev[n] THEN c_next[n] ELSE c_next[m]
            /\ c_prev'[m] = IF n # c_tail /\ m = c_next[n] THEN c_prev[n] ELSE c_prev[m]
  BY DEF Rc!Unlink
<1>4. /\ n = c_head <=> i = 1
      /\ n = c_tail <=> i = l
      /\ c_next[n] = IF i = l THEN 0 ELSE s[i + 1]
      /\ c_prev[n] = IF i = 1 THEN 0 ELSE s[i - 1]
  BY <1>1, <1>2
<1>5. /\ t \in Seq(Rc!Nodes) /\ Len(t) = l - 1
      /\ \A k \in 1..(l - 1) : t[k] = IF k < i THEN s[k] ELSE s[k + 1]
  <2>1. \A k \in 1..(l - 1) : t[k] \in Rc!Nodes
    <3> TAKE k \in 1..(l - 1)
    <3>1. k \in 1..l /\ k + 1 \in 1..l
      BY <1>1
    <3> QED  BY <1>1, <3>1
  <2>2. t \in [1..(l - 1) -> Rc!Nodes]
    BY <2>1
  <2> HIDE DEF l
  <2> QED  BY <1>1, <2>2
<1>6. \A k \in 1..(l - 1) : k \in 1..l /\ k + 1 \in 1..l
  BY <1>1
<1> HIDE DEF t, l, n
<1>7. ASSUME NEW k \in 1..(l - 1)
      PROVE  /\ c_next'[t[k]] = IF k = l - 1 THEN 0 ELSE t[k + 1]
             /\ c_prev'[t[k]] = IF k = 1 THEN 0 ELSE t[k - 1]
             /\ t[k] # n /\ t[k] \in Rc!Nodes
  <2> DEFINE q == IF k < i THEN k ELSE k + 1
  <2>1. t[k] = s[q] /\ q \in 1..l /\ q # i /\ s[q] # n /\ s[q] \in Rc!Nodes
    <3>1. t[k] = s[q] /\ q \in 1..l /\ q # i
      BY <1>1, <1>5, <1>6
    <3> QED  BY <1>1, <1>2, <3>1 DEF n
  <2>2. c_next'[s[q]] = IF k = l - 1 THEN 0 ELSE t[k + 1]
    <3>1. CASE q = i - 1
      <4>1. k = q /\ i # 1 /\ s[q] = c_prev[n]
        BY <1>1, <1>4, <2>1, <3>1
      <4>2. c_next'[s[q]] = c_next[n]
        BY <1>3, <1>4, <2>1, <4>1
      <4>3. k # l - 1 => k + 1 \in 1..(l - 1) /\ t[k + 1] = s[i + 1] /\ i # l
        BY <1>1, <1>5, <3>1, <4>1
      <4>4. k = l - 1 => i = l
        BY <1>1, <3>1, <4>1
      <4> QED  BY <1>4, <4>2, <4>3, <4>4
    <3>2. CASE q # i - 1
      <4>1. i # 1 => i - 1 \in 1..l /\ s[q] # s[i - 1]
        BY <1>1, <1>2, <2>1, <3>2
      <4>2. c_next'[s[q]] = c_next[s[q]]
        BY <1>3, <1>4, <2>1, <4>1
      <4>3. q = l <=> k = l - 1
        BY <1>1, <2>1, <3>2
      <4>4. k # l - 1 => k + 1 \in 1..(l - 1) /\ t[k + 1] = s[q + 1]
        BY <1>1, <1>5, <2>1, <3>2
      <4> QED  BY <1>2, <2>1, <4>2, <4>3, <4>4
    <3> QED  BY <3>1, <3>2
  <2>3. c_prev'[s[q]] = IF k = 1 THEN 0 ELSE t[k - 1]
    <3>1. CASE q = i + 1
      <4>1. k = i /\ i # l /\ s[q] = c_next[n]
        BY <1>1, <1>4, <2>1, <3>1
      <4>2. c_prev'[s[q]] = c_prev[n]
        BY <1>3, <1>4, <2>1, <4>1
      <4>3. k # 1 => k - 1 \in 1..(l - 1) /\ t[k - 1] = s[i - 1]
        BY <1>1, <1>5, <4>1
      <4> QED  BY <1>4, <4>1, <4>2, <4>3
    <3>2. CASE q # i + 1
      <4>1. i # l => i + 1 \in 1..l /\ s[q] # s[i + 1]
        BY <1>1, <1>2, <2>1, <3>2
      <4>2. c_prev'[s[q]] = c_prev[s[q]]
        BY <1>3, <1>4, <2>1, <4>1
      <4>3. q = 1 <=> k = 1
        BY <1>1, <2>1, <3>2
      <4>4. k # 1 => k - 1 \in 1..(l - 1) /\ t[k - 1] = s[q - 1]
        BY <1>1, <1>5, <2>1, <3>2
      <4> QED  BY <1>2, <2>1, <4>2, <4>3, <4>4
    <3> QED  BY <3>1, <3>2
  <2> QED  BY <2>1, <2>2, <2>3
<1>8. \A j, k \in 1..(l - 1) : t[j] = t[k] => j = k
  <2> SUFFICES ASSUME NEW j \in 1..(l - 1), NEW k \in 1..(l - 1), t[j] = t[k]  PROVE j = k
    OBVIOUS
  <2> DEFINE p == IF j < i THEN j ELSE j + 1
             q == IF k < i THEN k ELSE k + 1
  <2>1. t[j] = s[p] /\ t[k] = s[q] /\ p \in 1..l /\ q \in 1..l
    BY <1>1, <1>5, <1>6
  <2>2. p = q
    <3> HIDE DEF p, q
    <3>1. s[p] = s[q]
      BY <2>1
    <3>2. \A a, b \in 1..l : s[a] = s[b] => a = b
      BY <1>2
    <3> QED  BY <2>1, <3>1, <3>2
  <2> QED  BY <1>1, <2>2
<1>9. \A m \in Rc!Nodes : c_elem'[m] # 0 <=> \E k \in 1..(l - 1) : m = t[k]
  <2> TAKE m \in Rc!Nodes
  <2>0. c_elem \in [Rc!Nodes -> {0} \cup Rc!Elements]
    BY DEF RInv, RTypes
  <2>1. CASE m = n
    <3>1. c_elem'[m] = 0
      BY <1>1, <2>0, <2>1 DEF n
    <3> QED  BY <1>7, <2>1, <3>1
  <2>2. CASE m # n
    <3>1. c_elem'[m] = c_elem[m]
      BY <2>0, <2>2 DEF n
    <3>2. ASSUME NEW k \in 1..(l - 1), m = t[k]  PROVE \E j \in 1..l : m = s[j]
      BY <1>5, <1>6, <3>2
    <3>3. ASSUME NEW j \in 1..l, m = s[j]  PROVE \E k \in 1..(l - 1) : m = t[k]
      <4>1. j # i
        BY <2>2, <3>3 DEF n
      <4>2. CASE j < i
        <5>1. j \in 1..(l - 1) /\ t[j] = s[j]
          BY <1>1, <1>5, <4>2
        <5> QED  BY <3>3, <5>1
      <4>3. CASE j > i
        <5>1. j - 1 \in 1..(l - 1) /\ t[j - 1] = s[j]
          BY <1>1, <1>5, <4>3
        <5> QED  BY <3>3, <5>1
      <4> QED  BY <1>1, <4>1, <4>2, <4>3
    <3> QED  BY <1>2, <3>1, <3>2, <3>3
  <2> QED  BY <2>1, <2>2
<1>10. /\ c_head' = (IF t = <<>> THEN 0 ELSE t[1])
       /\ c_tail' = (IF t = <<>> THEN 0 ELSE t[Len(t)])
  <2>1. t = <<>> <=> l = 1
    BY <1>1, <1>5
  <2>2. CASE l = 1
    <3>1. i = 1 /\ i = l
      BY <1>1, <2>2
    <3> QED  BY <1>3, <1>4, <2>1, <3>1
  <2>3. CASE l # 1
    <3>1. 1 \in 1..(l - 1) /\ l - 1 \in 1..(l - 1)
      BY <1>1, <2>3
    <3>2. t[1] = (IF i = 1 THEN s[2] ELSE s[1]) /\ t[l - 1] = (IF i = l THEN s[l - 1] ELSE s[l])
      BY <1>1, <1>5, <2>3, <3>1
    <3>3. c_head' = IF i = 1 THEN s[2] ELSE s[1]
      BY <1>2, <1>3, <1>4, <2>3
    <3>4. c_tail' = IF i = l THEN s[l - 1] ELSE s[l]
      BY <1>2, <1>3, <1>4, <2>3
    <3> QED  BY <1>5, <2>1, <2>3, <3>2, <3>3, <3>4
  <2> QED  BY <2>2, <2>3
<1>11. ListIs(t)'
  BY <1>5, <1>7, <1>8, <1>9, <1>10 DEF ListIs, Rc!Nodes
<1> QED  BY <1>11 DEF RList

\* An element that the client or the list refers to.
LEMMA Referred ==
    ASSUME RInv, NEW e \in Rc!Elements, c_held[e] > 0 \/ e \in Rc!Range(Rc!ListedElements)
    PROVE  e \in DOMAIN c_element /\ References[e] > 0
<1>1. CASE c_held[e] > 0
  BY <1>1, ReferenceSizes DEF RInv, RMade
<1>2. CASE e \in Rc!Range(Rc!ListedElements)
  <2>1. PICK s : ListIs(s)
    BY DEF RInv, RList
  <2>2. Rc!Listed = s /\ s \in Seq(Rc!Nodes) /\ DOMAIN s = 1..Len(s)
    BY <2>1, ListedIs DEF ListIs
  <2>3. PICK k \in 1..Len(s) : e = c_elem[s[k]]
    <3>1. Rc!ListedElements = [k \in 1..Len(s) |-> c_elem[s[k]]]
      BY <2>2 DEF Rc!ListedElements
    <3> QED  BY <1>2, <3>1, RcLibrary
  <2>4. s[k] \in Rc!Nodes /\ e # 0
    BY <2>2 DEF Rc!Elements
  <2>5. s[k] \in Listings(e)
    BY <2>3, <2>4 DEF Listings
  <2>6. Cardinality(Listings(e)) # 0
    BY <2>5, ReferenceSizes, FS_EmptySet
  <2> QED  BY <2>3, <2>4, <2>6, ReferenceSizes DEF RInv, RMade
<1> QED  BY <1>1, <1>2

\* list_add_element: a7/q3 counts a reference of the list, a5/5.6 hands over the caller's.
LEMMA RAdd == ASSUME RInv, NEW e \in Rc!Elements, Rc!list_add_element(e)  PROVE RInv'
<1> DEFINE free == Rc!Nodes \ Rc!Range(Rc!Listed)
           least == Rc!Min(free)
<1>1. PICK s : ListIs(s)
  BY DEF RInv, RList
<1>2. Rc!Listed = s /\ s \in Seq(Rc!Nodes) /\ Len(s) \in Nat /\ DOMAIN s = 1..Len(s)
  BY <1>1, ListedIs DEF ListIs
<1>3. PICK n \in free : n = least
  <2>1. free # {}
    BY DEF Rc!list_add_element
  <2>2. free \subseteq Nat
    BY DEF Rc!Nodes
  <2> HIDE DEF free
  <2>3. PICK m \in free : \A k \in free : m <= k
    BY <2>1, <2>2, LeastElement
  <2> QED  BY <2>3 DEF Rc!Min
<1>4. n \in Rc!Nodes /\ \A k \in 1..Len(s) : s[k] # n
  <2> QED  BY <1>2, <1>3, RcLibrary
<1>5. /\ c_held[e] > 0
      /\ \/ c_version = "a7/q3" /\ Rc!el_keep_ref(e) /\ c_held' = c_held
         \/ c_version # "a7/q3" /\ c_held' = [c_held EXCEPT ![e] = @ - 1]
            /\ UNCHANGED <<c_ref_count, c_refcount, c_allocated, c_strings>>
      /\ c_elem' = [c_elem EXCEPT ![n] = e]
      /\ c_next' = IF c_head = 0 THEN [c_next EXCEPT ![n] = 0] ELSE [c_next EXCEPT ![n] = 0, ![c_tail] = n]
      /\ c_prev' = [c_prev EXCEPT ![n] = IF c_head = 0 THEN 0 ELSE c_tail]
      /\ c_head' = (IF c_head = 0 THEN n ELSE c_head) /\ c_tail' = n
      /\ UNCHANGED <<c_version, c_element, c_tree>>
  <2>1. n = Rc!Min(Rc!Nodes \ Rc!Range(Rc!Listed))
    BY <1>3
  <2> HIDE DEF free, least
  <2> QED  BY <2>1 DEF Rc!list_add_element, Rc!count_vars, Rc!Null
<1> HIDE DEF least, free
<1>6. e \in DOMAIN c_element /\ References[e] > 0 /\ e # 0
  BY <1>5, Referred DEF Rc!Elements
<1>7. RList'
  <2>1. /\ c_elem' = [c_elem EXCEPT ![n] = e]
        /\ c_next' = IF c_head = 0 THEN [c_next EXCEPT ![n] = 0] ELSE [c_next EXCEPT ![n] = 0, ![c_tail] = n]
        /\ c_prev' = [c_prev EXCEPT ![n] = IF c_head = 0 THEN 0 ELSE c_tail]
        /\ c_head' = (IF c_head = 0 THEN n ELSE c_head) /\ c_tail' = n
    BY <1>5
  <2>2. n \in Rc!Nodes /\ (\A k \in 1..Len(s) : s[k] # n)
    BY <1>4
  <2>3. ListIs(Append(s, n))'
    BY <1>1, <2>1, <2>2, ListAppend
  <2> QED  BY <2>3 DEF RList
<1>8. c_elem[n] = 0
  BY <1>1, <1>4 DEF ListIs
<1>9. c_elem \in [Rc!Nodes -> {0} \cup Rc!Elements] /\ c_held \in [Rc!Elements -> Nat]
  BY DEF RInv, RTypes
<1>10. ASSUME NEW f \in Rc!Elements
       PROVE  References'[f] = c_held'[f] + Cardinality(Listings(f)) + (IF f = e THEN 1 ELSE 0) + Cardinality(Planted(f))
  <2> DEFINE L == {m \in Rc!Nodes : c_elem'[m] = f}
  <2>1. References'[f] = c_held'[f] + Cardinality(L) + Cardinality(Planted(f))
    BY <1>5, ReferencesNext DEF Planted
  <2>2. n \notin Listings(f) /\ Listings(f) \in SUBSET Rc!Nodes
    BY <1>8 DEF Listings, Rc!Elements
  <2>3. L = IF f = e THEN Listings(f) \cup {n} ELSE Listings(f)
    BY <1>4, <1>5, <1>8, <1>9 DEF Listings, Rc!Elements
  <2> HIDE DEF L
  <2>4. Cardinality(Listings(f) \cup {n}) = Cardinality(Listings(f)) + 1
    BY <2>2, ReferenceSizes, SizeChange
  <2>5. c_held'[f] \in Int
    BY <1>5, <1>9
  <2>6. Cardinality(L) = Cardinality(Listings(f)) + IF f = e THEN 1 ELSE 0
    BY <2>3, <2>4, ReferenceSizes
  <2>7. Cardinality(Listings(f)) \in Nat /\ Cardinality(Planted(f)) \in Nat
    BY ReferenceSizes
  <2> QED  BY <2>1, <2>5, <2>6, <2>7
<1>11. /\ Counted(References', c_version', c_ref_count', c_refcount', c_allocated', c_strings')
       /\ c_ref_count' \in [Rc!Elements -> Int] /\ c_refcount' \in [Rc!Elements -> Int]
       /\ c_allocated' = c_allocated /\ c_strings' = c_strings
       /\ c_held' \in [Rc!Elements -> Nat] /\ \A f \in Rc!Elements : c_held'[f] > 0 => c_held[f] > 0
  <2>1. CASE c_version = "a7/q3"
    <3>1. Rc!el_keep_ref(e) /\ c_held' = c_held
      BY <1>5, <2>1
    <3>2. \A f \in Rc!Elements : References'[f] = References[f] + IF f = e THEN 1 ELSE 0
      BY <1>10, <3>1, ReferenceSizes
    <3> QED  BY <1>5, <1>6, <1>9, <3>1, <3>2, KeepCounts
  <2>2. CASE c_version # "a7/q3"
    <3>1. c_held' = [c_held EXCEPT ![e] = @ - 1] /\ UNCHANGED <<c_ref_count, c_refcount, c_allocated, c_strings>>
      BY <1>5, <2>2
    <3>2. c_held' \in [Rc!Elements -> Nat] /\ \A f \in Rc!Elements : c_held'[f] = c_held[f] - IF f = e THEN 1 ELSE 0
      BY <1>5, <1>9, <3>1
    <3>3. \A f \in Rc!Elements : References'[f] = References[f]
      BY <1>9, <1>10, <3>2, ReferenceSizes
    <3> QED  BY <1>5, <3>1, <3>2, <3>3 DEF RInv, RTypes, RCounts, Counted
  <2> QED  BY <2>1, <2>2
<1>12. RTypes'
  <2>1. c_elem' \in [Rc!Nodes -> {0} \cup Rc!Elements]
    BY <1>5, <1>9
  <2>2. c_tail \in {0} \cup Rc!Nodes /\ c_next \in [Rc!Nodes -> {0} \cup Rc!Nodes] /\ c_prev \in [Rc!Nodes -> {0} \cup Rc!Nodes]
    <3>1. s # <<>> => Len(s) \in 1..Len(s)
      BY <1>2
    <3> QED  BY <1>1, <1>2, <3>1 DEF RInv, RTypes, ListIs
  <2>3. c_next' \in [Rc!Nodes -> {0} \cup Rc!Nodes] /\ c_prev' \in [Rc!Nodes -> {0} \cup Rc!Nodes]
    BY <1>4, <1>5, <2>2
  <2>4. UNCHANGED <<c_version, c_element, c_tree>>
    BY <1>5
  <2> QED  BY <1>11, <2>1, <2>3, <2>4 DEF RInv, RTypes, Rc!Elements, Rc!Nodes
<1>13. RMade'
  BY <1>4, <1>5, <1>6, <1>9, <1>11 DEF RInv, RMade, Rc!Elements, Rc!Nodes
<1>14. RTree'
  BY <1>5, SameListAndTree DEF RInv
<1> QED  BY <1>7, <1>11, <1>12, <1>13, <1>14 DEF RInv, RCounts, Counted, Rc!Elements

\* list_delete_element: the reference of one node.
LEMMA RListDeleteElement == ASSUME RInv, NEW n \in Rc!Nodes, Rc!list_delete_element(n)  PROVE RInv'
<1> DEFINE x == c_elem[n]
<1>1. PICK s : ListIs(s)
  BY DEF RInv, RList
<1>2. Rc!Listed = s /\ s \in Seq(Rc!Nodes) /\ Len(s) \in Nat /\ DOMAIN s = 1..Len(s)
  BY <1>1, ListedIs DEF ListIs
<1>3. /\ n \in Rc!Range(Rc!Listed) /\ Rc!Unlink(n) /\ Rc!el_free_refs(<<x>>)
      /\ c_elem' = [c_elem EXCEPT ![n] = 0]
      /\ UNCHANGED <<c_version, c_element, c_held, c_tree>>
  BY DEF Rc!list_delete_element, Rc!Null
<1>4. PICK i \in 1..Len(s) : n = s[i]
  BY <1>2, <1>3, RcLibrary
<1>5. /\ c_elem \in [Rc!Nodes -> {0} \cup Rc!Elements] /\ c_held \in [Rc!Elements -> Nat]
      /\ c_next \in [Rc!Nodes -> {0} \cup Rc!Nodes] /\ c_prev \in [Rc!Nodes -> {0} \cup Rc!Nodes]
  BY DEF RInv, RTypes
<1>6. RList'
  BY <1>1, <1>3, <1>4, ListRemove
<1>7. x \in Rc!Elements
  BY <1>1, <1>4, <1>5 DEF ListIs
<1>8. \A f \in Rc!Elements :
          /\ References'[f] \in Nat /\ Rc!Drops(<<x>>, f) \in Nat
          /\ References'[f] = References[f] - Rc!Drops(<<x>>, f)
  <2> TAKE f \in Rc!Elements
  <2> DEFINE L == {m \in Rc!Nodes : c_elem'[m] = f}
  <2>1. References'[f] = c_held[f] + Cardinality(L) + Cardinality(Planted(f))
    BY <1>3, ReferencesNext DEF Planted
  <2>2. Rc!Drops(<<x>>, f) = IF f = x THEN 1 ELSE 0
    BY OneDrop
  <2>3. Listings(f) \in SUBSET Rc!Nodes /\ (n \in Listings(f) <=> f = x)
    BY DEF Listings
  <2>4. L = Listings(f) \ {n}
    BY <1>3, <1>5 DEF Listings, Rc!Elements
  <2> HIDE DEF L, x
  <2>5. f = x => Cardinality(L) = Cardinality(Listings(f)) - 1 /\ Cardinality(Listings(f)) >= 1
    BY <2>3, <2>4, ReferenceSizes, SizeChange
  <2>6. f # x => L = Listings(f)
    BY <2>3, <2>4
  <2>7. CASE f = x
    <3>1. References'[f] = References[f] - 1 /\ References'[f] \in Nat
      BY <2>1, <2>5, <2>7, ReferenceSizes
    <3> QED  BY <2>2, <2>7, <3>1
  <2>8. CASE f # x
    <3>1. References'[f] = References[f] /\ References'[f] \in Nat
      BY <2>1, <2>6, <2>8, ReferenceSizes
    <3> QED  BY <2>2, <2>8, <3>1
  <2> QED  BY <2>7, <2>8
<1> HIDE DEF x
<1>9. /\ Counted(References', c_version', c_ref_count', c_refcount', c_allocated', c_strings')
      /\ c_ref_count' \in [Rc!Elements -> Int] /\ c_refcount' \in [Rc!Elements -> Int]
      /\ c_allocated' \subseteq Rc!Elements /\ c_strings' \subseteq Rc!Elements
  <2> DEFINE es == <<x>>
  <2>1. Rc!el_free_refs(es)
    BY <1>3
  <2>2. \A f \in Rc!Elements : References'[f] \in Nat /\ Rc!Drops(es, f) \in Nat /\ References'[f] = References[f] - Rc!Drops(es, f)
    BY <1>8
  <2> HIDE DEF es
  <2> QED  BY <1>3, <2>1, <2>2, FreeCounts
<1>10. RTypes'
  <2>1. c_elem' \in [Rc!Nodes -> {0} \cup Rc!Elements]
    BY <1>3, <1>5
  <2>2. c_next' \in [Rc!Nodes -> {0} \cup Rc!Nodes] /\ c_prev' \in [Rc!Nodes -> {0} \cup Rc!Nodes]
    <3>1. /\ c_next' = [m \in Rc!Nodes |-> IF m = n THEN 0 ELSE IF n # c_head /\ m = c_prev[n] THEN c_next[n] ELSE c_next[m]]
          /\ c_prev' = [m \in Rc!Nodes |-> IF m = n THEN 0 ELSE IF n # c_tail /\ m = c_next[n] THEN c_prev[n] ELSE c_prev[m]]
      BY <1>3 DEF Rc!Unlink, Rc!Null
    <3> QED  BY <1>5, <3>1
  <2> QED  BY <1>3, <1>9, <2>1, <2>2 DEF RInv, RTypes, Rc!Elements, Rc!Nodes
<1>11. RMade'
  BY <1>3, <1>5 DEF RInv, RMade, Rc!Elements, Rc!Nodes
<1>12. RTree'
  BY <1>3, SameListAndTree DEF RInv
<1> QED  BY <1>6, <1>9, <1>10, <1>11, <1>12 DEF RInv, RCounts, Counted, Rc!Elements

\* list_delete: the references of all nodes.
LEMMA RListDelete == ASSUME RInv, Rc!list_delete  PROVE RInv'
<1>1. /\ Rc!el_free_refs(Rc!ListedElements)
      /\ c_head' = 0 /\ c_tail' = 0
      /\ c_elem' = [n \in Rc!Nodes |-> 0] /\ c_prev' = [n \in Rc!Nodes |-> 0] /\ c_next' = [n \in Rc!Nodes |-> 0]
      /\ UNCHANGED <<c_version, c_element, c_held, c_tree>>
  BY DEF Rc!list_delete, Rc!Null
<1>2. RList'
  <2>1. ListIs(<<>>)'
    BY <1>1 DEF ListIs, Rc!Nodes
  <2> QED  BY <2>1 DEF RList
<1>3. \A f \in Rc!Elements :
          /\ References'[f] \in Nat /\ Rc!Drops(Rc!ListedElements, f) \in Nat
          /\ References'[f] = References[f] - Rc!Drops(Rc!ListedElements, f)
  <2> TAKE f \in Rc!Elements
  <2>1. References'[f] = c_held[f] + Cardinality({}) + Cardinality(Planted(f))
    <3>1. {m \in Rc!Nodes : c_elem'[m] = f} = {}
      BY <1>1 DEF Rc!Elements
    <3> QED  BY <1>1, <3>1, ReferencesNext DEF Planted
  <2>2. Rc!Drops(Rc!ListedElements, f) = Cardinality(Listings(f))
    BY ListedDrops
  <2> QED  BY <2>1, <2>2, ReferenceSizes, FS_EmptySet
<1>4. /\ Counted(References', c_version', c_ref_count', c_refcount', c_allocated', c_strings')
      /\ c_ref_count' \in [Rc!Elements -> Int] /\ c_refcount' \in [Rc!Elements -> Int]
      /\ c_allocated' \subseteq Rc!Elements /\ c_strings' \subseteq Rc!Elements
  <2> DEFINE es == Rc!ListedElements
  <2>1. Rc!el_free_refs(es)
    BY <1>1
  <2>2. \A f \in Rc!Elements : References'[f] \in Nat /\ Rc!Drops(es, f) \in Nat /\ References'[f] = References[f] - Rc!Drops(es, f)
    BY <1>3
  <2> HIDE DEF es
  <2> QED  BY <1>1, <2>1, <2>2, FreeCounts
<1>5. RTypes'
  BY <1>1, <1>4 DEF RInv, RTypes, Rc!Elements, Rc!Nodes
<1>6. RMade'
  BY <1>1 DEF RInv, RMade, Rc!Elements, Rc!Nodes
<1>7. RTree'
  BY <1>1, SameListAndTree DEF RInv
<1> QED  BY <1>2, <1>4, <1>5, <1>6, <1>7 DEF RInv, RCounts, Counted, Rc!Elements

\* tree_delete: the references of all places.
LEMMA RTreeDelete == ASSUME RInv, Rc!tree_delete  PROVE RInv'
<1>1. /\ Rc!el_free_refs(Rc!InTree) /\ c_tree' = <<>>
      /\ UNCHANGED <<c_version, c_element, c_held>> /\ UNCHANGED RListVars
  BY DEF Rc!tree_delete, Rc!list_vars, RListVars
<1>2. c_tree' = <<>> /\ DOMAIN c_tree' = {}
  BY <1>1
<1>3. \A f \in Rc!Elements :
          /\ References'[f] \in Nat /\ Rc!Drops(Rc!InTree, f) \in Nat
          /\ References'[f] = References[f] - Rc!Drops(Rc!InTree, f)
  <2> TAKE f \in Rc!Elements
  <2>1. References'[f] = c_held[f] + Cardinality(Listings(f)) + Cardinality({})
    <3>1. {p \in DOMAIN c_tree' : c_tree'[p] = f} = {}
      BY <1>2
    <3> QED  BY <1>1, <3>1, ReferencesNext DEF Listings, RListVars
  <2>2. Rc!Drops(Rc!InTree, f) = Cardinality(Planted(f))
    BY PlantedDrops
  <2> QED  BY <2>1, <2>2, ReferenceSizes, FS_EmptySet
<1>4. /\ Counted(References', c_version', c_ref_count', c_refcount', c_allocated', c_strings')
      /\ c_ref_count' \in [Rc!Elements -> Int] /\ c_refcount' \in [Rc!Elements -> Int]
      /\ c_allocated' \subseteq Rc!Elements /\ c_strings' \subseteq Rc!Elements
  <2> DEFINE es == Rc!InTree
  <2>1. Rc!el_free_refs(es)
    BY <1>1
  <2>2. \A f \in Rc!Elements : References'[f] \in Nat /\ Rc!Drops(es, f) \in Nat /\ References'[f] = References[f] - Rc!Drops(es, f)
    BY <1>3
  <2> HIDE DEF es
  <2> QED  BY <1>1, <2>1, <2>2, FreeCounts
<1>5. RTypes'
  <2>1. c_tree' = [p \in DOMAIN c_tree' |-> c_tree'[p]] /\ IsFiniteSet(DOMAIN c_tree')
    BY <1>2, FS_EmptySet
  <2> QED  BY <1>1, <1>4, <2>1 DEF RInv, RTypes, RListVars, Rc!Elements, Rc!Nodes
<1>6. RMade'
  BY <1>1, <1>2 DEF RInv, RMade, RListVars, Rc!Elements, Rc!Nodes
<1>7. RList'
  BY <1>1, SameListAndTree DEF RInv
<1>8. RTree'
  BY <1>2 DEF RTree, Rc!TreeSorted
<1> QED  BY <1>4, <1>5, <1>6, <1>7, <1>8 DEF RInv, RCounts, Counted, Rc!Elements

\* The order that element.h asks for, between what is below and what is above.
Ordered(below, above, left, version) ==
    IF below.kind = "str" /\ above.kind = "str" /\ version = "a7/q3" THEN TRUE
    ELSE IF below.kind # above.kind THEN left <=> below.kind = "int"
    ELSE left <=> below.value <= above.value

\* TreeSorted by means of it.
LEMMA TreeIsOrdered ==
    /\ Rc!TreeSorted <=> \A p, q \in DOMAIN c_tree : Len(p) < Len(q) /\ SubSeq(q, 1, Len(p)) = p =>
            Ordered(c_element[c_tree[q]], c_element[c_tree[p]], q[Len(p) + 1] = "left", c_version)
    /\ Rc!TreeSorted' <=> \A p, q \in DOMAIN c_tree' : Len(p) < Len(q) /\ SubSeq(q, 1, Len(p)) = p =>
            Ordered(c_element'[c_tree'[q]], c_element'[c_tree'[p]], q[Len(p) + 1] = "left", c_version')
BY DEF Rc!TreeSorted, Ordered

\* The ways to a place are the ways to its parent, and itself.
LEMMA WaysToPlace ==
    ASSUME RTree, NEW p, NEW q \in DOMAIN c_tree, NEW turn \in {"left", "right"}, p = Append(q, turn)
    PROVE  /\ p \in Seq({"left", "right"})
           /\ \A k \in 0..Len(p) : k # Len(p) => SubSeq(p, 1, k) \in DOMAIN c_tree
<1>1. q \in Seq({"left", "right"}) /\ \A k \in 0..Len(q) : SubSeq(q, 1, k) \in DOMAIN c_tree
  BY DEF RTree
<1>2. p \in Seq({"left", "right"}) /\ Len(p) = Len(q) + 1 /\ Len(q) \in Nat
  BY <1>1
<1>3. ASSUME NEW k \in 0..Len(p), k # Len(p)
      PROVE  k \in 0..Len(q) /\ SubSeq(p, 1, k) = SubSeq(q, 1, k)
  BY <1>1, <1>2, <1>3
<1>4. ASSUME NEW k \in 0..Len(p), k # Len(p)  PROVE SubSeq(p, 1, k) \in DOMAIN c_tree
  BY <1>1, <1>3, <1>4
<1> QED  BY <1>2, <1>4

\* A new place of the tree: the ways to it and the order.
LEMMA TreeInsert ==
    ASSUME RInv, NEW e \in DOMAIN c_element, NEW p \in Rc!Places(e), UNCHANGED <<c_version, c_element>>,
           c_tree' = [q \in DOMAIN c_tree \cup {p} |-> IF q = p THEN e ELSE c_tree[q]]
    PROVE  RTree' /\ p \notin DOMAIN c_tree
<1>1. /\ p \in {<<>>} \cup {Append(q, t) : q \in DOMAIN c_tree, t \in {"left", "right"}}
      /\ p \notin DOMAIN c_tree
      /\ \A k \in DOMAIN p : Rc!MayTurn(e, c_tree[SubSeq(p, 1, k - 1)], p[k])
  BY DEF Rc!Places
<1>2. /\ p \in Seq({"left", "right"})
      /\ \A k \in 0..Len(p) : k # Len(p) => SubSeq(p, 1, k) \in DOMAIN c_tree
  <2>1. CASE p = <<>>
    BY <2>1
  <2>2. ASSUME NEW q \in DOMAIN c_tree, NEW t \in {"left", "right"}, p = Append(q, t)
        PROVE  <1>2
    BY <2>2, WaysToPlace DEF RInv
  <2> QED  BY <1>1, <2>1, <2>2
<1>3. \A q \in DOMAIN c_tree : q \in Seq({"left", "right"}) /\ \A k \in 0..Len(q) : SubSeq(q, 1, k) \in DOMAIN c_tree
  BY DEF RInv, RTree
<1>4. SubSeq(p, 1, Len(p)) = p /\ Len(p) \in Nat /\ DOMAIN p = 1..Len(p)
  BY <1>2
<1>5. DOMAIN c_tree' = DOMAIN c_tree \cup {p} /\ c_tree'[p] = e /\ \A q \in DOMAIN c_tree : c_tree'[q] = c_tree[q]
  BY <1>1
<1>6. \A q \in DOMAIN c_tree' : q \in Seq({"left", "right"}) /\ \A k \in 0..Len(q) : SubSeq(q, 1, k) \in DOMAIN c_tree'
  <2>1. \A k \in 0..Len(p) : SubSeq(p, 1, k) \in DOMAIN c_tree \cup {p}
    BY <1>2, <1>4
  <2> QED  BY <1>2, <1>3, <1>5, <2>1
<1>7. Rc!TreeSorted'
  <2> SUFFICES \A a, b \in DOMAIN c_tree' : Len(a) < Len(b) /\ SubSeq(b, 1, Len(a)) = a =>
                  Ordered(c_element'[c_tree'[b]], c_element'[c_tree'[a]], b[Len(a) + 1] = "left", c_version')
    BY TreeIsOrdered
  <2> TAKE a, b \in DOMAIN c_tree'
  <2> HAVE Len(a) < Len(b) /\ SubSeq(b, 1, Len(a)) = a
  <2>1. Len(a) \in Nat /\ Len(b) \in Nat /\ Len(a) \in 0..Len(b)
    BY <1>2, <1>3, <1>5
  <2>2. a \in DOMAIN c_tree
    <3>1. CASE b = p
      BY <1>2, <2>1, <3>1
    <3>2. CASE b # p
      BY <1>3, <1>5, <2>1, <3>2
    <3> QED  BY <3>1, <3>2
  <2>3. CASE b # p
    <3>1. b \in DOMAIN c_tree /\ c_tree'[b] = c_tree[b] /\ c_tree'[a] = c_tree[a]
      BY <1>5, <2>2, <2>3
    <3> QED  BY <2>2, <3>1, TreeIsOrdered DEF RInv, RTree
  <2>4. CASE b = p
    <3>1. PICK k \in 1..Len(p) : k = Len(a) + 1
      BY <2>1, <2>4
    <3>2. k \in DOMAIN p /\ SubSeq(p, 1, k - 1) = a /\ p[k] \in {"left", "right"}
      <4>1. k - 1 = Len(a) /\ k \in DOMAIN p
        BY <1>4, <2>1, <3>1
      <4>2. SubSeq(p, 1, k - 1) = a
        BY <2>4, <4>1
      <4>3. p[k] \in {"left", "right"}
        BY <1>2, <3>1
      <4> QED  BY <4>1, <4>2, <4>3
    <3>3. Rc!MayTurn(e, c_tree[a], p[k])
      <4>1. Rc!MayTurn(e, c_tree[SubSeq(p, 1, k - 1)], p[k])
        BY <1>1, <3>2
      <4> QED  BY <3>2, <4>1
    <3>4. c_tree'[b] = e /\ c_tree'[a] = c_tree[a] /\ b[Len(a) + 1] = p[k]
      BY <1>5, <2>2, <2>4, <3>1
    <3>5. Ordered(c_element[e], c_element[c_tree[a]], p[k] = "left", c_version)
      BY <3>2, <3>3 DEF Rc!MayTurn, Ordered
    <3> QED  BY <3>4, <3>5
  <2> QED  BY <2>3, <2>4
<1> QED  BY <1>1, <1>6, <1>7 DEF RTree

\* tree_insert_node: a reference and a place more.
LEMMA RTreeInsert == ASSUME RInv, NEW e \in Rc!Elements, Rc!tree_insert_node(e)  PROVE RInv'
<1>1. /\ c_held[e] > 0 \/ e \in Rc!Range(Rc!ListedElements)
      /\ Rc!el_keep_ref(e)
      /\ UNCHANGED <<c_version, c_element, c_held>> /\ UNCHANGED RListVars
  BY DEF Rc!tree_insert_node, Rc!list_vars, RListVars
<1>2. PICK p \in Rc!Places(e) : c_tree' = [q \in DOMAIN c_tree \cup {p} |-> IF q = p THEN e ELSE c_tree[q]]
  BY DEF Rc!tree_insert_node
<1>3. e \in DOMAIN c_element /\ References[e] > 0
  BY <1>1, Referred
<1>4. RTree' /\ p \notin DOMAIN c_tree
  BY <1>1, <1>2, <1>3, TreeInsert
<1>5. DOMAIN c_tree' = DOMAIN c_tree \cup {p} /\ c_tree'[p] = e /\ \A q \in DOMAIN c_tree : c_tree'[q] = c_tree[q]
  BY <1>2, <1>4
<1>6. \A f \in Rc!Elements : References'[f] = References[f] + IF f = e THEN 1 ELSE 0
  <2> TAKE f \in Rc!Elements
  <2> DEFINE P == {q \in DOMAIN c_tree' : c_tree'[q] = f}
  <2>1. References'[f] = c_held[f] + Cardinality(Listings(f)) + Cardinality(P)
    BY <1>1, ReferencesNext DEF Listings, RListVars
  <2>2. p \notin Planted(f) /\ Planted(f) \in SUBSET DOMAIN c_tree
    BY <1>4 DEF Planted
  <2>3. P = IF f = e THEN Planted(f) \cup {p} ELSE Planted(f)
    BY <1>5 DEF Planted
  <2> HIDE DEF P
  <2>4. Cardinality(Planted(f) \cup {p}) = Cardinality(Planted(f)) + 1
    <3>1. IsFiniteSet(Planted(f))
      BY ReferenceSizes
    <3> QED  BY <2>2, <3>1, FS_AddElement
  <2>5. Cardinality(P) = Cardinality(Planted(f)) + IF f = e THEN 1 ELSE 0
    BY <2>3, <2>4, ReferenceSizes
  <2> QED  BY <2>1, <2>5, ReferenceSizes
<1>7. /\ Counted(References', c_version', c_ref_count', c_refcount', c_allocated', c_strings')
      /\ c_ref_count' \in [Rc!Elements -> Int] /\ c_refcount' \in [Rc!Elements -> Int]
      /\ c_allocated' = c_allocated /\ c_strings' = c_strings
  BY <1>1, <1>3, <1>6, KeepCounts
<1>8. RTypes'
  <2>1. c_tree' = [q \in DOMAIN c_tree' |-> c_tree'[q]]
    BY <1>2, <1>5
  <2>2. IsFiniteSet(DOMAIN c_tree')
    <3>1. IsFiniteSet(DOMAIN c_tree)
      BY DEF RInv, RTypes
    <3> QED  BY <1>5, <3>1, FS_AddElement
  <2> QED  BY <1>1, <1>7, <2>1, <2>2 DEF RInv, RTypes, RListVars, Rc!Elements, Rc!Nodes
<1>9. RMade'
  <2>1. \A q \in DOMAIN c_tree' : c_tree'[q] \in DOMAIN c_element
    BY <1>3, <1>5 DEF RInv, RMade
  <2> QED  BY <1>1, <2>1 DEF RInv, RMade, RListVars, Rc!Elements, Rc!Nodes
<1>10. RList'
  BY <1>1, SameListAndTree DEF RInv
<1> QED  BY <1>4, <1>7, <1>8, <1>9, <1>10 DEF RInv, RCounts, Counted, Rc!Elements

\* Every step of the counts keeps the invariant.
LEMMA RStep == ASSUME RInv, Rc!Next \/ UNCHANGED rcvars  PROVE RInv'
<1>1. CASE UNCHANGED rcvars
  <2>1. UNCHANGED <<c_version, c_element, c_ref_count, c_refcount, c_allocated, c_strings, c_held, c_tree>> /\ UNCHANGED RListVars
    BY <1>1 DEF rcvars, RListVars
  <2>2. RTypes'
    BY <2>1 DEF RInv, RTypes, RListVars, Rc!Elements, Rc!Nodes
  <2>3. RMade'
    BY <2>1 DEF RInv, RMade, RListVars, Rc!Elements, Rc!Nodes
  <2>4. RList' /\ RTree'
    BY <2>1, SameListAndTree DEF RInv
  <2>5. References' = References
    BY <2>1 DEF References, Listings, Planted, RListVars, Rc!Elements, Rc!Nodes
  <2>6. RCounts'
    BY <2>1, <2>5 DEF RInv, RCounts, Counted, Rc!Elements
  <2> QED  BY <2>2, <2>3, <2>4, <2>6 DEF RInv
<1>2. CASE Rc!Next
  <2>1. CASE \E kind \in {"int", "str"}, v \in Values : Rc!element_new(kind, v)
    BY <2>1, RNew
  <2>2. CASE \E e \in Rc!Elements : Rc!Keep(e) \/ Rc!list_add_element(e) \/ Rc!tree_insert_node(e) \/ Rc!element_delete(e)
    BY <2>2, RKeep, RAdd, RTreeInsert, RDelete
  <2>3. CASE (\E n \in Rc!Nodes : Rc!list_delete_element(n)) \/ Rc!list_delete \/ Rc!tree_delete
    BY <2>3, RListDeleteElement, RListDelete, RTreeDelete
  <2> QED  BY <1>2, <2>1, <2>2, <2>3 DEF Rc!Next
<1> QED  BY <1>1, <1>2

\* It says that the counts are the references.
LEMMA RCountsMatch == ASSUME RInv  PROVE Rc!CountsMatchReferences
<1> SUFFICES ASSUME NEW e \in DOMAIN c_element
             PROVE  LET references == c_held[e] + Rc!Drops(Rc!ListedElements, e) + Rc!Drops(Rc!InTree, e) IN
                    /\ c_ref_count[e] = references
                    /\ c_version = "a5/5.6" => c_refcount[e] = references
                    /\ e \in c_allocated <=> references > 0
                    /\ e \in c_strings <=> references > 0
  BY DEF Rc!CountsMatchReferences
<1>1. e \in Rc!Elements
  <2>1. c_element \in Seq([kind : {"int", "str"}, value : Values]) /\ Len(c_element) <= MaxElements /\ MaxElements \in Nat
    BY DEF RInv, RTypes
  <2> QED  BY <2>1 DEF Rc!Elements
<1>2. References[e] = c_held[e] + Rc!Drops(Rc!ListedElements, e) + Rc!Drops(Rc!InTree, e)
  BY <1>1, ListedDrops, PlantedDrops, ReferenceSizes
<1> QED  BY <1>1, <1>2 DEF RInv, RCounts, Counted

-----------------------------------------------------------------------------
(* The growing list.                                                       *)

Listed == Arguments \cup {Gl!Junk}

\* The list l is the sequence w: the first places of its data, and there is
\* nothing to know of the others.
ListOf(l, w) ==
    /\ l = [data |-> l.data, len |-> l.len, size |-> l.size]
    /\ l.size \in Nat \ {0} /\ l.len \in 0..l.size
    /\ l.data \in [0..(l.size - 1) -> Listed]
    /\ w \in Seq(Arguments) /\ Len(w) = l.len
    /\ \A k \in 1..l.len : w[k] = l.data[k - 1]

LEMMA ListCreated == ListOf(Gl!list_create, <<>>)
<1>1. Gl!list_create.data \in [0..(INITIAL_SIZE - 1) -> Listed]
  BY DEF Gl!list_create, Listed
<1>2. Gl!list_create.size = INITIAL_SIZE /\ Gl!list_create.len = 0
  BY DEF Gl!list_create
<1>3. INITIAL_SIZE \in Nat \ {0}
  BY DataAssumption
<1> QED  BY <1>1, <1>2, <1>3 DEF ListOf, Gl!list_create

\* A product with a factor of two or more is larger.
LEMMA Grows == ASSUME NEW a \in Nat \ {0}, NEW g \in Nat \ {0, 1}  PROVE a * g \in Nat /\ a < a * g
<1>1. PICK h \in Nat : g = h + 2
  <2>1. g - 2 \in Nat /\ g = (g - 2) + 2
    OBVIOUS
  <2> QED  BY <2>1
<1>2. a * g = a * h + 2 * a /\ a * h \in Nat
  BY <1>1
<1> DEFINE p == a * h
<1> HIDE DEF p
<1>3. a * g = p + 2 * a /\ p \in Nat
  BY <1>2 DEF p
<1> QED  BY <1>3

\* After expand_list there is a place behind the last one.
LEMMA RoomMade ==
    ASSUME NEW l, NEW w, ListOf(l, w)
    PROVE  ListOf(Gl!Room(l), w) /\ Gl!Room(l).len = l.len /\ l.len < Gl!Room(l).size
<1> DEFINE r == Gl!Room(l)
           bigger == l.size * GROWTH_FACTOR
           d == [k \in 0..(bigger - 1) |-> IF k < l.size THEN l.data[k] ELSE Gl!Junk]
<1>1. CASE l.len = l.size
  <2>1. bigger \in Nat /\ l.size < bigger /\ l.size \in Nat /\ l.size # 0
    BY DataAssumption, Grows DEF ListOf
  <2>2. r = [data |-> d, len |-> l.len, size |-> bigger]
    BY <1>1 DEF Gl!Room, Gl!expand_list, ListOf
  <2> HIDE DEF bigger
  <2>3. d \in [0..(bigger - 1) -> Listed]
    <3> SUFFICES ASSUME NEW k \in 0..(bigger - 1)  PROVE (IF k < l.size THEN l.data[k] ELSE Gl!Junk) \in Listed
      BY Zenon
    <3>1. CASE k < l.size
      <4>1. k \in 0..(l.size - 1)
        BY <2>1, <3>1
      <4> QED  BY <3>1, <4>1 DEF ListOf
    <3>2. CASE ~(k < l.size)
      BY <3>2 DEF Listed
    <3> QED  BY <3>1, <3>2
  <2>4. \A k \in 1..l.len : d[k - 1] = l.data[k - 1]
    BY <1>1, <2>1
  <2> HIDE DEF d, r
  <2>5. r.data = d /\ r.len = l.len /\ r.size = bigger /\ r = [data |-> r.data, len |-> r.len, size |-> r.size]
    BY <2>2
  <2>6. r.size \in Nat \ {0} /\ r.len \in 0..r.size /\ r.len = l.len /\ l.len < r.size
    BY <1>1, <2>1, <2>5
  <2>7. w \in Seq(Arguments) /\ Len(w) = l.len /\ \A k \in 1..l.len : w[k] = l.data[k - 1]
    BY DEF ListOf
  <2>8. ListOf(r, w)
    BY <2>3, <2>4, <2>5, <2>6, <2>7 DEF ListOf
  <2> QED  BY <2>6, <2>8 DEF r
<1>2. CASE l.len # l.size
  <2>1. r = l
    BY <1>2 DEF Gl!Room
  <2> QED  BY <1>2, <2>1 DEF ListOf
<1> QED  BY <1>1, <1>2

LEMMA ListAppended ==
    ASSUME NEW l, NEW w, ListOf(l, w), NEW e \in Arguments
    PROVE  ListOf(Gl!list_append(l, e), Append(w, e))
<1> DEFINE r == Gl!Room(l)
           n == l.len
           d == [r.data EXCEPT ![n] = e]
           m == Gl!list_append(l, e)
           v == Append(w, e)
<1>1. ListOf(r, w) /\ r.len = n /\ n < r.size
  BY RoomMade
<1>2. n \in Nat /\ Len(w) = n /\ w \in Seq(Arguments) /\ r.size \in Nat /\ r.data \in [0..(r.size - 1) -> Listed] /\ e \in Listed
  BY <1>1 DEF ListOf, Listed
<1>3. m = [data |-> d, len |-> n + 1, size |-> r.size]
  <2>1. m = [r EXCEPT !.data[r.len] = e, !.len = @ + 1]
    BY DEF Gl!list_append
  <2>2. r = [data |-> r.data, len |-> r.len, size |-> r.size]
    BY <1>1 DEF ListOf
  <2> HIDE DEF m, r
  <2> QED  BY <1>1, <2>1, <2>2
<1>4. v \in Seq(Arguments) /\ Len(v) = n + 1 /\ v[n + 1] = e /\ \A k \in 1..n : v[k] = w[k]
  BY <1>2
<1>5. \A k \in 1..n : w[k] = r.data[k - 1]
  BY <1>1 DEF ListOf
<1> HIDE DEF m, v, r
<1>6. d \in [0..(r.size - 1) -> Listed]
  BY <1>2
<1>7. \A k \in 1..(n + 1) : v[k] = d[k - 1]
  <2> TAKE k \in 1..(n + 1)
  <2>1. CASE k = n + 1
    BY <1>1, <1>2, <1>4, <2>1
  <2>2. CASE k # n + 1
    <3>1. k \in 1..n /\ k - 1 # n
      BY <1>2, <2>2
    <3> QED  BY <1>2, <1>4, <1>5, <3>1
  <2> QED  BY <2>1, <2>2
<1> HIDE DEF d, n
<1>8. m.data = d /\ m.len = n + 1 /\ m.size = r.size /\ m = [data |-> m.data, len |-> m.len, size |-> m.size]
  BY <1>3
<1> QED  BY <1>1, <1>2, <1>4, <1>6, <1>7, <1>8 DEF ListOf, m, v, n

\* The recursions of the loops.
ArrayAfter(l, es, a) == [k \in 0..Len(es) |-> IF k = 0 THEN l ELSE Gl!list_append(a[k - 1], es[k])]
LoopDown(r, pos, d) ==
    [i \in pos..r.len |-> IF i = r.len THEN r.data ELSE [d[i + 1] EXCEPT ![i + 1] = d[i + 1][i]]]
LoopUp(l, pos, u) ==
    [i \in pos..(l.len - 1) |-> IF i = pos THEN l.data ELSE [u[i - 1] EXCEPT ![i - 1] = u[i - 1][i]]]

LEMMA ArrayAppended ==
    ASSUME NEW l, NEW w, ListOf(l, w), NEW e \in Arguments, NEW f \in Arguments
    PROVE  ListOf(Gl!list_append_array(l, <<e, f>>), w \o <<e, f>>)
<1> DEFINE es == <<e, f>>
           a == CHOOSE x : x = ArrayAfter(l, es, x)
           h == [k \in 0..2 |-> IF k = 0 THEN l ELSE IF k = 1 THEN Gl!list_append(l, e)
                                 ELSE Gl!list_append(Gl!list_append(l, e), f)]
<1>1. Gl!list_append_array(l, es) = a[2]
  BY DEF Gl!list_append_array, ArrayAfter
<1>2. h = ArrayAfter(l, es, h)
  <2>1. /\ ArrayAfter(l, es, h)[0] = l
        /\ ArrayAfter(l, es, h)[1] = Gl!list_append(h[0], e)
        /\ ArrayAfter(l, es, h)[2] = Gl!list_append(h[1], f)
        /\ ArrayAfter(l, es, h) = [k \in 0..2 |-> ArrayAfter(l, es, h)[k]]
    BY DEF ArrayAfter
  <2>2. \A k \in 0..2 : ArrayAfter(l, es, h)[k] = h[k]
    BY <2>1
  <2> HIDE DEF h
  <2>3. h = [k \in 0..2 |-> h[k]]
    BY DEF h
  <2> QED  BY <2>1, <2>2, <2>3
<1> HIDE DEF h
<1>3. a = ArrayAfter(l, es, a)
  BY <1>2
<1> HIDE DEF a
<1>4. a[0] = l /\ a[1] = Gl!list_append(a[0], e) /\ a[2] = Gl!list_append(a[1], f)
  BY <1>3 DEF ArrayAfter
<1>5. ListOf(a[2], Append(Append(w, e), f))
  BY <1>4, ListAppended
<1>6. Append(Append(w, e), f) = w \o <<e, f>>
  <2>1. w \in Seq(Arguments)
    BY DEF ListOf
  <2> QED  BY <2>1
<1> QED  BY <1>1, <1>5, <1>6

\* list_insert: when the loop has come down to i, all from i on are one higher.
LEMMA LoopDownMoves ==
    ASSUME NEW r, NEW w, ListOf(r, w), r.len < r.size, NEW pos \in 0..r.len
    PROVE  LET d == CHOOSE x : x = LoopDown(r, pos, x) IN
           d[pos] = [j \in 0..(r.size - 1) |-> IF pos < j /\ j <= r.len THEN r.data[j - 1] ELSE r.data[j]]
<1> DEFINE n == r.len
           S == 0..(r.size - 1)
           D(i) == [j \in S |-> IF i < j /\ j <= n THEN r.data[j - 1] ELSE r.data[j]]
           h == [i \in pos..n |-> D(i)]
           d == CHOOSE x : x = LoopDown(r, pos, x)
<1>1. n \in Nat /\ r.size \in Nat /\ n < r.size /\ r.data \in [S -> Listed]
  BY DEF ListOf
<1>2. D(n) = r.data
  <2>1. \A j \in S : ~(n < j /\ j <= n)
    BY <1>1
  <2>2. D(n) = [j \in S |-> r.data[j]]
    BY <2>1
  <2> QED  BY <1>1, <2>2
<1>3. ASSUME NEW i \in pos..n, i # n  PROVE D(i) = [D(i + 1) EXCEPT ![i + 1] = D(i + 1)[i]]
  <2>1. i \in S /\ i + 1 \in S /\ D(i + 1)[i] = r.data[i]
    BY <1>1, <1>3
  <2>2. ASSUME NEW j \in S  PROVE D(i)[j] = [D(i + 1) EXCEPT ![i + 1] = D(i + 1)[i]][j]
    <3>1. CASE j = i + 1
      <4>1. D(i)[j] = r.data[j - 1] /\ j - 1 = i
        BY <1>1, <1>3, <3>1
      <4> QED  BY <2>1, <3>1, <4>1
    <3>2. CASE j # i + 1
      <4>1. i < j /\ j <= n <=> i + 1 < j /\ j <= n
        BY <1>1, <1>3, <3>2
      <4> QED  BY <2>1, <3>2, <4>1
    <3> QED  BY <3>1, <3>2
  <2>3. D(i) \in [S -> Range(D(i))] /\ D(i + 1) \in [S -> Range(D(i + 1))]
    BY DEF Range
  <2> HIDE DEF D, S
  <2>4. D(i) = [j \in S |-> D(i)[j]] /\ D(i + 1) = [j \in S |-> D(i + 1)[j]]
    BY <2>3
  <2>5. [D(i + 1) EXCEPT ![i + 1] = D(i + 1)[i]] = [j \in S |-> [D(i + 1) EXCEPT ![i + 1] = D(i + 1)[i]][j]]
    BY <2>4
  <2> QED  BY <2>2, <2>4, <2>5
<1>4. h = LoopDown(r, pos, h)
  <2>1. ASSUME NEW i \in pos..n  PROVE h[i] = IF i = n THEN r.data ELSE [h[i + 1] EXCEPT ![i + 1] = h[i + 1][i]]
    <3> HIDE DEF D
    <3>1. CASE i = n
      BY <1>2, <3>1
    <3>2. CASE i # n
      <4>1. i + 1 \in pos..n
        BY <1>1, <3>2
      <4> QED  BY <1>3, <3>2, <4>1
    <3> QED  BY <3>1, <3>2
  <2>2. h = [i \in pos..n |-> h[i]]
    OBVIOUS
  <2> HIDE DEF h
  <2> QED  BY <2>1, <2>2 DEF LoopDown
<1>5. d = LoopDown(r, pos, d)
  <2> HIDE DEF h
  <2> QED  BY <1>4
<1>6. \A k \in 0..(n - pos) : d[n - k] = h[n - k]
  <2> DEFINE N == n - pos
             df == [k \in 0..N |-> d[n - k]]
             hf == [k \in 0..N |-> h[n - k]]
  <2>0. N \in Nat /\ \A k \in 0..N : n - k \in pos..n
    BY <1>1
  <2> HIDE DEF d, h
  <2>1. \A i \in pos..n : /\ d[i] = IF i = n THEN r.data ELSE [d[i + 1] EXCEPT ![i + 1] = d[i + 1][i]]
                          /\ h[i] = IF i = n THEN r.data ELSE [h[i + 1] EXCEPT ![i + 1] = h[i + 1][i]]
    BY <1>4, <1>5 DEF LoopDown
  <2>2. df[0] = hf[0]
    <3>1. n - 0 = n /\ n \in pos..n /\ 0 \in 0..N
      BY <1>1
    <3>2. d[n] = h[n]
      BY <2>1, <3>1
    <3>3. df[0] = d[n - 0] /\ hf[0] = h[n - 0]
      BY <3>1
    <3> QED  BY <3>1, <3>2, <3>3
  <2>3. ASSUME NEW k \in 1..N, df[k - 1] = hf[k - 1]  PROVE df[k] = hf[k]
    <3>1. n - k \in pos..n /\ n - k # n /\ n - (k - 1) = (n - k) + 1 /\ k - 1 \in 0..N /\ k \in 0..N
      BY <1>1
    <3>2. d[(n - k) + 1] = h[(n - k) + 1]
      <4>1. df[k - 1] = d[n - (k - 1)] /\ hf[k - 1] = h[n - (k - 1)]
        BY <3>1
      <4> QED  BY <2>3, <3>1, <4>1
    <3>3. d[n - k] = [d[n - k + 1] EXCEPT ![n - k + 1] = d[n - k + 1][n - k]]
      BY <2>1, <3>1
    <3>4. h[n - k] = [h[n - k + 1] EXCEPT ![n - k + 1] = h[n - k + 1][n - k]]
      BY <2>1, <3>1
    <3>5. df[k] = d[n - k] /\ hf[k] = h[n - k]
      BY <3>1
    <3> QED  BY <3>2, <3>3, <3>4, <3>5
  <2> HIDE DEF N, df, hf
  <2>4. \A k \in 0..N : df[k] = hf[k]
    BY <2>0, <2>2, <2>3, SameRecursion
  <2> QED  BY <2>4 DEF df, hf, N
<1>7. d[pos] = h[pos]
  <2>1. n - pos \in 0..(n - pos) /\ n - (n - pos) = pos
    BY <1>1
  <2> HIDE DEF d, h
  <2> QED  BY <1>6, <2>1
<1> HIDE DEF d
<1> QED  BY <1>1, <1>7 DEF d

\* list_remove: when the loop has come up to i, all up to i are one lower.
LEMMA LoopUpMoves ==
    ASSUME NEW l, NEW w, ListOf(l, w), NEW pos \in 0..(l.len - 1)
    PROVE  LET u == CHOOSE x : x = LoopUp(l, pos, x) IN
           u[l.len - 1] = [j \in 0..(l.size - 1) |-> IF pos <= j /\ j < l.len - 1 THEN l.data[j + 1] ELSE l.data[j]]
<1> DEFINE n == l.len - 1
           S == 0..(l.size - 1)
           D(i) == [j \in S |-> IF pos <= j /\ j < i THEN l.data[j + 1] ELSE l.data[j]]
           h == [i \in pos..n |-> D(i)]
           u == CHOOSE x : x = LoopUp(l, pos, x)
<1>1. n \in Nat /\ l.size \in Nat /\ n < l.size /\ l.data \in [S -> Listed] /\ pos \in 0..n
  BY DEF ListOf
<1> HIDE DEF n
<1>2. D(pos) = l.data
  <2>1. \A j \in S : ~(pos <= j /\ j < pos)
    BY <1>1
  <2>2. D(pos) = [j \in S |-> l.data[j]]
    BY <2>1
  <2> QED  BY <1>1, <2>2
<1>3. ASSUME NEW i \in pos..n, i # pos  PROVE D(i) = [D(i - 1) EXCEPT ![i - 1] = D(i - 1)[i]]
  <2>1. i \in S /\ i - 1 \in S /\ D(i - 1)[i] = l.data[i]
    BY <1>1, <1>3
  <2>2. ASSUME NEW j \in S  PROVE D(i)[j] = [D(i - 1) EXCEPT ![i - 1] = D(i - 1)[i]][j]
    <3>1. CASE j = i - 1
      <4>1. D(i)[j] = l.data[j + 1] /\ j + 1 = i
        BY <1>1, <1>3, <3>1
      <4> QED  BY <2>1, <3>1, <4>1
    <3>2. CASE j # i - 1
      <4>1. pos <= j /\ j < i <=> pos <= j /\ j < i - 1
        BY <1>1, <1>3, <3>2
      <4> QED  BY <2>1, <3>2, <4>1
    <3> QED  BY <3>1, <3>2
  <2>3. D(i) \in [S -> Range(D(i))] /\ D(i - 1) \in [S -> Range(D(i - 1))]
    BY DEF Range
  <2> HIDE DEF D, S
  <2>4. D(i) = [j \in S |-> D(i)[j]] /\ D(i - 1) = [j \in S |-> D(i - 1)[j]]
    BY <2>3
  <2>5. [D(i - 1) EXCEPT ![i - 1] = D(i - 1)[i]] = [j \in S |-> [D(i - 1) EXCEPT ![i - 1] = D(i - 1)[i]][j]]
    BY <2>4
  <2> QED  BY <2>2, <2>4, <2>5
<1>4. h = LoopUp(l, pos, h)
  <2>1. ASSUME NEW i \in pos..n  PROVE h[i] = IF i = pos THEN l.data ELSE [h[i - 1] EXCEPT ![i - 1] = h[i - 1][i]]
    <3> HIDE DEF D
    <3>1. CASE i = pos
      BY <1>2, <3>1
    <3>2. CASE i # pos
      <4>1. i - 1 \in pos..n
        BY <1>1, <3>2
      <4> QED  BY <1>3, <3>2, <4>1
    <3> QED  BY <3>1, <3>2
  <2>2. h = [i \in pos..n |-> h[i]]
    OBVIOUS
  <2> HIDE DEF h
  <2> QED  BY <2>1, <2>2 DEF LoopUp, n
<1>5. u = LoopUp(l, pos, u)
  <2> HIDE DEF h
  <2> QED  BY <1>4
<1>6. u[n] = h[n]
  <2> DEFINE N == n - pos
             uf == [k \in 0..N |-> u[pos + k]]
             hf == [k \in 0..N |-> h[pos + k]]
  <2>0. N \in Nat /\ N \in 0..N /\ pos + N = n /\ pos + 0 = pos /\ 0 \in 0..N /\ pos \in pos..n
    BY <1>1
  <2> HIDE DEF u, h
  <2>1. \A i \in pos..n : /\ u[i] = IF i = pos THEN l.data ELSE [u[i - 1] EXCEPT ![i - 1] = u[i - 1][i]]
                          /\ h[i] = IF i = pos THEN l.data ELSE [h[i - 1] EXCEPT ![i - 1] = h[i - 1][i]]
    BY <1>4, <1>5 DEF LoopUp, n
  <2>2. uf[0] = hf[0]
    <3>1. u[pos] = h[pos]
      BY <2>0, <2>1
    <3>2. uf[0] = u[pos + 0] /\ hf[0] = h[pos + 0]
      BY <2>0
    <3> QED  BY <2>0, <3>1, <3>2
  <2>3. ASSUME NEW k \in 1..N, uf[k - 1] = hf[k - 1]  PROVE uf[k] = hf[k]
    <3>1. pos + k \in pos..n /\ pos + k # pos /\ pos + (k - 1) = (pos + k) - 1 /\ k - 1 \in 0..N /\ k \in 0..N
      BY <1>1
    <3>2. u[(pos + k) - 1] = h[(pos + k) - 1]
      <4>1. uf[k - 1] = u[pos + (k - 1)] /\ hf[k - 1] = h[pos + (k - 1)]
        BY <3>1
      <4> QED  BY <2>3, <3>1, <4>1
    <3>3. u[pos + k] = [u[pos + k - 1] EXCEPT ![pos + k - 1] = u[pos + k - 1][pos + k]]
      BY <2>1, <3>1
    <3>4. h[pos + k] = [h[pos + k - 1] EXCEPT ![pos + k - 1] = h[pos + k - 1][pos + k]]
      BY <2>1, <3>1
    <3>5. uf[k] = u[pos + k] /\ hf[k] = h[pos + k]
      BY <3>1
    <3> QED  BY <3>2, <3>3, <3>4, <3>5
  <2> HIDE DEF N, uf, hf
  <2>4. uf[N] = hf[N]
    BY <2>0, <2>2, <2>3, SameRecursion
  <2> QED  BY <2>0, <2>4 DEF uf, hf
<1> HIDE DEF u
<1> QED  BY <1>1, <1>6 DEF u, n

\* v is w with e after its first p.
OneIn(v, w, p, e) ==
    /\ Len(v) = Len(w) + 1
    /\ \A k \in 1..(Len(w) + 1) : v[k] = IF k <= p THEN w[k] ELSE IF k = p + 1 THEN e ELSE w[k - 1]

\* v is w without what follows its first p.
OneOut(v, w, p) ==
    /\ Len(v) = Len(w) - 1
    /\ \A k \in 1..(Len(w) - 1) : v[k] = IF k <= p THEN w[k] ELSE w[k + 1]

\* A sequence with one more in it, and with one less.
LEMMA InsertAtFacts ==
    ASSUME NEW S, NEW w \in Seq(S), NEW e \in S, NEW p \in 0..Len(w),
           NEW v, v = Gl!InsertAt(w, p + 1, e)
    PROVE  v \in Seq(S) /\ OneIn(v, w, p, e)
<1> DEFINE n == Len(w)
           a == SubSeq(w, 1, p)
           b == <<e>>
           c == SubSeq(w, p + 1, n)
<1>1. n \in Nat /\ \A k \in 1..n : w[k] \in S
  OBVIOUS
<1>2. a \in Seq(S) /\ Len(a) = p /\ \A k \in 1..p : a[k] = w[k]
  <2>1. \A i \in 1..p : w[i] \in S /\ 1 + i - 1 = i
    BY <1>1
  <2>2. /\ a \in Seq(S) /\ Len(a) = IF 1 <= p THEN p - 1 + 1 ELSE 0
        /\ \A i \in 1..(p - 1 + 1) : a[i] = w[1 + i - 1]
    BY <1>1, <2>1, SubSeqProperties
  <2>3. p - 1 + 1 = p /\ (1 <= p <=> p # 0)
    BY <1>1
  <2> HIDE DEF a
  <2> QED  BY <2>1, <2>2, <2>3
<1>3. c \in Seq(S) /\ Len(c) = n - p /\ \A k \in 1..(n - p) : c[k] = w[p + k]
  <2>1. \A i \in (p + 1)..n : w[i] \in S
    BY <1>1
  <2>2. /\ c \in Seq(S) /\ Len(c) = IF p + 1 <= n THEN n - (p + 1) + 1 ELSE 0
        /\ \A i \in 1..(n - (p + 1) + 1) : c[i] = w[p + 1 + i - 1]
    BY <1>1, <2>1, SubSeqProperties
  <2>3. n - (p + 1) + 1 = n - p /\ (p + 1 <= n <=> n - p # 0) /\ \A i \in 1..(n - p) : p + 1 + i - 1 = p + i
    BY <1>1
  <2> HIDE DEF c
  <2> QED  BY <2>2, <2>3
<1>4. b \in Seq(S) /\ Len(b) = 1 /\ b[1] = e
  OBVIOUS
<1> HIDE DEF a, b, c
<1>5. /\ a \o b \in Seq(S) /\ Len(a \o b) = p + 1
      /\ \A k \in 1..(p + 1) : (a \o b)[k] = IF k <= p THEN w[k] ELSE e
  <2>1. /\ a \o b \in Seq(S) /\ Len(a \o b) = Len(a) + Len(b)
        /\ \A k \in 1..(Len(a) + Len(b)) : (a \o b)[k] = IF k <= Len(a) THEN a[k] ELSE b[k - Len(a)]
    BY <1>2, <1>4, ConcatProperties
  <2> QED  BY <1>1, <1>2, <1>4, <2>1
<1> DEFINE ab == a \o b
<1> HIDE DEF ab
<1>6. /\ ab \o c \in Seq(S) /\ Len(ab \o c) = n + 1
      /\ \A k \in 1..(n + 1) : (ab \o c)[k] = IF k <= p + 1 THEN ab[k] ELSE c[k - (p + 1)]
  <2>1. /\ ab \o c \in Seq(S) /\ Len(ab \o c) = Len(ab) + Len(c)
        /\ \A k \in 1..(Len(ab) + Len(c)) : (ab \o c)[k] = IF k <= Len(ab) THEN ab[k] ELSE c[k - Len(ab)]
    BY <1>3, <1>5, ConcatProperties DEF ab
  <2>2. Len(ab) = p + 1
    BY <1>5 DEF ab
  <2> QED  BY <1>1, <1>3, <2>1, <2>2
<1>7. \A k \in 1..(n + 1) : (ab \o c)[k] = IF k <= p THEN w[k] ELSE IF k = p + 1 THEN e ELSE w[k - 1]
  <2> TAKE k \in 1..(n + 1)
  <2>1. CASE k <= p + 1
    <3>1. k \in 1..(p + 1) /\ (~(k <= p) => k = p + 1)
      BY <2>1
    <3> QED  BY <1>5, <1>6, <2>1, <3>1 DEF ab
  <2>2. CASE k > p + 1
    <3>1. k - (p + 1) \in 1..(n - p) /\ p + (k - (p + 1)) = k - 1 /\ ~(k <= p) /\ k # p + 1 /\ ~(k <= p + 1)
      BY <1>1, <2>2
    <3> QED  BY <1>3, <1>6, <3>1
  <2>3. k <= p + 1 \/ k > p + 1
    BY <1>1
  <2> QED  BY <2>1, <2>2, <2>3
<1>8. Gl!InsertAt(w, p + 1, e) = ab \o c
  <2>1. (p + 1) - 1 = p
    OBVIOUS
  <2> QED  BY <2>1 DEF Gl!InsertAt, ab, a, b, c
<1> HIDE DEF ab
<1> QED  BY <1>6, <1>7, <1>8 DEF OneIn

LEMMA RemoveAtFacts ==
    ASSUME NEW S, NEW w \in Seq(S), NEW p \in 0..(Len(w) - 1),
           NEW v, v = Gl!RemoveAt(w, p + 1)
    PROVE  v \in Seq(S) /\ OneOut(v, w, p)
<1> DEFINE n == Len(w)
           a == SubSeq(w, 1, p)
           c == SubSeq(w, p + 2, n)
<1>1. n \in Nat /\ \A k \in 1..n : w[k] \in S
  OBVIOUS
<1>2. a \in Seq(S) /\ Len(a) = p /\ \A k \in 1..p : a[k] = w[k]
  <2>1. \A i \in 1..p : w[i] \in S /\ 1 + i - 1 = i
    BY <1>1
  <2>2. /\ a \in Seq(S) /\ Len(a) = IF 1 <= p THEN p - 1 + 1 ELSE 0
        /\ \A i \in 1..(p - 1 + 1) : a[i] = w[1 + i - 1]
    BY <1>1, <2>1, SubSeqProperties
  <2> HIDE DEF a
  <2> QED  BY <1>1, <2>1, <2>2
<1>3. c \in Seq(S) /\ Len(c) = n - 1 - p /\ \A k \in 1..(n - 1 - p) : c[k] = w[p + 1 + k]
  <2>1. \A i \in (p + 2)..n : w[i] \in S
    BY <1>1
  <2>2. /\ c \in Seq(S) /\ Len(c) = IF p + 2 <= n THEN n - (p + 2) + 1 ELSE 0
        /\ \A i \in 1..(n - (p + 2) + 1) : c[i] = w[p + 2 + i - 1]
    BY <1>1, <2>1, SubSeqProperties
  <2> HIDE DEF c
  <2> QED  BY <1>1, <2>2
<1> HIDE DEF a, c
<1>4. /\ a \o c \in Seq(S) /\ Len(a \o c) = n - 1
      /\ \A k \in 1..(n - 1) : (a \o c)[k] = IF k <= p THEN a[k] ELSE c[k - p]
  <2>1. /\ a \o c \in Seq(S) /\ Len(a \o c) = Len(a) + Len(c)
        /\ \A k \in 1..(Len(a) + Len(c)) : (a \o c)[k] = IF k <= Len(a) THEN a[k] ELSE c[k - Len(a)]
    BY <1>2, <1>3, ConcatProperties
  <2> QED  BY <1>1, <1>2, <1>3, <2>1
<1>5. \A k \in 1..(n - 1) : (a \o c)[k] = IF k <= p THEN w[k] ELSE w[k + 1]
  <2> TAKE k \in 1..(n - 1)
  <2>1. CASE k <= p
    BY <1>2, <1>4, <2>1
  <2>2. CASE ~(k <= p)
    <3>1. k - p \in 1..(n - 1 - p) /\ p + 1 + (k - p) = k + 1
      BY <1>1, <2>2
    <3> QED  BY <1>3, <1>4, <2>2, <3>1
  <2> QED  BY <2>1, <2>2
<1>6. Gl!RemoveAt(w, p + 1) = a \o c
  <2>1. (p + 1) - 1 = p /\ (p + 1) + 1 = p + 2
    OBVIOUS
  <2> QED  BY <2>1 DEF Gl!RemoveAt, a, c
<1> QED  BY <1>4, <1>5, <1>6 DEF OneOut

LEMMA ListInserted ==
    ASSUME NEW l, NEW w, ListOf(l, w), NEW e \in Arguments, NEW pos \in 0..(l.len - 1)
    PROVE  ListOf(Gl!list_insert(l, pos, e), Gl!InsertAt(w, pos + 1, e))
<1> DEFINE r == Gl!Room(l)
           n == l.len
           S == 0..(r.size - 1)
           d == CHOOSE x : x = LoopDown(r, pos, x)
           D == [j \in S |-> IF pos < j /\ j <= n THEN r.data[j - 1] ELSE r.data[j]]
           E == [D EXCEPT ![pos] = e]
           m == Gl!list_insert(l, pos, e)
           v == Gl!InsertAt(w, pos + 1, e)
<1>1. ListOf(r, w) /\ r.len = n /\ n < r.size
  BY RoomMade
<1>2. /\ n \in Nat /\ Len(w) = n /\ w \in Seq(Arguments) /\ r.size \in Nat /\ r.data \in [S -> Listed]
      /\ pos \in 0..(n - 1) /\ e \in Listed /\ r = [data |-> r.data, len |-> r.len, size |-> r.size]
      /\ \A k \in 1..n : w[k] = r.data[k - 1]
  BY <1>1 DEF ListOf, Listed
<1>3. m = [r EXCEPT !.data = [d[pos] EXCEPT ![pos] = e], !.len = @ + 1]
  BY DEF Gl!list_insert, LoopDown
<1>4. d[pos] = D
  <2>1. pos \in 0..r.len
    BY <1>1, <1>2
  <2> HIDE DEF r
  <2> QED  BY <1>1, <2>1, LoopDownMoves
<1> HIDE DEF r, d, m, v
<1>5. v \in Seq(Arguments) /\ Len(v) = n + 1
      /\ \A k \in 1..(n + 1) : v[k] = IF k <= pos THEN w[k] ELSE IF k = pos + 1 THEN e ELSE w[k - 1]
  <2>1. e \in Arguments /\ pos \in 0..Len(w)
    BY <1>2
  <2>2. v = Gl!InsertAt(w, pos + 1, e) /\ w \in Seq(Arguments) /\ Len(w) = n
    BY <1>2 DEF v
  <2>3. v \in Seq(Arguments) /\ OneIn(v, w, pos, e)
    BY <2>1, <2>2, InsertAtFacts
  <2> QED  BY <2>2, <2>3 DEF OneIn
<1>6. D \in [S -> Listed]
  BY <1>1, <1>2
<1>7. m.data = E /\ m.len = n + 1 /\ m.size = r.size /\ m = [data |-> m.data, len |-> m.len, size |-> m.size]
  <2> HIDE DEF D
  <2> QED  BY <1>1, <1>2, <1>3, <1>4
<1>8. E \in [S -> Listed] /\ \A j \in S : E[j] = IF j = pos THEN e ELSE D[j]
  <2> HIDE DEF D
  <2> QED  BY <1>2, <1>6
<1>9. \A k \in 1..(n + 1) : v[k] = E[k - 1]
  <2> TAKE k \in 1..(n + 1)
  <2>1. k - 1 \in S /\ E[k - 1] = IF k - 1 = pos THEN e ELSE D[k - 1]
    BY <1>1, <1>2, <1>8
  <2>2. CASE k <= pos
    <3>1. D[k - 1] = r.data[k - 1] /\ k - 1 # pos /\ k \in 1..n
      BY <1>2, <2>1, <2>2
    <3> QED  BY <1>2, <1>5, <2>1, <2>2, <3>1
  <2>3. CASE k = pos + 1
    BY <1>2, <1>5, <2>1, <2>3
  <2>4. CASE k > pos + 1
    <3>1. k - 1 # pos /\ k - 1 \in 1..n /\ ~(k <= pos) /\ k # pos + 1 /\ pos < k - 1 /\ k - 1 <= n
      BY <1>2, <2>4
    <3>2. D[k - 1] = r.data[(k - 1) - 1]
      BY <2>1, <3>1
    <3> HIDE DEF D, E
    <3> QED  BY <1>2, <1>5, <2>1, <3>1, <3>2
  <2>5. k <= pos \/ k = pos + 1 \/ k > pos + 1
    BY <1>2
  <2> QED  BY <2>2, <2>3, <2>4, <2>5
<1> HIDE DEF D, E
<1> QED  BY <1>1, <1>2, <1>5, <1>7, <1>8, <1>9 DEF ListOf, m, v

LEMMA ListRemoved ==
    ASSUME NEW l, NEW w, ListOf(l, w), NEW pos \in 0..(l.len - 1)
    PROVE  ListOf(Gl!list_remove(l, pos), Gl!RemoveAt(w, pos + 1))
<1> DEFINE n == l.len
           S == 0..(l.size - 1)
           u == CHOOSE x : x = LoopUp(l, pos, x)
           D == [j \in S |-> IF pos <= j /\ j < n - 1 THEN l.data[j + 1] ELSE l.data[j]]
           m == Gl!list_remove(l, pos)
           v == Gl!RemoveAt(w, pos + 1)
<1>1. /\ n \in Nat /\ Len(w) = n /\ w \in Seq(Arguments) /\ l.size \in Nat /\ n <= l.size /\ l.data \in [S -> Listed]
      /\ pos \in 0..(n - 1) /\ l = [data |-> l.data, len |-> l.len, size |-> l.size]
      /\ \A k \in 1..n : w[k] = l.data[k - 1]
  BY DEF ListOf
<1>2. m = [l EXCEPT !.data = u[n - 1], !.len = @ - 1]
  BY DEF Gl!list_remove, LoopUp
<1>3. u[n - 1] = D
  BY LoopUpMoves
<1> HIDE DEF u, m, v
<1>4. v \in Seq(Arguments) /\ Len(v) = n - 1
      /\ \A k \in 1..(n - 1) : v[k] = IF k <= pos THEN w[k] ELSE w[k + 1]
  <2>1. pos \in 0..(Len(w) - 1)
    BY <1>1
  <2>2. v = Gl!RemoveAt(w, pos + 1) /\ w \in Seq(Arguments) /\ Len(w) = n
    BY <1>1 DEF v
  <2>3. v \in Seq(Arguments) /\ OneOut(v, w, pos)
    BY <2>1, <2>2, RemoveAtFacts
  <2> QED  BY <2>2, <2>3 DEF OneOut
<1>5. D \in [S -> Listed]
  <2>1. \A j \in S : pos <= j /\ j < n - 1 => j + 1 \in S
    BY <1>1
  <2> QED  BY <1>1, <2>1
<1>6. m.data = D /\ m.len = n - 1 /\ m.size = l.size /\ m = [data |-> m.data, len |-> m.len, size |-> m.size]
  <2> HIDE DEF D
  <2> QED  BY <1>1, <1>2, <1>3
<1>7. \A k \in 1..(n - 1) : v[k] = D[k - 1]
  <2> TAKE k \in 1..(n - 1)
  <2>1. k - 1 \in S /\ k \in 1..n /\ k + 1 \in 1..n /\ (k + 1) - 1 = (k - 1) + 1
    BY <1>1
  <2>2. D[k - 1] = IF pos <= k - 1 THEN l.data[(k - 1) + 1] ELSE l.data[k - 1]
    BY <1>1, <2>1
  <2>3. k <= pos <=> ~(pos <= k - 1)
    BY <1>1
  <2> HIDE DEF D
  <2> QED  BY <1>1, <1>4, <2>1, <2>2, <2>3
<1> HIDE DEF D
<1> QED  BY <1>1, <1>4, <1>5, <1>6, <1>7 DEF ListOf, m, v

LEMMA ListSearched ==
    ASSUME NEW l, NEW w, ListOf(l, w), NEW e
    PROVE  LET i == Gl!list_index(l, e) IN
           IF \E k \in DOMAIN w : w[k] = e
           THEN i + 1 \in DOMAIN w /\ w[i + 1] = e /\ \A k \in 1..i : w[k] # e
           ELSE i = -1
<1> DEFINE at == {i \in 0..(l.len - 1) : l.data[i] = e}
<1>1. Gl!list_index(l, e) = IF at = {} THEN -1 ELSE CHOOSE i \in at : \A j \in at : i <= j
  BY DEF Gl!list_index
<1>2. l.len \in Nat /\ DOMAIN w = 1..l.len /\ \A k \in 1..l.len : w[k] = l.data[k - 1]
  BY DEF ListOf
<1>3. \A k \in 1..l.len : w[k] = e <=> k - 1 \in at
  BY <1>2
<1>4. \A i \in at : i + 1 \in 1..l.len /\ w[i + 1] = e /\ i \in Nat
  <2> TAKE i \in at
  <2>1. i + 1 \in 1..l.len /\ (i + 1) - 1 = i /\ i \in Nat
    BY <1>2
  <2> QED  BY <1>2, <2>1
<1>5. CASE at = {}
  BY <1>1, <1>2, <1>3, <1>5
<1>6. CASE at # {}
  <2> DEFINE i == CHOOSE i \in at : \A j \in at : i <= j
  <2> HIDE DEF at
  <2>1. at \subseteq Nat
    BY <1>4
  <2>2. i \in at /\ \A j \in at : i <= j
    BY <1>6, <2>1, LeastElement
  <2> HIDE DEF i
  <2>3. \A k \in 1..i : w[k] # e
    <3> SUFFICES ASSUME NEW k \in 1..i, w[k] = e  PROVE FALSE
      OBVIOUS
    <3>1. k \in 1..l.len /\ ~(i <= k - 1)
      BY <1>2, <1>4, <2>2
    <3> QED  BY <1>3, <2>2, <3>1
  <2>4. Gl!list_index(l, e) = i
    BY <1>1, <1>6 DEF i
  <2>5. \E k \in DOMAIN w : w[k] = e
    BY <1>2, <1>4, <2>2
  <2> QED  BY <1>2, <1>4, <2>2, <2>3, <2>4, <2>5
<1> QED  BY <1>5, <1>6

\* The list of the client is the sequence it put together.
GInv == ListOf(l_list, l_wanted)

LEMMA GInit == Gl!Init => GInv
BY ListCreated DEF Gl!Init, GInv

LEMMA GStep == ASSUME GInv, Gl!Next \/ UNCHANGED glvars  PROVE GInv'
<1>0. ListOf(l_list, l_wanted)
  BY DEF GInv
<1>1. ASSUME NEW e \in Arguments, Gl!Append1(e)  PROVE ListOf(l_list', l_wanted')
  BY <1>0, <1>1, ListAppended DEF Gl!Append1
<1>2. ASSUME NEW e \in Arguments, NEW pos \in 0..(l_list.len - 1), Gl!PutIn(pos, e)  PROVE ListOf(l_list', l_wanted')
  BY <1>0, <1>2, ListInserted DEF Gl!PutIn
<1>3. ASSUME NEW e \in Arguments, NEW f \in Arguments, Gl!AppendArray(<<e, f>>)  PROVE ListOf(l_list', l_wanted')
  BY <1>0, <1>3, ArrayAppended DEF Gl!AppendArray
<1>4. ASSUME NEW pos \in 0..(l_list.len - 1), Gl!TakeOut(pos)  PROVE ListOf(l_list', l_wanted')
  BY <1>0, <1>4, ListRemoved DEF Gl!TakeOut
<1>5. ASSUME UNCHANGED glvars  PROVE ListOf(l_list', l_wanted')
  <2>1. l_list' = l_list /\ l_wanted' = l_wanted
    BY <1>5 DEF glvars
  <2> QED  BY <1>0, <2>1
<1>6. ListOf(l_list', l_wanted')
  BY <1>1, <1>2, <1>3, <1>4, <1>5 DEF Gl!Next
<1> QED  BY <1>6 DEF GInv, ListOf

LEMMA GSequence == ASSUME GInv  PROVE Gl!ListIsSequence
<1>0. ListOf(l_list, l_wanted)
  BY DEF GInv
<1>1. l_list.len <= l_list.size /\ DOMAIN l_list.data = 0..(l_list.size - 1)
  BY <1>0 DEF ListOf
<1>2. Gl!Contents(l_list) = l_wanted
  <2>1. l_wanted = [k \in 1..l_list.len |-> l_wanted[k]] /\ \A k \in 1..l_list.len : l_wanted[k] = l_list.data[k - 1]
    BY <1>0 DEF ListOf
  <2> QED  BY <2>1 DEF Gl!Contents
<1>3. \A e \in Arguments : LET i == Gl!list_index(l_list, e) IN
          IF \E k \in DOMAIN l_wanted : l_wanted[k] = e
          THEN i + 1 \in DOMAIN l_wanted /\ l_wanted[i + 1] = e /\ \A k \in 1..i : l_wanted[k] # e
          ELSE i = -1
  BY <1>0, ListSearched
<1> QED  BY <1>1, <1>2, <1>3 DEF Gl!ListIsSequence

-----------------------------------------------------------------------------
(* The simulators.                                                         *)

\* The state of a simulator is a record.
IsMachine(s) == s = [reg |-> s.reg, pc |-> s.pc, mem |-> s.mem, run |-> s.run]

\* What the simulator fetches first is a byte.
FetchesByte(s) == Sm!Bytes(s.mem, s.pc, 6)[1] \in 0..255

\* Where the Java simulators go another way than the C ones: a6 jumps with an
\* unsigned offset, a2 takes the index of an indexed load from another register.
Parting(x, s) ==
    LET i == Sm!fetch(s) IN
    \/ x = "a6" /\ i.op = 12 /\ i.imm % 65536 # i.unsigned
    \/ x = "a2" /\ i.op = 2 /\ s.reg[4 * i.op1] # Sm!Shl32(s.reg[i.op1], 2)

\* What the dispatch of one simulator makes of an instruction is what sm.c
\* makes of it, but for the illegal ones, and those that the Java ones lack.
LEMMA SameDispatch ==
    ASSUME NEW op \in 0..15, NEW op0 \in 0..15
    PROVE  /\ \/ Sm!Dispatch("sm-jt", op, op0) = Sm!Dispatch("sm", op, op0)
              \/ Sm!Dispatch("sm", op, op0) = "illegal" /\ Sm!Dispatch("sm-jt", op, op0) = "DEFAULT"
           /\ \A x \in Sm!Java : \/ Sm!Dispatch(x, op, op0) = Sm!Dispatch("sm", op, op0)
                                 \/ Sm!Dispatch(x, op, op0) = "throw"
           /\ Sm!Dispatch("sm", op, op0) = "ldx" => op = 2
           /\ Sm!Dispatch("sm", op, op0) = "jr" => op = 12 /\ Sm!Dispatch("a2", op, op0) = "throw"
<1>1. \A k \in 1..16 :
        /\ Sm!SmSwitch[k] = Sm!ALU <=> k = 7
        /\ Sm!jumpTable[k] = Sm!ALU <=> k = 7
        /\ Sm!A6Switch[k] = Sm!ALU <=> k = 7
        /\ Sm!A2Switch[k] = Sm!ALU <=> k = 7
  BY DEF Sm!SmSwitch, Sm!jumpTable, Sm!A6Switch, Sm!A2Switch, Sm!ALU
<1>2. \A k \in 1..16 :
        /\ Sm!jumpTable[k] = Sm!SmSwitch[k] \/ (Sm!SmSwitch[k] = "illegal" /\ Sm!jumpTable[k] = "DEFAULT")
        /\ Sm!A6Switch[k] = Sm!SmSwitch[k] \/ Sm!A6Switch[k] = "throw"
        /\ Sm!A2Switch[k] = Sm!SmSwitch[k] \/ Sm!A2Switch[k] = "throw"
        /\ Sm!SmSwitch[k] = "ldx" => k = 3
        /\ Sm!SmSwitch[k] = "jr" => k = 13 /\ Sm!A2Switch[k] = "throw"
  BY DEF Sm!SmSwitch, Sm!jumpTable, Sm!A6Switch, Sm!A2Switch, Sm!ALU
<1>3. \A k \in 1..16 :
        /\ Sm!jumpTable2[k] = Sm!SmAluSwitch[k] \/ (Sm!SmAluSwitch[k] = "illegal" /\ Sm!jumpTable2[k] = "DEFAULT")
        /\ Sm!A6AluSwitch[k] = Sm!SmAluSwitch[k] \/ Sm!A6AluSwitch[k] = "throw"
        /\ Sm!A2AluSwitch[k] = Sm!SmAluSwitch[k] \/ Sm!A2AluSwitch[k] = "throw"
        /\ Sm!SmAluSwitch[k] # "ldx" /\ Sm!SmAluSwitch[k] # "jr"
  BY DEF Sm!SmAluSwitch, Sm!jumpTable2, Sm!A6AluSwitch, Sm!A2AluSwitch
<1>4. /\ Sm!Dispatch("sm", op, op0) = IF Sm!SmSwitch[op + 1] = Sm!ALU THEN Sm!SmAluSwitch[op0 + 1] ELSE Sm!SmSwitch[op + 1]
      /\ Sm!Dispatch("sm-jt", op, op0) = IF Sm!jumpTable[op + 1] = Sm!ALU THEN Sm!jumpTable2[op0 + 1] ELSE Sm!jumpTable[op + 1]
      /\ Sm!Dispatch("a6", op, op0) = IF Sm!A6Switch[op + 1] = Sm!ALU THEN Sm!A6AluSwitch[op0 + 1] ELSE Sm!A6Switch[op + 1]
      /\ Sm!Dispatch("a2", op, op0) = IF Sm!A2Switch[op + 1] = Sm!ALU THEN Sm!A2AluSwitch[op0 + 1] ELSE Sm!A2Switch[op + 1]
  BY DEF Sm!Dispatch
<1>5. op + 1 \in 1..16 /\ op0 + 1 \in 1..16
  OBVIOUS
<1> HIDE DEF Sm!SmSwitch
<1>6. op + 1 = 7 \/ op + 1 # 7
  OBVIOUS
<1>7. Sm!Java = {"a6", "a2"}
  BY DEF Sm!Java
<1>8. CASE op + 1 = 7
  BY <1>1, <1>3, <1>4, <1>5, <1>7, <1>8
<1>9. CASE op + 1 # 7
  BY <1>1, <1>2, <1>4, <1>5, <1>7, <1>9
<1> QED  BY <1>8, <1>9

LEMMA Machines ==
    ASSUME NEW s, IsMachine(s)
    PROVE  /\ \A how : IsMachine(Sm!Stop(s, how)) /\ Sm!Stop(s, how).run = how
           /\ \A r, v : IsMachine(Sm!SetReg(s, r, v))
           /\ \A a : /\ IsMachine(Sm!Goto(s, a)) /\ Sm!Goto(s, a).reg = s.reg
                     /\ Sm!Goto(s, a).run = s.run
           /\ \A m : IsMachine([s EXCEPT !.mem = m])
  BY DEF IsMachine, Sm!Stop, Sm!SetReg, Sm!Goto

LEMMA MemoryKeepsMachine ==
    ASSUME NEW s, IsMachine(s), NEW x, NEW a, NEW r, NEW v
    PROVE  IsMachine(Sm!Load32(x, s, a, r)) /\ IsMachine(Sm!Store32(x, s, a, v))
<1>1. IsMachine(Sm!Load32(x, s, a, r))
  BY Machines DEF Sm!Load32
<1>2. IsMachine(Sm!Store32(x, s, a, v))
  <2> DEFINE m == [y \in a..(a + 3) |-> Sm!integerToBytes(v)[y - a + 1]] @@ s.mem
  <2>1. Sm!Store32(x, s, a, v) = IF Sm!Accessible(x, a) THEN [s EXCEPT !.mem = m] ELSE Sm!Stop(s, "fault")
    BY DEF IsMachine, Sm!Store32
  <2> HIDE DEF m
  <2> QED  BY <2>1, Machines
<1> QED  BY <1>1, <1>2

\* The memory of a Java simulator gives and takes what that of a C simulator
\* does, or refuses.
LEMMA SameMemory ==
    ASSUME NEW s, IsMachine(s), NEW x \in Sm!Java, NEW a, NEW r, NEW v
    PROVE  /\ \/ Sm!Load32(x, s, a, r) = Sm!Load32("sm", s, a, r)
              \/ Sm!Load32(x, s, a, r).run = "fault"
           /\ \/ Sm!Store32(x, s, a, v) = Sm!Store32("sm", s, a, v)
              \/ Sm!Store32(x, s, a, v).run = "fault"
<1>1. ~Sm!Accessible(x, a) \/ (Sm!Accessible(x, a) /\ Sm!Accessible("sm", a))
  <2>1. "sm" \notin Sm!Java
    BY DEF Sm!Java
  <2> QED  BY <2>1 DEF Sm!Accessible
<1>2. Sm!Stop(s, "fault").run = "fault"
  BY Machines
<1>3. CASE ~Sm!Accessible(x, a)
  BY <1>2, <1>3 DEF Sm!Load32, Sm!Store32
<1>4. CASE Sm!Accessible(x, a) /\ Sm!Accessible("sm", a)
  BY <1>4 DEF Sm!Load32, Sm!Store32
<1> QED  BY <1>1, <1>3, <1>4

LEMMA SameMemoryC ==
    ASSUME NEW s, NEW a, NEW r, NEW v
    PROVE  /\ Sm!Load32("sm-jt", s, a, r) = Sm!Load32("sm", s, a, r)
           /\ Sm!Store32("sm-jt", s, a, v) = Sm!Store32("sm", s, a, v)
<1>1. "sm" \notin Sm!Java /\ "sm-jt" \notin Sm!Java
  BY DEF Sm!Java
<1>2. Sm!Accessible("sm-jt", a) <=> Sm!Accessible("sm", a)
  BY <1>1 DEF Sm!Accessible
<1> QED  BY <1>2 DEF Sm!Load32, Sm!Store32

LEMMA ExecuteKeepsMachine ==
    ASSUME NEW s, IsMachine(s), NEW x, NEW n, NEW i
    PROVE  IsMachine(Sm!Execute(x, n, s, i))
<1>1. \A a : IsMachine(Sm!Load32(x, s, a, i.op2)) /\ \A v : IsMachine(Sm!Store32(x, s, a, v))
  BY MemoryKeepsMachine
<1>2. IsMachine(Sm!IndexedLoad(x, s, i))
  BY <1>1, Machines DEF Sm!IndexedLoad
<1>3. IsMachine(Sm!Branch(s, i)) /\ \A a : IsMachine(Sm!Goto(s, a))
  BY Machines DEF Sm!Branch
<1>4. \A how : IsMachine(Sm!Stop(s, how))
  BY Machines
<1>5. \A r, v : IsMachine(Sm!SetReg(s, r, v))
  BY Machines
<1> HIDE DEF IsMachine
<1> QED  BY <1>1, <1>2, <1>3, <1>4, <1>5 DEF Sm!Execute

\* One instruction of the same name does the same in a simulator with the
\* jump tables as in sm.c.
LEMMA SameExecuteC ==
    ASSUME NEW s, NEW n, NEW i
    PROVE  Sm!Execute("sm-jt", n, s, i) = Sm!Execute("sm", n, s, i)
<1>1. \A a : /\ Sm!Load32("sm-jt", s, a, i.op2) = Sm!Load32("sm", s, a, i.op2)
             /\ \A v : Sm!Store32("sm-jt", s, a, v) = Sm!Store32("sm", s, a, v)
  BY SameMemoryC
<1>2. Sm!IndexedLoad("sm-jt", s, i) = Sm!IndexedLoad("sm", s, i)
  BY <1>1 DEF Sm!IndexedLoad
<1>3. Sm!IndirectTarget("sm-jt", s, i) = Sm!IndirectTarget("sm", s, i)
  BY DEF Sm!IndirectTarget, Sm!C
<1> QED  BY <1>1, <1>2, <1>3 DEF Sm!Execute

\* And in a Java simulator, but where the two part or it refuses to go on.
LEMMA SameExecuteJava ==
    ASSUME NEW s, IsMachine(s), NEW x \in Sm!Java, NEW n, NEW i,
           n = "ldx" /\ x = "a2" => s.reg[4 * i.op1] = Sm!Shl32(s.reg[i.op1], 2),
           n = "jr" => i.imm % 65536 = i.unsigned
    PROVE  \/ Sm!Execute(x, n, s, i) = Sm!Execute("sm", n, s, i)
           \/ Sm!Execute(x, n, s, i).run = "fault"
<1>1. \A a : /\ \/ Sm!Load32(x, s, a, i.op2) = Sm!Load32("sm", s, a, i.op2)
                \/ Sm!Load32(x, s, a, i.op2).run = "fault"
             /\ \A v : \/ Sm!Store32(x, s, a, v) = Sm!Store32("sm", s, a, v)
                       \/ Sm!Store32(x, s, a, v).run = "fault"
  BY SameMemory
<1>2. CASE n = "ld"
  <2>1. \A y : Sm!Execute(y, n, s, i) = Sm!Load32(y, s, Sm!AddW(s.reg[i.op1], 4 * i.op0), i.op2)
    BY <1>2 DEF Sm!Execute
  <2> QED  BY <1>1, <2>1
<1>3. CASE n = "ldx"
  <2>1. \A y : Sm!Execute(y, n, s, i) = Sm!IndexedLoad(y, s, i)
    BY <1>3 DEF Sm!Execute
  <2>2. Sm!IndexedLoad("sm", s, i) = Sm!Load32("sm", s, Sm!AddW(s.reg[i.op0], Sm!Shl32(s.reg[i.op1], 2)), i.op2)
    BY DEF Sm!IndexedLoad
  <2>3. CASE x = "a2"
    <3>1. \/ Sm!IndexedLoad(x, s, i) = Sm!Stop(s, "fault")
          \/ Sm!IndexedLoad(x, s, i) = Sm!Load32(x, s, Sm!AddW(s.reg[i.op0], Sm!Shl32(s.reg[i.op1], 2)), i.op2)
      BY <1>3, <2>3 DEF Sm!IndexedLoad
    <3>2. Sm!Stop(s, "fault").run = "fault"
      BY Machines
    <3> QED  BY <1>1, <2>1, <2>2, <3>1, <3>2
  <2>4. CASE x # "a2"
    <3>1. Sm!IndexedLoad(x, s, i) = Sm!Load32(x, s, Sm!AddW(s.reg[i.op0], Sm!Shl32(s.reg[i.op1], 2)), i.op2)
      BY <2>4 DEF Sm!IndexedLoad
    <3> QED  BY <1>1, <2>1, <2>2, <3>1
  <2> QED  BY <2>3, <2>4
<1>4. CASE n = "st"
  <2>1. \A y : Sm!Execute(y, n, s, i) = Sm!Store32(y, s, Sm!AddW(s.reg[i.op2], 4 * i.op1), s.reg[i.op0])
    BY <1>4 DEF Sm!Execute
  <2> QED  BY <1>1, <2>1
<1>5. CASE n = "stx"
  <2>1. \A y : Sm!Execute(y, n, s, i) =
                 Sm!Store32(y, s, Sm!AddW(s.reg[i.op1], Sm!Shl32(s.reg[i.op2], 2)), s.reg[i.op0])
    BY <1>5 DEF Sm!Execute
  <2> QED  BY <1>1, <2>1
<1>6. CASE n = "jr"
  <2>1. \A y : Sm!Execute(y, n, s, i) = Sm!Goto(s, Sm!IndirectTarget(y, s, i))
    BY <1>6 DEF Sm!Execute
  <2>2. Sm!IndirectTarget(x, s, i) = Sm!IndirectTarget("sm", s, i)
    BY <1>6 DEF Sm!IndirectTarget
  <2> QED  BY <2>1, <2>2
<1>7. CASE n \notin {"ld", "ldx", "st", "stx", "jr"}
  <2>1. Sm!Execute(x, n, s, i) = Sm!Execute("sm", n, s, i)
    BY <1>7 DEF Sm!Execute
  <2> QED  BY <2>1
<1> QED  BY <1>2, <1>3, <1>4, <1>5, <1>6, <1>7

LEMMA CycleKeepsMachine ==
    ASSUME NEW s, IsMachine(s), NEW x
    PROVE  IsMachine(Sm!Cycle(x, s))
<1> DEFINE i == Sm!fetch(s)
<1>1. \A n : IsMachine(Sm!Execute(x, n, Sm!Goto(s, i.next), i))
  BY Machines, ExecuteKeepsMachine
<1>2. IsMachine(Sm!Stop(s, "fault"))
  BY Machines
<1> HIDE DEF IsMachine
<1> QED  BY <1>1, <1>2 DEF Sm!Cycle

LEMMA FetchedFields ==
    ASSUME NEW s, FetchesByte(s)
    PROVE  Sm!fetch(s).op \in 0..15 /\ Sm!fetch(s).op0 \in 0..15
<1> DEFINE b == Sm!Bytes(s.mem, s.pc, 6)
<1>1. Sm!fetch(s).op = b[1] \div 16 /\ Sm!fetch(s).op0 = b[1] % 16
  BY DEF Sm!fetch
<1>2. \A y \in 0..255 : y \div 16 \in 0..15 /\ y % 16 \in 0..15
  OBVIOUS
<1>3. b[1] \in 0..255
  BY DEF FetchesByte
<1> HIDE DEF b
<1> QED  BY <1>1, <1>2, <1>3

\* Two machines of one state that both go on, or that both refuse, are in one
\* state after an instruction: with the jump tables always, ...
LEMMA SameCycleC ==
    ASSUME NEW s, FetchesByte(s)
    PROVE  Sm!Cycle("sm-jt", s) = Sm!Cycle("sm", s)
<1> DEFINE i == Sm!fetch(s)
           t == Sm!Goto(s, i.next)
           D(x) == Sm!Dispatch(x, i.op, i.op0)
<1>1. i.op \in 0..15 /\ i.op0 \in 0..15
  BY FetchedFields
<1>2. \A x : Sm!Cycle(x, s) = IF s.run # "run" THEN s ELSE IF ~Sm!Valid(s.pc, 2) THEN Sm!Stop(s, "fault")
                               ELSE Sm!Execute(x, D(x), t, i)
  BY DEF Sm!Cycle
<1> HIDE DEF i, t
<1>3. D("sm-jt") = D("sm") \/ (D("sm") = "illegal" /\ D("sm-jt") = "DEFAULT")
  BY <1>1, SameDispatch
<1>4. Sm!Execute("sm-jt", D("sm"), t, i) = Sm!Execute("sm", D("sm"), t, i)
  BY SameExecuteC
<1>5. Sm!Execute("sm-jt", "DEFAULT", t, i) = Sm!Execute("sm", "illegal", t, i)
  BY DEF Sm!Execute
<1> HIDE DEF D
<1> QED  BY <1>2, <1>3, <1>4, <1>5

\* ... and with a Java simulator but where the two part or it refuses.
LEMMA SameCycleJava ==
    ASSUME NEW s, IsMachine(s), FetchesByte(s), NEW x \in Sm!Java, ~Parting(x, s)
    PROVE  Sm!Cycle(x, s) = Sm!Cycle("sm", s) \/ Sm!Cycle(x, s).run = "fault"
<1> DEFINE i == Sm!fetch(s)
           t == Sm!Goto(s, i.next)
           D(y) == Sm!Dispatch(y, i.op, i.op0)
<1>1. i.op \in 0..15 /\ i.op0 \in 0..15
  BY FetchedFields
<1>2. \A y : Sm!Cycle(y, s) = IF s.run # "run" THEN s ELSE IF ~Sm!Valid(s.pc, 2) THEN Sm!Stop(s, "fault")
                               ELSE Sm!Execute(y, D(y), t, i)
  BY DEF Sm!Cycle
<1>3. IsMachine(t) /\ t.reg = s.reg
  BY Machines
<1>4. /\ x = "a6" /\ i.op = 12 => i.imm % 65536 = i.unsigned
      /\ x = "a2" /\ i.op = 2 => t.reg[4 * i.op1] = Sm!Shl32(t.reg[i.op1], 2)
  BY <1>3 DEF Parting
<1> HIDE DEF i, t
<1>5. CASE D(x) = "throw"
  <2>1. Sm!Execute(x, "throw", t, i) = Sm!Stop(t, "fault")
    BY DEF Sm!Execute
  <2>2. Sm!Stop(t, "fault").run = "fault"
    BY <1>3, Machines
  <2> HIDE DEF D
  <2> QED  BY <1>2, <1>5, <2>1, <2>2
<1>6. CASE D(x) = D("sm") /\ D(x) # "throw"
  <2>1. /\ D("sm") = "ldx" => i.op = 2
        /\ D("sm") = "jr" => i.op = 12 /\ D("a2") = "throw"
    BY <1>1, SameDispatch
  <2>2. x = "a6" \/ x = "a2"
    BY DEF Sm!Java
  <2> HIDE DEF D
  <2>3. /\ D("sm") = "ldx" /\ x = "a2" => t.reg[4 * i.op1] = Sm!Shl32(t.reg[i.op1], 2)
        /\ D("sm") = "jr" => i.imm % 65536 = i.unsigned
    BY <1>4, <1>6, <2>1, <2>2
  <2>4. \/ Sm!Execute(x, D("sm"), t, i) = Sm!Execute("sm", D("sm"), t, i)
        \/ Sm!Execute(x, D("sm"), t, i).run = "fault"
    BY <1>3, <2>3, SameExecuteJava
  <2> QED  BY <1>2, <1>6, <2>4
<1>7. D(x) = D("sm") \/ D(x) = "throw"
  BY <1>1, SameDispatch
<1> QED  BY <1>5, <1>6, <1>7

-----------------------------------------------------------------------------
(* The theorems.                                                           *)

\* The part that runs keeps its invariant.
DInv ==
    /\ part \in Parts
    /\ part = "counts" => RInv
    /\ part = "promises" => PInv
    /\ part = "list" => GInv

\* A step of the sequential parts is one of the part that runs.
LEMMA PartsStep ==
    ASSUME [DataNext]_<<part, vars, smvars, rcvars, glvars, btvars, prvars>>
    PROVE  /\ part' = part
           /\ [Next]_vars
           /\ part = "counts" => Rc!Next \/ UNCHANGED rcvars
           /\ part = "promises" => Pr!Next \/ UNCHANGED prvars
           /\ part = "list" => Gl!Next \/ UNCHANGED glvars
BY DEF DataNext, OthersStay

\* The invariants of the promises, of the counts and of the list.
LEMMA DataInvariant == DataSpec => []DInv
<1>1. DataInit => DInv
  BY DataAssumption, RInit, PInit, GInit DEF DataInit, DInv
<1>2. ASSUME DInv, [DataNext]_<<part, vars, smvars, rcvars, glvars, btvars, prvars>>  PROVE DInv'
  BY <1>2, PartsStep, RStep, PStep, GStep DEF DInv
<1> QED  BY <1>1, <1>2, PTL DEF DataSpec

\* promise.c, for any number of promises, thens and resolves in any order: a
\* promise is resolved exactly when the one it came from is, and with what its
\* function makes of that one's value, however long the chain is.
THEOREM PromisesSettleTogether == DataSpec => []PromisesSettle
<1>1. ASSUME DInv  PROVE PromisesSettle
  BY <1>1 DEF DInv, PInv, PromisesSettle
<1> QED  BY <1>1, DataInvariant, PTL

\* refcount.c, list.c and tree.c, for any number of elements and nodes and any
\* order of the calls: the counts are the references of the client, the list and
\* the tree, and an element and its string are there just as long as one is left.
THEOREM CountsAreReferences == DataSpec => []CountsMatchReferences
<1>1. ASSUME DInv  PROVE CountsMatchReferences
  BY <1>1, RCountsMatch DEF DInv, CountsMatchReferences
<1> QED  BY <1>1, DataInvariant, PTL

\* tree.c of a5/5.6 and a7/q3, for any elements put in in any order: what is left
\* of a node is not larger and what is right of it is larger, strings of a7/q3 exempt.
THEOREM ElementTreeSorted == DataSpec => [](part = "counts" => Rc!TreeSorted)
<1>1. ASSUME DInv  PROVE part = "counts" => Rc!TreeSorted
  BY <1>1 DEF DInv, RInv, RTree
<1> QED  BY <1>1, DataInvariant, PTL

\* list.c, for any first size, growth, elements and order of the calls: the list
\* is the sequence that its client put together, and list_index finds its first.
THEOREM ListIsKept == DataSpec => [](part = "list" => Gl!ListIsSequence)
<1>1. ASSUME DInv  PROVE part = "list" => Gl!ListIsSequence
  BY <1>1, GSequence DEF DInv
<1> QED  BY <1>1, DataInvariant, PTL

\* implicit.c beside the other parts: the heap behaves as it does alone, so its
\* blocks tile it and it gives every caller an area of its own.
THEOREM HeapAmongTheParts == DataSpec => []BlocksTileTheHeap /\ ImplementsHeap
<1>1. DataInit => Init
  BY DEF DataInit
<1>2. ASSUME [DataNext]_<<part, vars, smvars, rcvars, glvars, btvars, prvars>>  PROVE [Next]_vars
  BY <1>2, PartsStep
<1>3. DataSpec => Spec
  BY <1>1, <1>2, PTL DEF DataSpec, Spec
<1> QED  BY <1>3, TilingKept, HeapImplemented, PTL

\* Each simulator of the program is in the state of a machine.
MInv == part = "simulators" => \A x \in DOMAIN cpu : x \in Sm!C \cup Sm!Java /\ IsMachine(cpu[x])

LEMMA MachinesInvariant == DataSpec => []MInv
<1>1. ASSUME DataInit  PROVE MInv
  <2> SUFFICES ASSUME part = "simulators"  PROVE \A x \in DOMAIN cpu : x \in Sm!C \cup Sm!Java /\ IsMachine(cpu[x])
    BY DEF MInv
  <2>1. PICK p \in DOMAIN AllPrograms : cpu = Sm!Powered(AllPrograms[p])
    BY <1>1 DEF DataInit, Sm!Init
  <2>2. AllPrograms[p].on \subseteq Sm!C \cup Sm!Java
    BY ProgramsAssumption
  <2> QED  BY <2>1, <2>2 DEF Sm!Powered, IsMachine
<1>2. ASSUME MInv, [DataNext]_<<part, vars, smvars, rcvars, glvars, btvars, prvars>>  PROVE MInv'
  <2>1. CASE part = "simulators" /\ Sm!Next /\ UNCHANGED part
    <3>1. cpu' = [x \in DOMAIN cpu |-> Sm!Cycle(x, cpu[x])]
      BY <2>1 DEF Sm!Next
    <3>2. \A x \in DOMAIN cpu : x \in Sm!C \cup Sm!Java /\ IsMachine(Sm!Cycle(x, cpu[x]))
      BY <1>2, <2>1, CycleKeepsMachine DEF MInv
    <3>3. \A x \in DOMAIN cpu' : x \in DOMAIN cpu /\ cpu'[x] = Sm!Cycle(x, cpu[x])
      BY <3>1
    <3>4. \A x \in DOMAIN cpu' : x \in Sm!C \cup Sm!Java /\ IsMachine(cpu'[x])
      BY <3>2, <3>3
    <3> QED  BY <3>4 DEF MInv, IsMachine
  <2>2. CASE UNCHANGED <<part, cpu>>
    BY <1>2, <2>2 DEF MInv, IsMachine
  <2> QED  BY <1>2, <2>1, <2>2 DEF DataNext, OthersStay, smvars
<1> QED  BY <1>1, <1>2, PTL DEF DataSpec

\* sm.c and sm-jt.c, for any state they meet that begins with a byte: the same
\* registers, pc and memory after every instruction.
FetchesBytes == part = "simulators" => \A x \in DOMAIN cpu : FetchesByte(cpu[x])
SwitchIsTables == part = "simulators" /\ Sm!C \subseteq DOMAIN cpu => cpu["sm"] = cpu["sm-jt"]

THEOREM SwitchAndTablesAgree == DataSpec /\ []FetchesBytes => []SwitchIsTables
<1>1. ASSUME DataInit  PROVE SwitchIsTables
  BY <1>1 DEF DataInit, Sm!Init, Sm!Powered, SwitchIsTables, Sm!C
<1>2. ASSUME SwitchIsTables, FetchesBytes, [DataNext]_<<part, vars, smvars, rcvars, glvars, btvars, prvars>>
      PROVE  SwitchIsTables'
  <2>1. CASE part = "simulators" /\ Sm!Next /\ UNCHANGED part
    <3>1. cpu' = [x \in DOMAIN cpu |-> Sm!Cycle(x, cpu[x])]
      BY <2>1 DEF Sm!Next
    <3>2. CASE Sm!C \subseteq DOMAIN cpu
      <4>1. cpu'["sm"] = Sm!Cycle("sm", cpu["sm"]) /\ cpu'["sm-jt"] = Sm!Cycle("sm-jt", cpu["sm"]) /\ FetchesByte(cpu["sm"])
        BY <1>2, <2>1, <3>1, <3>2 DEF SwitchIsTables, FetchesBytes, Sm!C
      <4>2. cpu'["sm"] = cpu'["sm-jt"]
        BY <4>1, SameCycleC
      <4> QED  BY <4>2 DEF SwitchIsTables
    <3>3. CASE ~(Sm!C \subseteq DOMAIN cpu)
      <4>1. DOMAIN cpu' = DOMAIN cpu
        BY <3>1
      <4> QED  BY <3>3, <4>1 DEF SwitchIsTables, Sm!C
    <3> QED  BY <3>2, <3>3
  <2>2. CASE UNCHANGED <<part, cpu>>
    BY <1>2, <2>2 DEF SwitchIsTables, Sm!C
  <2> QED  BY <1>2, <2>1, <2>2 DEF DataNext, OthersStay, smvars
<1> QED  BY <1>1, <1>2, PTL DEF DataSpec

\* All simulators of a program agree as long as it does nothing on which they
\* are known to part, and none of them refuses to go on.
Ordinary ==
    part = "simulators" =>
        \A x \in DOMAIN cpu : FetchesByte(cpu[x]) /\ ~Parting(x, cpu[x]) /\ cpu[x].run # "fault"

THEOREM OrdinaryProgramsAgree == DataSpec /\ []Ordinary => []SimulatorsAgree
<1>1. ASSUME DataInit  PROVE SimulatorsAgree
  BY <1>1 DEF DataInit, Sm!Init, Sm!Powered, SimulatorsAgree, Sm!SimulatorsAgree
<1>2. ASSUME SimulatorsAgree, MInv, Ordinary, Ordinary',
             [DataNext]_<<part, vars, smvars, rcvars, glvars, btvars, prvars>>
      PROVE  SimulatorsAgree'
  <2>1. CASE part = "simulators" /\ Sm!Next /\ UNCHANGED part
    <3>1. cpu' = [x \in DOMAIN cpu |-> Sm!Cycle(x, cpu[x])]
      BY <2>1 DEF Sm!Next
    <3>2. ASSUME NEW x \in DOMAIN cpu  PROVE cpu'[x] = Sm!Cycle("sm", cpu[x])
      <4>1. cpu'[x] = Sm!Cycle(x, cpu[x]) /\ cpu'[x].run # "fault"
        BY <1>2, <2>1, <3>1 DEF Ordinary
      <4>2. FetchesByte(cpu[x]) /\ ~Parting(x, cpu[x]) /\ IsMachine(cpu[x]) /\ x \in Sm!C \cup Sm!Java
        BY <1>2, <2>1 DEF Ordinary, MInv
      <4>3. CASE x \in Sm!Java
        BY <4>1, <4>2, <4>3, SameCycleJava
      <4>4. CASE x \in Sm!C
        BY <4>1, <4>2, <4>4, SameCycleC DEF Sm!C
      <4> QED  BY <4>2, <4>3, <4>4
    <3>3. \A x, y \in DOMAIN cpu' : cpu'[x] = cpu'[y]
      <4>1. DOMAIN cpu' = DOMAIN cpu
        BY <3>1
      <4>2. \A x, y \in DOMAIN cpu : cpu[x] = cpu[y]
        BY <1>2, <2>1 DEF SimulatorsAgree, Sm!SimulatorsAgree
      <4> QED  BY <3>2, <4>1, <4>2
    <3> QED  BY <3>3 DEF SimulatorsAgree, Sm!SimulatorsAgree
  <2>2. CASE UNCHANGED <<part, cpu>>
    BY <1>2, <2>2 DEF SimulatorsAgree, Sm!SimulatorsAgree
  <2> QED  BY <1>2, <2>1, <2>2 DEF DataNext, OthersStay, smvars
<1> QED  BY <1>1, <1>2, MachinesInvariant, PTL DEF DataSpec
=============================================================================
