------------------------ MODULE HeapImplicit_proofs ------------------------
(***************************************************************************)
(* For any heap size and any requests, the blocks that mymalloc finds by   *)
(* walking over the words of the heap tile it, exactly the areas that      *)
(* callers have are in use, and the areas overlap nowhere.                 *)
(*                                                                         *)
(* A layout is the set B of the blocks' addresses, their sizes sz and the  *)
(* set used of those in use.  That the words of the memory spell out a     *)
(* layout is all that the functions of implicit.c read (Reads); a write of *)
(* two words changes the layout of the blocks they belong to and of no     *)
(* other, because blocks do not overlap (MarkBlock, SplitBlock, JoinNext). *)
(***************************************************************************)
EXTENDS HeapImplicit, WellFoundedInduction, TLAPS

Memory == [Words -> Int]
Ends == Words \cup {HeapSize}

Tiles(B, sz) ==
    /\ B \subseteq Words /\ 0 \in B
    /\ sz \in [B -> Nat]
    /\ \A b \in B : sz[b] % 4 = 0 /\ sz[b] >= 8 /\ b + sz[b] \in B \cup {HeapSize}
    /\ \A b, c \in B : b < c => b + sz[b] <= c

Word(b, sz, used) == sz[b] + (IF b \in used THEN 1 ELSE 0)

Written(m, B, sz, used) ==
    \A b \in B : m[b] = Word(b, sz, used) /\ m[(b + sz[b]) - 4] = Word(b, sz, used)

Layout(m, B, sz, used) ==
    m \in Memory /\ Tiles(B, sz) /\ used \subseteq B /\ Written(m, B, sz, used)

\* No two free blocks are neighbours.
Joined(B, sz, used) ==
    \A b \in B \ used : b + sz[b] # HeapSize => b + sz[b] \in used

InUse == {p - 4 : p \in DOMAIN live}

Areas == /\ live = [p \in DOMAIN live |-> live[p]]
         /\ \A p \in DOMAIN live : p \in Nat /\ live[p] \in Requests

Fits(sz) == \A p \in DOMAIN live : live[p] + 8 <= sz[p - 4]

IInv ==
    /\ Areas
    /\ \E B, sz : Layout(mem, B, sz, InUse) /\ Joined(B, sz, InUse) /\ Fits(sz)

-----------------------------------------------------------------------------
(* Numbers.                                                                *)

LEMMA LeastElement ==
    ASSUME NEW A, A \subseteq Nat, A # {}
    PROVE  \E m \in A : \A n \in A : m <= n
<1> DEFINE R == OpToRel(<, Nat)
<1>1. PICK m \in A : \A n \in A : ~(<<n, m>> \in R)
  BY NatLessThanWellFounded, WFMin
<1>2. \A x, y \in Nat : x < y => <<x, y>> \in R
  BY DEF OpToRel
<1> HIDE DEF R
<1>3. ASSUME NEW n \in A PROVE m <= n
  <2>1. n \in Nat /\ m \in Nat /\ ~(n < m)
    BY <1>1, <1>2
  <2> QED  BY <2>1
<1> QED  BY <1>3

LEMMA Multiples ==
    /\ \A x, y \in Int : x % 4 = 0 /\ y % 4 = 0 => (x + y) % 4 = 0 /\ (x - y) % 4 = 0
    /\ \A x, y \in Int : x % 4 = 0 /\ y % 4 = 0 /\ x < y => x + 4 <= y
    /\ \A x \in Int : (x - (x % 4)) % 4 = 0
OBVIOUS

\* What the lowest bits of a header say.
LEMMA HeaderBits ==
    ASSUME NEW s \in Int, s % 4 = 0, NEW u \in {0, 1}
    PROVE  (s + u) % 2 = u /\ (s + u) - ((s + u) % 4) = s
OBVIOUS

LEMMA SizeFacts ==
    /\ HeapSize \in Nat /\ HeapSize % 4 = 0 /\ HeapSize >= 12 /\ HEADER_SIZE = 4
    /\ \A a : a \in Words <=> a \in Int /\ 0 <= a /\ a < HeapSize /\ a % 4 = 0
BY SizeAssumption DEF HEADER_SIZE, Words

-----------------------------------------------------------------------------
(* The loop over the blocks.                                               *)

On(m, f) ==
    [a \in Ends |->
        IF ~is_within_heap_range(a) THEN {}
        ELSE {a} \cup (IF get_block_size(m, a) > 0 /\ get_next_block(m, a) <= HeapSize
                       THEN f[get_next_block(m, a)] ELSE {})]

Walk(m) == CHOOSE f : f = On(m, f)

\* Every step of the loop goes up, and stays among the words.
LEMMA StepsUp ==
    ASSUME NEW m \in Memory, NEW a \in Words
    PROVE  /\ get_block_size(m, a) \in Int /\ get_next_block(m, a) \in Int
           /\ get_block_size(m, a) > 0 => get_next_block(m, a) > a
           /\ get_block_size(m, a) > 0 /\ get_next_block(m, a) <= HeapSize
                 => get_next_block(m, a) \in Ends
<1>1. m[a] \in Int /\ a \in Int /\ a % 4 = 0 /\ a >= 0
  BY SizeFacts DEF Memory
<1>2. get_block_size(m, a) = m[a] - (m[a] % 4) /\ get_next_block(m, a) = a + get_block_size(m, a)
  <2>1. get_block_size(m, a) = m[a] - (m[a] % 4)
    BY <1>1 DEF get_block_size, HEADER_SIZE
  <2> QED  BY <2>1 DEF get_next_block
<1>3. get_block_size(m, a) \in Int /\ get_block_size(m, a) % 4 = 0
  BY <1>1, <1>2
<1>4. get_next_block(m, a) % 4 = 0
  <2>1. \A x, y \in Int : x % 4 = 0 /\ y % 4 = 0 => (x + y) % 4 = 0
    BY Multiples
  <2>2. (a + get_block_size(m, a)) % 4 = 0
    BY <1>1, <1>3, <2>1
  <2> QED  BY <1>2, <2>2
<1> QED  BY <1>1, <1>2, <1>3, <1>4, SizeFacts DEF Ends

LEMMA WalkExists ==
    ASSUME NEW m \in Memory
    PROVE  Walk(m) = On(m, Walk(m))
<1> DEFINE Right(n, f) == /\ f = [a \in Ends |-> f[a]]
                          /\ \A a \in Ends : a >= HeapSize - n => f[a] = On(m, f)[a]
           Wrong == {n \in Nat : ~\E f : Right(n, f)}
<1>0. HeapSize \in Nat /\ \A a \in Ends : a \in Int /\ 0 <= a /\ a <= HeapSize
  BY SizeFacts DEF Ends
<1>1. Wrong = {}
  <2> SUFFICES ASSUME Wrong # {}  PROVE FALSE
    OBVIOUS
  <2>1. PICK n \in Wrong : \A k \in Wrong : n <= k
    BY LeastElement
  <2>2. CASE n = 0
    <3> DEFINE g == [a \in Ends |-> {}]
    <3>1. \A a \in Ends : a >= HeapSize => On(m, g)[a] = {}
      BY <1>0 DEF On, is_within_heap_range
    <3>2. Right(0, g)
      BY <1>0, <3>1
    <3> QED  BY <2>2, <3>2
  <2>3. CASE n # 0
    <3>1. n - 1 \in Nat /\ n - 1 \notin Wrong
      BY <2>1, <2>3
    <3>2. PICK f : Right(n - 1, f)
      BY <3>1
    <3> DEFINE c == HeapSize - n
               g == [a \in Ends |-> IF a = c THEN On(m, f)[a] ELSE f[a]]
    <3>3. ASSUME NEW a \in Ends, a >= c  PROVE On(m, g)[a] = On(m, f)[a]
      <4>1. CASE a = HeapSize
        BY <1>0, <4>1 DEF On, is_within_heap_range
      <4>2. CASE a # HeapSize
        <5>1. a \in Words
          BY <4>2 DEF Ends
        <5>2. get_block_size(m, a) > 0 /\ get_next_block(m, a) <= HeapSize
                 => g[get_next_block(m, a)] = f[get_next_block(m, a)]
          BY <1>0, <3>3, <5>1, StepsUp
        <5> QED  BY <5>2 DEF On
      <4> QED  BY <4>1, <4>2
    <3>4. ASSUME NEW a \in Ends, a >= c  PROVE g[a] = On(m, g)[a]
      <4>1. CASE a = c
        BY <3>3, <3>4, <4>1
      <4>2. CASE a # c
        <5>1. a >= HeapSize - (n - 1)
          BY <1>0, <3>4, <4>2
        <5> QED  BY <3>2, <3>3, <3>4, <4>2, <5>1
      <4> QED  BY <4>1, <4>2
    <3>5. Right(n, g)
      BY <3>4
    <3> QED  BY <2>1, <3>5
  <2> QED  BY <2>2, <2>3
<1>2. PICK f : Right(HeapSize, f)
  BY <1>0, <1>1
<1>3. f = On(m, f)
  BY <1>0, <1>2 DEF On
<1> QED  BY <1>3 DEF Walk

LEMMA BlocksFromWalk == ASSUME NEW m  PROVE BlocksFrom(m) = Walk(m)[0]
BY DEF BlocksFrom, Walk, On, Ends

\* What the functions of implicit.c read from a block.
LEMMA Reads ==
    ASSUME NEW m, NEW B, NEW sz, NEW used, Layout(m, B, sz, used), NEW b \in B
    PROVE  /\ b \in Words /\ sz[b] \in Nat
           /\ get_block_size(m, b) = sz[b]
           /\ get_next_block(m, b) = b + sz[b]
           /\ block_is_in_use(m, b) <=> b \in used
           /\ is_last_block(m, b) <=> b + sz[b] = HeapSize
           /\ m[(b + sz[b]) - HEADER_SIZE] = m[b]
           /\ get_block_size(m, (b + sz[b]) - HEADER_SIZE) = sz[b]
<1> DEFINE u == IF b \in used THEN 1 ELSE 0
<1>1. b \in Words /\ sz[b] \in Nat /\ sz[b] % 4 = 0 /\ sz[b] \in Int
  BY DEF Layout, Tiles
<1>2. m[b] = sz[b] + u /\ m[(b + sz[b]) - 4] = sz[b] + u
  BY DEF Layout, Written, Word
<1>3. u \in {0, 1} /\ (u = 1 <=> b \in used)
  OBVIOUS
<1> HIDE DEF u
<1>4. (sz[b] + u) % 2 = u /\ (sz[b] + u) - ((sz[b] + u) % 4) = sz[b]
  BY <1>1, <1>3, HeaderBits
<1>5. get_block_size(m, b) = sz[b] /\ get_block_size(m, (b + sz[b]) - 4) = sz[b]
  BY <1>2, <1>4 DEF get_block_size, HEADER_SIZE
<1>6. block_is_in_use(m, b) <=> b \in used
  BY <1>2, <1>3, <1>4 DEF block_is_in_use
<1>7. get_next_block(m, b) = b + sz[b]
  BY <1>5 DEF get_next_block
<1>8. is_last_block(m, b) <=> b + sz[b] = HeapSize
  BY <1>7 DEF is_last_block
<1> QED  BY <1>1, <1>2, <1>5, <1>6, <1>7, <1>8 DEF HEADER_SIZE

\* The walk comes to all blocks of a layout and to nothing else.
LEMMA WalkOverLayout ==
    ASSUME NEW m, NEW B, NEW sz, NEW used, Layout(m, B, sz, used)
    PROVE  BlocksFrom(m) = B
<1> DEFINE From(b) == {c \in B : c >= b}
           Wrong == {b \in B : Walk(m)[b] # From(b)}
<1>1. Walk(m) = On(m, Walk(m))
  BY WalkExists DEF Layout
<1>2. Walk(m)[HeapSize] = {}
  BY <1>1, SizeFacts DEF On, Ends, is_within_heap_range
<1>3. B \subseteq Words /\ 0 \in B
  BY DEF Layout, Tiles
<1>4. Wrong = {}
  <2> SUFFICES ASSUME Wrong # {}  PROVE FALSE
    OBVIOUS
  <2> DEFINE Gaps == {HeapSize - b : b \in Wrong}
  <2>1. Gaps \subseteq Nat /\ Gaps # {}
    BY <1>3, SizeFacts
  <2> HIDE DEF Gaps
  <2>2. PICK g \in Gaps : \A k \in Gaps : g <= k
    BY <2>1, LeastElement
  <2>3. PICK b \in Wrong : g = HeapSize - b
    BY <2>2 DEF Gaps
  <2>4. \A c \in Wrong : HeapSize - b <= HeapSize - c
    BY <2>2, <2>3 DEF Gaps
  <2>5. b \in B /\ b \in Words /\ b \in Int
    BY <1>3, <2>3, SizeFacts
  <2>6. \A c \in B : c > b => Walk(m)[c] = From(c)
    BY <1>3, <2>4, <2>5, SizeFacts
  <2>7. /\ get_block_size(m, b) = sz[b] /\ get_next_block(m, b) = b + sz[b]
        /\ sz[b] >= 8 /\ sz[b] \in Nat /\ b + sz[b] \in B \cup {HeapSize}
        /\ \A c \in B : b < c => b + sz[b] <= c
    <3>1. get_block_size(m, b) = sz[b] /\ get_next_block(m, b) = b + sz[b]
      BY <2>5, Reads
    <3> QED  BY <2>5, <3>1 DEF Layout, Tiles
  <2>8. b + sz[b] <= HeapSize
    BY <1>3, <2>7, SizeFacts
  <2>9. Walk(m)[b] = {b} \cup Walk(m)[b + sz[b]]
    <3>1. Walk(m)[b] = On(m, Walk(m))[b] /\ b \in Ends /\ is_within_heap_range(b)
      BY <1>1, <2>5, SizeFacts DEF Ends, is_within_heap_range
    <3>2. On(m, Walk(m))[b] = {b} \cup Walk(m)[get_next_block(m, b)]
      BY <3>1, <2>7, <2>8 DEF On
    <3> QED  BY <3>1, <3>2, <2>7
  <2>10. Walk(m)[b] = From(b)
    <3>1. CASE b + sz[b] = HeapSize
      <4>1. \A c \in B : c >= b => c = b
        BY <1>3, <2>5, <2>7, <3>1, SizeFacts
      <4>2. From(b) = {b}
        <5>1. b >= b
          BY <2>5
        <5>2. \A c : c \in From(b) <=> c = b
          BY <2>5, <4>1, <5>1
        <5> HIDE DEF From
        <5> QED  BY <5>2
      <4>3. Walk(m)[b + sz[b]] = {}
        BY <3>1, <1>2
      <4> QED  BY <2>9, <4>2, <4>3
    <3>2. CASE b + sz[b] \in B
      <4>1. Walk(m)[b + sz[b]] = From(b + sz[b])
        BY <2>5, <2>6, <2>7, <3>2
      <4>2. \A c \in B : c >= b <=> c = b \/ c >= b + sz[b]
        BY <1>3, <2>5, <2>7, SizeFacts
      <4> QED  BY <2>5, <2>9, <4>1, <4>2
    <3> QED  BY <2>7, <3>1, <3>2
  <2> QED  BY <2>3, <2>10
<1>5. From(0) = B
  BY <1>3, SizeFacts
<1> QED  BY <1>3, <1>4, <1>5, BlocksFromWalk

\* Every block but the first has one in front of it, and its last word says where.
LEMMA BlockBefore ==
    ASSUME NEW m, NEW B, NEW sz, NEW used, Layout(m, B, sz, used), NEW b \in B, b # 0
    PROVE  \E a \in B : a + sz[a] = b /\ a < b /\ get_previous_block(m, b) = a
<1> DEFINE Gaps == {b - c : c \in {d \in B : d < b}}
<1>1. B \subseteq Words /\ 0 \in B /\ b \in Int /\ b < HeapSize /\ b > 0
  BY SizeFacts DEF Layout, Tiles
<1>2. Gaps \subseteq Nat /\ Gaps # {}
  BY <1>1, SizeFacts
<1> HIDE DEF Gaps
<1>3. PICK g \in Gaps : \A k \in Gaps : g <= k
  BY <1>2, LeastElement
<1>4. PICK a \in B : a < b /\ g = b - a
  BY <1>3 DEF Gaps
<1>5. a \in Int /\ \A c \in B : c < b => c <= a
  <2>1. \A c \in B : c < b => b - a <= b - c
    BY <1>3, <1>4 DEF Gaps
  <2> QED  BY <1>1, <2>1, SizeFacts
<1>6. sz[a] \in Nat /\ sz[a] >= 8 /\ a + sz[a] \in B \cup {HeapSize} /\ a + sz[a] <= b
  BY <1>4 DEF Layout, Tiles
<1>7. a + sz[a] = b
  <2>1. a + sz[a] \in B
    BY <1>1, <1>5, <1>6
  <2> QED  BY <1>1, <1>5, <1>6, <2>1
<1>8. get_block_size(m, b - HEADER_SIZE) = sz[a]
  <2>1. get_block_size(m, (a + sz[a]) - HEADER_SIZE) = sz[a]
    BY Reads
  <2> QED  BY <1>1, <1>5, <1>6, <1>7, <2>1, SizeFacts
<1>9. get_previous_block(m, b) = a
  BY <1>1, <1>5, <1>6, <1>7, <1>8 DEF get_previous_block
<1> QED  BY <1>4, <1>7, <1>9

-----------------------------------------------------------------------------
(* Writing the words of a block.                                           *)

LEMMA SetWords ==
    ASSUME NEW m \in Memory, NEW b \in Words, NEW s \in Int, NEW u \in {0, 1},
           NEW e \in Words, e = (b + s) - 4, NEW w, w = s + u
    PROVE  /\ set_block_header(m, b, s, u) \in Memory
           /\ \A a \in Words : set_block_header(m, b, s, u)[a] = IF a \in {b, e} THEN w ELSE m[a]
BY DEF set_block_header, Memory, HEADER_SIZE

\* Where the words of the blocks are, and that no two blocks share one.
LEMMA BlockWords ==
    ASSUME NEW B, NEW sz, Tiles(B, sz)
    PROVE  /\ \A b \in B : /\ b \in Words /\ b \in Int /\ sz[b] \in Int /\ sz[b] >= 8
                            /\ b + sz[b] <= HeapSize /\ (b + sz[b]) - 4 \in Words
           /\ \A b, c \in B : b < c \/ c < b \/ b = c
           /\ \A b, c \in B : b < c => b + sz[b] <= c
<1>1. \A b \in B : /\ b \in Words /\ b \in Int /\ b >= 0 /\ b % 4 = 0 /\ b < HeapSize
                   /\ sz[b] \in Int /\ sz[b] >= 8 /\ sz[b] % 4 = 0
                   /\ b + sz[b] \in B \cup {HeapSize}
  BY SizeFacts DEF Tiles
<1>2. ASSUME NEW b \in B  PROVE b + sz[b] <= HeapSize
  <2>1. CASE b + sz[b] = HeapSize
    BY <2>1, SizeFacts
  <2>2. CASE b + sz[b] \in B
    <3> DEFINE c == b + sz[b]
    <3>1. c \in B
      BY <2>2
    <3> HIDE DEF c
    <3>2. c \in Int /\ c < HeapSize
      BY <1>1, <3>1
    <3> QED  BY <3>2, SizeFacts DEF c
  <2> QED  BY <1>1, <2>1, <2>2
<1>3. ASSUME NEW b \in B  PROVE (b + sz[b]) - 4 \in Words
  <2>1. (b + sz[b]) % 4 = 0
    BY <1>1, Multiples
  <2>2. ((b + sz[b]) - 4) % 4 = 0
    BY <1>1, <2>1, Multiples
  <2> QED  BY <1>1, <1>2, <2>2, SizeFacts
<1>4. \A b, c \in B : b < c => b + sz[b] <= c
  BY DEF Tiles
<1>5. ASSUME NEW b \in B, NEW c \in B  PROVE b < c \/ c < b \/ b = c
  <2>1. b \in Int /\ c \in Int
    BY <1>1
  <2> QED  BY <2>1
<1> QED  BY <1>1, <1>2, <1>3, <1>4, <1>5

\* Marking a block, in use or free, leaves all others as they are.
LEMMA MarkBlock ==
    ASSUME NEW m, NEW B, NEW sz, NEW used, Layout(m, B, sz, used), NEW b \in B, NEW u \in {0, 1}
    PROVE  Layout(set_block_header(m, b, sz[b], u), B, sz,
                  IF u = 1 THEN used \cup {b} ELSE used \ {b})
<1> DEFINE n == set_block_header(m, b, sz[b], u)
           now == IF u = 1 THEN used \cup {b} ELSE used \ {b}
<1>1. m \in Memory /\ Tiles(B, sz) /\ used \subseteq B /\ Written(m, B, sz, used)
  BY DEF Layout
<1>2. /\ \A c \in B : /\ c \in Words /\ c \in Int /\ sz[c] \in Int /\ sz[c] >= 8
                       /\ c + sz[c] <= HeapSize /\ (c + sz[c]) - 4 \in Words
      /\ \A c, d \in B : c < d \/ d < c \/ c = d
      /\ \A c, d \in B : c < d => c + sz[c] <= d
  BY <1>1, BlockWords
<1>3. /\ n \in Memory
      /\ \A a \in Words : n[a] = IF a \in {b, (b + sz[b]) - 4} THEN sz[b] + u ELSE m[a]
  BY <1>1, <1>2, SetWords
<1> HIDE DEF n
<1>4. now \subseteq B
  BY <1>1
<1>5. ASSUME NEW c \in B  PROVE n[c] = Word(c, sz, now) /\ n[(c + sz[c]) - 4] = Word(c, sz, now)
  <2>1. CASE c = b
    <3>1. Word(b, sz, now) = sz[b] + u
      BY <1>2 DEF Word
    <3> QED  BY <1>2, <1>3, <2>1, <3>1
  <2>2. CASE c # b
    <3>1. c # (b + sz[b]) - 4 /\ (c + sz[c]) - 4 # b /\ (c + sz[c]) - 4 # (b + sz[b]) - 4
      BY <1>2, <2>2
    <3>2. n[c] = m[c] /\ n[(c + sz[c]) - 4] = m[(c + sz[c]) - 4]
      BY <1>2, <1>3, <2>2, <3>1
    <3>3. Word(c, sz, now) = Word(c, sz, used)
      BY <2>2 DEF Word
    <3> QED  BY <1>1, <3>2, <3>3 DEF Written
  <2> QED  BY <2>1, <2>2
<1>6. Written(n, B, sz, now)
  BY <1>5 DEF Written
<1> QED  BY <1>1, <1>3, <1>4, <1>6 DEF Layout, n

\* The second part of a block that is cut becomes a free block, the first one is in use.
LEMMA SplitBlock ==
    ASSUME NEW m, NEW B, NEW sz, NEW used, Layout(m, B, sz, used),
           NEW b \in B, b \notin used, NEW k \in Nat, k % 4 = 0, k >= 8, sz[b] - k >= 8
    PROVE  LET rest == b + k
               B2 == B \cup {rest}
           IN  /\ Layout(set_block_header(set_block_header(m, rest, sz[b] - k, 0), b, k, 1),
                         B2,
                         [x \in B2 |-> IF x = b THEN k ELSE IF x = rest THEN sz[b] - k ELSE sz[x]],
                         used \cup {b})
               /\ rest \notin B
<1> DEFINE rest == b + k
           s == sz[b]
           B2 == B \cup {rest}
           sz2 == [x \in B2 |-> IF x = b THEN k ELSE IF x = rest THEN s - k ELSE sz[x]]
           m1 == set_block_header(m, rest, s - k, 0)
           n == set_block_header(m1, b, k, 1)
           now == used \cup {b}
<1>1. m \in Memory /\ Tiles(B, sz) /\ used \subseteq B /\ Written(m, B, sz, used)
  BY DEF Layout
<1>2. /\ \A c \in B : /\ c \in Words /\ c \in Int /\ sz[c] \in Int /\ sz[c] >= 8
                       /\ c + sz[c] <= HeapSize /\ (c + sz[c]) - 4 \in Words
      /\ \A c, d \in B : c < d \/ d < c \/ c = d
      /\ \A c, d \in B : c < d => c + sz[c] <= d
  BY <1>1, BlockWords
<1>3. /\ b \in Words /\ b \in Int /\ b >= 0 /\ b % 4 = 0 /\ s \in Int /\ s % 4 = 0 /\ s >= 16
      /\ b + s <= HeapSize /\ (b + s) - 4 \in Words /\ rest \in Int /\ s - k \in Int
  <2>1. b \in Words /\ b \in Int /\ s \in Int /\ b + s <= HeapSize /\ (b + s) - 4 \in Words
    BY <1>2
  <2>2. s % 4 = 0
    BY <1>1 DEF Tiles
  <2> QED  BY <2>1, <2>2, SizeFacts
<1>4. rest \in Words /\ rest % 4 = 0 /\ (s - k) % 4 = 0
  <2>1. rest % 4 = 0 /\ (s - k) % 4 = 0
    BY <1>3, Multiples
  <2> QED  BY <1>3, <2>1, SizeFacts
<1>5. rest - 4 \in Words
  <2>1. (rest - 4) % 4 = 0
    BY <1>3, <1>4, Multiples
  <2> QED  BY <1>3, <1>4, <2>1, SizeFacts
<1>6. ASSUME NEW c \in B, c # b
      PROVE  c \in Int /\ sz[c] \in Int /\ sz[c] >= 8 /\ (c + sz[c] <= b \/ b + s <= c)
  BY <1>2, <1>6
<1>7. rest \notin B
  BY <1>3, <1>6
<1>8. /\ m1 \in Memory
      /\ \A a \in Words : m1[a] = IF a \in {rest, (b + s) - 4} THEN s - k ELSE m[a]
  <2>1. rest + ((s - k) - 4) = (b + s) - 4 /\ (s - k) + 0 = s - k
    BY <1>3
  <2>2. m1 = [m EXCEPT ![rest] = s - k, ![(b + s) - 4] = s - k]
    BY <2>1 DEF set_block_header, HEADER_SIZE
  <2> HIDE DEF m1, rest
  <2> QED  BY <1>1, <1>3, <1>4, <2>2 DEF Memory
<1> HIDE DEF m1
<1>9. /\ n \in Memory
      /\ \A a \in Words : n[a] = IF a \in {b, rest - 4} THEN k + 1 ELSE m1[a]
  <2>1. n = [m1 EXCEPT ![b] = k + 1, ![rest - 4] = k + 1]
    BY <1>3 DEF set_block_header, HEADER_SIZE
  <2> HIDE DEF n, rest
  <2> QED  BY <1>3, <1>5, <1>8, <2>1 DEF Memory
<1> HIDE DEF n
<1>10. Tiles(B2, sz2)
  <2>1. B2 \subseteq Words /\ 0 \in B2 /\ sz2 \in [B2 -> Nat]
    <3>1. B \subseteq Words /\ 0 \in B /\ \A c \in B : sz[c] \in Nat
      BY <1>1 DEF Tiles
    <3>2. k \in Nat /\ s - k \in Nat
      BY <1>3
    <3> QED  BY <1>4, <3>1, <3>2
  <2>2. ASSUME NEW c \in B2
        PROVE  sz2[c] % 4 = 0 /\ sz2[c] >= 8 /\ c + sz2[c] \in B2 \cup {HeapSize}
    <3>1. CASE c = b
      BY <3>1
    <3>2. CASE c = rest
      <4>1. sz2[c] = s - k /\ rest + (s - k) = b + s
        BY <1>3, <1>7, <3>2
      <4>2. b + s \in B \cup {HeapSize}
        BY <1>1 DEF Tiles
      <4> QED  BY <1>3, <1>4, <3>2, <4>1, <4>2
    <3>3. CASE c # b /\ c # rest
      BY <1>1, <3>3 DEF Tiles
    <3> QED  BY <3>1, <3>2, <3>3
  <2>3. ASSUME NEW c \in B2, NEW d \in B2, c < d  PROVE c + sz2[c] <= d
    <3>1. CASE c = b /\ d = rest
      BY <3>1, <1>3
    <3>2. CASE c = b /\ d # rest
      BY <1>3, <1>6, <2>3, <3>2
    <3>3. CASE c = rest
      <4>1. d \in B /\ d # b /\ sz2[c] = s - k
        BY <1>3, <1>7, <2>3, <3>3
      <4>2. d \in Int /\ (d + sz[d] <= b \/ b + s <= d) /\ sz[d] \in Int /\ sz[d] >= 8
        BY <1>6, <4>1
      <4> QED  BY <1>3, <2>3, <3>3, <4>1, <4>2
    <3>4. CASE c # b /\ c # rest /\ d = rest
      <4>1. c \in Int /\ sz[c] \in Int /\ sz[c] >= 8 /\ (c + sz[c] <= b \/ b + s <= c) /\ sz2[c] = sz[c]
        BY <1>6, <3>4
      <4> QED  BY <1>3, <2>3, <3>4, <4>1
    <3>5. CASE c # b /\ c # rest /\ d # rest
      BY <1>2, <2>3, <3>5
    <3> QED  BY <3>1, <3>2, <3>3, <3>4, <3>5
  <2> HIDE DEF B2, sz2
  <2> QED  BY <2>1, <2>2, <2>3 DEF Tiles
<1>11. ASSUME NEW c \in B2  PROVE n[c] = Word(c, sz2, now) /\ n[(c + sz2[c]) - 4] = Word(c, sz2, now)
  <2>1. CASE c = b
    <3>1. Word(b, sz2, now) = k + 1
      BY DEF Word
    <3>2. n[b] = k + 1 /\ n[rest - 4] = k + 1
      BY <1>3, <1>5, <1>9
    <3>3. (c + sz2[c]) - 4 = rest - 4
      <4>1. sz2[b] = k
        OBVIOUS
      <4> QED  BY <1>3, <2>1, <4>1
    <3> QED  BY <2>1, <3>1, <3>2, <3>3
  <2>2. CASE c = rest
    <3>1. sz2[rest] = s - k /\ rest \notin now
      BY <1>1, <1>3, <1>7
    <3>2. Word(rest, sz2, now) = s - k
      BY <1>3, <3>1 DEF Word
    <3>3. (rest + (s - k)) - 4 = (b + s) - 4 /\ rest # b /\ rest # rest - 4 /\ (b + s) - 4 # b /\ (b + s) - 4 # rest - 4
      BY <1>3
    <3>4. n[rest] = s - k /\ n[(b + s) - 4] = s - k
      BY <1>3, <1>4, <1>8, <1>9, <3>3
    <3> QED  BY <2>2, <3>1, <3>2, <3>3, <3>4
  <2>3. CASE c # b /\ c # rest
    <3>1. c \in B /\ sz2[c] = sz[c] /\ (c \in now <=> c \in used)
      BY <2>3
    <3>2. c \in Words /\ (c + sz[c]) - 4 \in Words
      BY <1>2, <3>1
    <3>3. /\ c \in Int /\ sz[c] \in Int /\ sz[c] >= 8 /\ (c + sz[c] <= b \/ b + s <= c)
      BY <1>6, <2>3, <3>1
    <3>4. /\ c # b /\ c # rest - 4 /\ c # rest /\ c # (b + s) - 4
          /\ (c + sz[c]) - 4 # b /\ (c + sz[c]) - 4 # rest - 4
          /\ (c + sz[c]) - 4 # rest /\ (c + sz[c]) - 4 # (b + s) - 4
      BY <1>3, <3>3
    <3>5. n[c] = m[c] /\ n[(c + sz[c]) - 4] = m[(c + sz[c]) - 4]
      BY <1>8, <1>9, <3>2, <3>4
    <3> QED  BY <1>1, <3>1, <3>5 DEF Written, Word
  <2> QED  BY <2>1, <2>2, <2>3
<1>12. now \subseteq B2
  BY <1>1
<1>13. Layout(n, B2, sz2, now)
  BY <1>9, <1>10, <1>11, <1>12 DEF Layout, Written
<1> QED  BY <1>7, <1>13 DEF n, m1

\* A free block and the free block behind it become one.
LEMMA JoinNext ==
    ASSUME NEW m, NEW B, NEW sz, NEW used, Layout(m, B, sz, used),
           NEW b \in B, b \notin used, NEW c \in B, c = b + sz[b], c \notin used
    PROVE  LET B2 == B \ {c}
           IN  Layout(set_block_header(m, b, sz[b] + sz[c], 0), B2,
                      [x \in B2 |-> IF x = b THEN sz[b] + sz[c] ELSE sz[x]], used)
<1> DEFINE s == sz[b] + sz[c]
           B2 == B \ {c}
           sz2 == [x \in B2 |-> IF x = b THEN s ELSE sz[x]]
           n == set_block_header(m, b, s, 0)
<1>1. m \in Memory /\ Tiles(B, sz) /\ used \subseteq B /\ Written(m, B, sz, used)
  BY DEF Layout
<1>2. /\ \A x \in B : /\ x \in Words /\ x \in Int /\ sz[x] \in Int /\ sz[x] >= 8
                       /\ x + sz[x] <= HeapSize /\ (x + sz[x]) - 4 \in Words
      /\ \A x, y \in B : x < y \/ y < x \/ x = y
      /\ \A x, y \in B : x < y => x + sz[x] <= y
  BY <1>1, BlockWords
<1>3. /\ b \in Words /\ b \in Int /\ c \in Int /\ sz[b] \in Int /\ sz[c] \in Int
      /\ sz[b] >= 8 /\ sz[c] >= 8 /\ s \in Int
      /\ b + s = c + sz[c] /\ (b + s) - 4 \in Words /\ b < c /\ b >= 0
  <2>1. /\ b \in Words /\ b \in Int /\ c \in Int /\ sz[b] \in Int /\ sz[c] \in Int
        /\ sz[b] >= 8 /\ sz[c] >= 8 /\ (c + sz[c]) - 4 \in Words
    BY <1>2
  <2>2. b + s = c + sz[c]
    BY <2>1
  <2>3. (b + s) - 4 = (c + sz[c]) - 4
    BY <2>1
  <2> QED  BY <2>1, <2>2, <2>3, SizeFacts
<1>4. ASSUME NEW x \in B2, x # b
      PROVE  /\ x \in Int /\ sz[x] \in Int /\ sz[x] >= 8 /\ (x + sz[x] <= b \/ b + s <= x)
             /\ x \in Words /\ (x + sz[x]) - 4 \in Words
  <2>1. /\ x \in Int /\ sz[x] \in Int /\ sz[x] >= 8 /\ x # b /\ x # c
        /\ x \in Words /\ (x + sz[x]) - 4 \in Words
    BY <1>2, <1>4
  <2>2. (x < b => x + sz[x] <= b) /\ (b < x => c <= x) /\ (c < x => c + sz[c] <= x)
    BY <1>2
  <2> QED  BY <1>3, <2>1, <2>2
<1>5. /\ n \in Memory
      /\ \A a \in Words : n[a] = IF a \in {b, (b + s) - 4} THEN s ELSE m[a]
  <2>1. n = [m EXCEPT ![b] = s, ![(b + s) - 4] = s]
    <3>1. s + 0 = s /\ b + (s - 4) = (b + s) - 4
      BY <1>3
    <3> QED  BY <1>3, <3>1 DEF set_block_header, HEADER_SIZE
  <2> HIDE DEF n, s
  <2> QED  BY <1>1, <1>3, <2>1 DEF Memory
<1> HIDE DEF n
<1>6. Tiles(B2, sz2)
  <2>1. B2 \subseteq Words /\ 0 \in B2 /\ sz2 \in [B2 -> Nat]
    <3>1. B \subseteq Words /\ 0 \in B /\ \A x \in B : sz[x] \in Nat
      BY <1>1 DEF Tiles
    <3>2. s \in Nat /\ c # 0
      BY <1>3
    <3> QED  BY <3>1, <3>2
  <2>2. ASSUME NEW x \in B2
        PROVE  sz2[x] % 4 = 0 /\ sz2[x] >= 8 /\ x + sz2[x] \in B2 \cup {HeapSize}
    <3>0. \A y \in B : sz[y] % 4 = 0 /\ y + sz[y] \in B \cup {HeapSize}
      BY <1>1 DEF Tiles
    <3>1. CASE x = b
      <4>1. s % 4 = 0
        BY <1>3, <3>0, Multiples
      <4>2. c + sz[c] \in B \cup {HeapSize} /\ c + sz[c] # c
        BY <1>3, <3>0
      <4>3. sz2[b] = s
        BY <1>3
      <4>4. b + s \in B2 \cup {HeapSize}
        BY <1>3, <4>2
      <4> HIDE DEF sz2, s
      <4> QED  BY <1>3, <3>1, <4>1, <4>3, <4>4
    <3>2. CASE x # b
      <4>1. x + sz[x] # c
        BY <1>3, <1>4, <3>2
      <4> QED  BY <1>4, <3>0, <3>2, <4>1
    <3> QED  BY <3>1, <3>2
  <2>3. ASSUME NEW x \in B2, NEW y \in B2, x < y  PROVE x + sz2[x] <= y
    <3>1. CASE x = b
      BY <1>3, <1>4, <2>3, <3>1
    <3>2. CASE x # b
      BY <1>2, <2>3, <3>2
    <3> QED  BY <3>1, <3>2
  <2> HIDE DEF B2, sz2
  <2> QED  BY <2>1, <2>2, <2>3 DEF Tiles
<1>7. ASSUME NEW x \in B2  PROVE n[x] = Word(x, sz2, used) /\ n[(x + sz2[x]) - 4] = Word(x, sz2, used)
  <2>1. CASE x = b
    <3>1. sz2[b] = s
      BY <1>3
    <3>2. Word(b, sz2, used) = s
      BY <1>3, <3>1 DEF Word
    <3>3. n[b] = s /\ n[(b + s) - 4] = s
      BY <1>3, <1>5
    <3> QED  BY <2>1, <3>1, <3>2, <3>3
  <2>2. CASE x # b
    <3>1. /\ x \in Int /\ sz[x] \in Int /\ sz[x] >= 8 /\ (x + sz[x] <= b \/ b + s <= x)
          /\ x \in Words /\ (x + sz[x]) - 4 \in Words
      BY <1>4, <2>2
    <3>2. x # (b + s) - 4 /\ (x + sz[x]) - 4 # b /\ (x + sz[x]) - 4 # (b + s) - 4
      BY <1>3, <3>1
    <3>3. n[x] = m[x] /\ n[(x + sz[x]) - 4] = m[(x + sz[x]) - 4]
      BY <1>5, <2>2, <3>1, <3>2
    <3>4. sz2[x] = sz[x] /\ x \in B
      BY <2>2
    <3> QED  BY <1>1, <3>3, <3>4 DEF Written, Word
  <2> QED  BY <2>1, <2>2
<1>8. used \subseteq B2
  BY <1>1
<1>9. Layout(n, B2, sz2, used)
  BY <1>5, <1>6, <1>7, <1>8 DEF Layout, Written
<1> QED  BY <1>9 DEF n

\* What a caller writes into the n bytes of its area stays between the words of the block.
LEMMA FillKeeps ==
    ASSUME NEW m, NEW B, NEW sz, NEW used, Layout(m, B, sz, used),
           NEW b \in B, NEW n \in Nat, n + 8 <= sz[b]
    PROVE  Layout(Fill(m, b + HEADER_SIZE, n), B, sz, used)
<1> DEFINE f == Fill(m, b + HEADER_SIZE, n)
<1>1. m \in Memory /\ Tiles(B, sz) /\ used \subseteq B /\ Written(m, B, sz, used)
  BY DEF Layout
<1>2. /\ \A x \in B : /\ x \in Words /\ x \in Int /\ sz[x] \in Int /\ sz[x] >= 8
                       /\ x + sz[x] <= HeapSize /\ (x + sz[x]) - 4 \in Words
      /\ \A x, y \in B : x < y \/ y < x \/ x = y
      /\ \A x, y \in B : x < y => x + sz[x] <= y
  BY <1>1, BlockWords
<1>3. f \in Memory
  BY <1>1 DEF Fill, Filled, Memory
<1>4. ASSUME NEW a \in Words, a \in Int, ~(a > b /\ a < b + 4 + n)  PROVE f[a] = m[a]
  <2>1. b \in Int /\ HEADER_SIZE = 4
    BY <1>2, SizeFacts
  <2>2. ~(a + 4 > b + 4 /\ a < b + 4 + n)
    BY <1>4, <2>1
  <2> QED  BY <2>1, <2>2 DEF Fill
<1>5. ASSUME NEW x \in B  PROVE f[x] = m[x] /\ f[(x + sz[x]) - 4] = m[(x + sz[x]) - 4]
  <2>1. /\ b \in Int /\ sz[b] \in Int /\ x \in Int /\ sz[x] \in Int /\ sz[x] >= 8
        /\ x \in Words /\ (x + sz[x]) - 4 \in Words
    BY <1>2
  <2>2. x = b \/ x + sz[x] <= b \/ b + sz[b] <= x
    BY <1>2
  <2>3. /\ ~(x > b /\ x < b + 4 + n)
        /\ ~((x + sz[x]) - 4 > b /\ (x + sz[x]) - 4 < b + 4 + n)
    BY <2>1, <2>2
  <2> QED  BY <1>4, <2>1, <2>3
<1> HIDE DEF f
<1>6. Written(f, B, sz, used)
  BY <1>1, <1>5 DEF Written
<1> QED  BY <1>1, <1>3, <1>6 DEF Layout, f

\* A request is rounded up to whole words and two more.
LEMMA Rounded ==
    ASSUME NEW n \in Nat
    PROVE  /\ get_size_to_allocate(n) \in Nat /\ get_size_to_allocate(n) % 4 = 0
           /\ get_size_to_allocate(n) >= n + 8
<1>1. get_size_to_allocate(n) = ((n + 3) \div 4) * 4 + 8
  BY DEF get_size_to_allocate, HEADER_SIZE
<1>2. (n + 3) \div 4 \in Nat /\ ((n + 3) \div 4) * 4 >= n
  OBVIOUS
<1> QED  BY <1>1, <1>2

-----------------------------------------------------------------------------
(* mymalloc and myfree.                                                    *)

\* The words of a layout as the functions of implicit.c see them, for all blocks.
LEMMA ReadsAll ==
    ASSUME NEW m, NEW B, NEW sz, NEW used, Layout(m, B, sz, used)
    PROVE  /\ BlocksFrom(m) = B
           /\ \A b \in B : /\ get_block_size(m, b) = sz[b]
                           /\ get_next_block(m, b) = b + sz[b]
                           /\ block_is_in_use(m, b) <=> b \in used
                           /\ is_last_block(m, b) <=> b + sz[b] = HeapSize
                           /\ m[(b + sz[b]) - HEADER_SIZE] = m[b]
BY WalkOverLayout, Reads

\* The block b is handed out for a request of n bytes; the layout is B2, sz2 then.
Takes(b, n, sz, B2, sz2) ==
    /\ live' = [q \in DOMAIN live \cup {b + 4} |-> IF q = b + 4 THEN n ELSE live[q]]
    /\ Layout(mem', B2, sz2, InUse \cup {b})
    /\ Joined(B2, sz2, InUse \cup {b})
    /\ n + 8 <= sz2[b]
    /\ sz2[b] <= sz[b]
    /\ \A c \in InUse : sz2[c] = sz[c]

\* mymalloc marks a free block that is large enough, whole or its first part.
LEMMA MallocLayout ==
    ASSUME NEW B, NEW sz, Layout(mem, B, sz, InUse), Joined(B, sz, InUse),
           NEW n \in Nat, mymalloc(n)
    PROVE  \E b \in B \ InUse : \E B2, sz2 : Takes(b, n, sz, B2, sz2)
<1> DEFINE k == get_size_to_allocate(n)
           fits == {b \in BlocksFrom(mem) : ~block_is_in_use(mem, b) /\ get_block_size(mem, b) >= k}
           b == Min(fits)
<1>1. /\ BlocksFrom(mem) = B
      /\ \A c \in B : get_block_size(mem, c) = sz[c] /\ (block_is_in_use(mem, c) <=> c \in InUse)
  BY ReadsAll
<1>2. /\ fits # {}
      /\ mem' = Fill(split_and_mark_used(mem, b, k), b + HEADER_SIZE, n)
      /\ live' = [q \in DOMAIN live \cup {b + HEADER_SIZE} |->
                     IF q = b + HEADER_SIZE THEN n ELSE live[q]]
  BY DEF mymalloc
<1>3. Tiles(B, sz) /\ InUse \subseteq B
  BY DEF Layout
<1>4. b \in fits
  <2>1. fits \subseteq Nat
    BY <1>1, <1>3, SizeFacts DEF Tiles
  <2> HIDE DEF fits
  <2> QED  BY <1>2, <2>1, LeastElement DEF Min
<1>5. b \in B /\ b \notin InUse /\ sz[b] >= k /\ get_block_size(mem, b) = sz[b]
  BY <1>1, <1>4
<1>6. k \in Nat /\ k % 4 = 0 /\ k >= n + 8
  BY Rounded
<1>7. HEADER_SIZE = 4
  BY SizeFacts
<1> HIDE DEF b, k, fits
<1> DEFINE used == InUse \cup {b}
<1>8. b \in Int /\ sz[b] \in Int
  BY <1>3, <1>5, BlockWords
<1>9. live' = [q \in DOMAIN live \cup {b + 4} |-> IF q = b + 4 THEN n ELSE live[q]]
  BY <1>2, <1>7
<1>10. CASE sz[b] - k >= 12
  <2> DEFINE rest == b + k
             B2 == B \cup {rest}
             sz2 == [x \in B2 |-> IF x = b THEN k ELSE IF x = rest THEN sz[b] - k ELSE sz[x]]
             m2 == set_block_header(set_block_header(mem, rest, sz[b] - k, 0), b, k, 1)
  <2>1. split_and_mark_used(mem, b, k) = m2
    BY <1>5, <1>7, <1>10 DEF split_and_mark_used
  <2>2. k >= 8 /\ sz[b] - k >= 8
    BY <1>6, <1>8, <1>10
  <2>3. Layout(m2, B2, sz2, used) /\ rest \notin B
    BY <1>5, <1>6, <2>2, SplitBlock
  <2>4. sz2[b] = k /\ b \in B2
    BY <1>5
  <2>5. \A c \in InUse : sz2[c] = sz[c]
    BY <1>3, <1>5, <2>3
  <2>6. Joined(B2, sz2, used)
    <3> SUFFICES ASSUME NEW x \in B2, x \notin used, x + sz2[x] # HeapSize
                 PROVE  x + sz2[x] \in used
      BY DEF Joined
    <3>1. CASE x = rest
      <4>1. x + sz2[x] = b + sz[b]
        BY <1>5, <1>6, <1>8, <2>3, <3>1
      <4> QED  BY <1>5, <4>1 DEF Joined
    <3>2. CASE x # rest
      BY <3>2 DEF Joined
    <3> QED  BY <3>1, <3>2
  <2> HIDE DEF m2, B2, sz2
  <2>7. Layout(Fill(m2, b + HEADER_SIZE, n), B2, sz2, used)
    BY <1>6, <2>3, <2>4, FillKeeps
  <2>8. Layout(mem', B2, sz2, used)
    BY <1>2, <2>1, <2>7
  <2> QED  BY <1>5, <1>6, <1>9, <2>4, <2>5, <2>6, <2>8 DEF Takes
<1>11. CASE ~(sz[b] - k >= 12)
  <2> DEFINE m2 == set_block_header(mem, b, sz[b], 1)
  <2>1. split_and_mark_used(mem, b, k) = m2
    BY <1>5, <1>7, <1>11 DEF split_and_mark_used
  <2>2. Layout(m2, B, sz, used)
    BY <1>5, MarkBlock
  <2>3. n + 8 <= sz[b]
    BY <1>5, <1>6, <1>8
  <2>4. Joined(B, sz, used)
    BY DEF Joined
  <2> HIDE DEF m2
  <2>5. Layout(Fill(m2, b + HEADER_SIZE, n), B, sz, used)
    BY <1>5, <2>2, <2>3, FillKeeps
  <2>6. Layout(mem', B, sz, used)
    BY <1>2, <2>1, <2>5
  <2>7. sz[b] <= sz[b]
    BY <1>8
  <2> QED  BY <1>5, <1>9, <2>3, <2>4, <2>6, <2>7 DEF Takes
<1> QED  BY <1>10, <1>11

\* myfree marks the block as free and joins it with the free blocks beside it.
LEMMA FreeLayout ==
    ASSUME NEW B, NEW sz, Layout(mem, B, sz, InUse), Joined(B, sz, InUse),
           NEW p \in DOMAIN live, p \in Nat, myfree(p)
    PROVE  \E B2, sz2 :
              /\ live' = [q \in DOMAIN live \ {p} |-> live[q]]
              /\ Layout(mem', B2, sz2, InUse \ {p - 4})
              /\ Joined(B2, sz2, InUse \ {p - 4})
              /\ \A c \in InUse \ {p - 4} : sz2[c] = sz[c]
<1> DEFINE b == p - HEADER_SIZE
           freed == set_block_header(mem, b, get_block_size(mem, b), 0)
           next == get_next_block(freed, b)
           m == IF /\ ~is_last_block(freed, b) /\ is_within_heap_range(next)
                   /\ ~block_is_in_use(freed, next)
                THEN coalesce(freed, b) ELSE freed
           joins == /\ ~is_first_block(b)
                    /\ is_within_heap_range(get_previous_block(m, b))
                    /\ ~block_is_in_use(m, get_previous_block(m, b))
           U == InUse \ {b}
<1>1. b = p - 4 /\ b \in InUse /\ InUse \subseteq B /\ b \in B
  BY SizeFacts DEF InUse, Layout
<1>2. /\ mem' = IF joins THEN coalesce(m, get_previous_block(m, b)) ELSE m
      /\ live' = [q \in DOMAIN live \ {p} |-> live[q]]
  BY DEF myfree
<1>3. Layout(freed, B, sz, U)
  <2>1. get_block_size(mem, b) = sz[b]
    BY <1>1, Reads
  <2>2. freed = set_block_header(mem, b, sz[b], 0) /\ b \in B /\ 0 \in {0, 1} /\ 0 # 1
    BY <1>1, <2>1
  <2> HIDE DEF freed, b
  <2>3. Layout(freed, B, sz, IF 0 = 1 THEN InUse \cup {b} ELSE InUse \ {b})
    BY <2>2, MarkBlock
  <2> QED  BY <2>2, <2>3
<1>4. /\ \A c \in B : /\ c \in Words /\ c \in Int /\ sz[c] \in Int /\ sz[c] >= 8
                       /\ c + sz[c] \in B \cup {HeapSize}
      /\ \A c \in B : c >= 0 /\ c < HeapSize
  <2>1. Tiles(B, sz)
    BY <1>3 DEF Layout
  <2> QED  BY <2>1, BlockWords, SizeFacts DEF Tiles
<1> HIDE DEF b, U, freed, joins, m, next
<1>5. \E B1, sz1 :
         /\ Layout(m, B1, sz1, U) /\ b \in B1
         /\ b + sz1[b] = HeapSize \/ b + sz1[b] \in U
         /\ \A x \in B1 : x \notin U /\ x # b /\ x + sz1[x] # HeapSize => x + sz1[x] \in U \cup {b}
         /\ \A c \in U : sz1[c] = sz[c]
  <2>1. next = b + sz[b] /\ (is_last_block(freed, b) <=> next = HeapSize)
        /\ ~block_is_in_use(freed, b) /\ get_block_size(freed, b) = sz[b]
    BY <1>1, <1>3, Reads DEF next, U
  <2>2. \A x \in B : x \notin U /\ x # b /\ x + sz[x] # HeapSize => x + sz[x] \in U \cup {b}
    BY <1>1 DEF Joined, U
  <2>3. CASE next \in B /\ next \notin U
    <3>1. /\ next # HeapSize /\ is_within_heap_range(next) /\ ~block_is_in_use(freed, next)
          /\ get_block_size(freed, next) = sz[next]
      <4>1. next < HeapSize /\ next >= 0 /\ next \in Int
        BY <1>4, <2>3
      <4>2. ~block_is_in_use(freed, next) /\ get_block_size(freed, next) = sz[next]
        BY <1>3, <2>3, Reads
      <4> QED  BY <4>1, <4>2, SizeFacts DEF is_within_heap_range
    <3> DEFINE B1 == B \ {next}
               sz1 == [x \in B1 |-> IF x = b THEN sz[b] + sz[next] ELSE sz[x]]
    <3>2. m = set_block_header(freed, b, sz[b] + sz[next], 0)
      BY <2>1, <3>1 DEF m, next, coalesce
    <3>3. Layout(m, B1, sz1, U)
      <4>1. b \in B /\ b \notin U /\ next \in B /\ next \notin U /\ b + sz[b] = next
        BY <1>1, <2>1, <2>3 DEF U
      <4>2. Layout(set_block_header(freed, b, sz[b] + sz[next], 0), B1, sz1, U)
        BY <1>3, <4>1, JoinNext
      <4> QED  BY <3>2, <4>2
    <3>4. b # next /\ b + (sz[b] + sz[next]) = next + sz[next]
      BY <1>1, <1>4, <2>1, <2>3
    <3>5. sz1[b] = sz[b] + sz[next] /\ b \in B1
      BY <1>1, <3>4
    <3>6. next + sz[next] = HeapSize \/ next + sz[next] \in U
      <4>1. next \notin InUse /\ (next + sz[next] # HeapSize => next + sz[next] \in InUse)
        BY <2>3, <3>4 DEF Joined, U
      <4>2. next + sz[next] # b
        BY <1>1, <1>4, <2>1, <2>3
      <4> QED  BY <4>1, <4>2 DEF U
    <3>7. \A c \in U : sz1[c] = sz[c]
      BY <1>1, <2>3 DEF U
    <3>8. \A x \in B1 : x \notin U /\ x # b /\ x + sz1[x] # HeapSize => x + sz1[x] \in U \cup {b}
      BY <2>2
    <3> HIDE DEF B1, sz1
    <3> QED  BY <3>3, <3>4, <3>5, <3>6, <3>7, <3>8
  <2>4. CASE ~(next \in B /\ next \notin U)
    <3>1. next = HeapSize \/ next \in U
      BY <1>1, <1>4, <2>1, <2>4
    <3>2. next \in U => block_is_in_use(freed, next)
      BY <1>1, <1>3, Reads DEF U
    <3>3. m = freed
      BY <2>1, <3>1, <3>2 DEF m
    <3> QED  BY <1>1, <1>3, <2>1, <2>2, <3>1, <3>3
  <2> QED  BY <2>3, <2>4
<1>6. PICK B1, sz1 :
         /\ Layout(m, B1, sz1, U) /\ b \in B1
         /\ b + sz1[b] = HeapSize \/ b + sz1[b] \in U
         /\ \A x \in B1 : x \notin U /\ x # b /\ x + sz1[x] # HeapSize => x + sz1[x] \in U \cup {b}
         /\ \A c \in U : sz1[c] = sz[c]
  BY <1>5
<1>7. /\ \A c \in B1 : /\ c \in Words /\ c \in Int /\ sz1[c] \in Int /\ sz1[c] >= 8
      /\ \A c \in B1 : c >= 0 /\ c < HeapSize
      /\ \A c, d \in B1 : c < d \/ d < c \/ c = d
      /\ \A c, d \in B1 : c < d => c + sz1[c] <= d
      /\ U \subseteq B1
  <2>1. Tiles(B1, sz1) /\ U \subseteq B1
    BY <1>6 DEF Layout
  <2> QED  BY <2>1, BlockWords, SizeFacts
<1>8. CASE joins
  <2>1. b # 0
    BY <1>8 DEF joins, is_first_block
  <2>2. PICK a \in B1 : a + sz1[a] = b /\ a < b /\ get_previous_block(m, b) = a
    BY <1>6, <2>1, BlockBefore
  <2>3. a \notin U /\ ~block_is_in_use(m, a) /\ ~block_is_in_use(m, b) /\ b \notin U
    BY <1>6, <1>8, <2>2, Reads DEF joins, U
  <2>4. /\ get_block_size(m, a) = sz1[a] /\ get_next_block(m, a) = b
        /\ get_block_size(m, b) = sz1[b] /\ ~is_last_block(m, a)
    BY <1>6, <1>7, <2>2, Reads, SizeFacts
  <2> DEFINE B2 == B1 \ {b}
             sz2 == [x \in B2 |-> IF x = a THEN sz1[a] + sz1[b] ELSE sz1[x]]
  <2>5. mem' = set_block_header(m, a, sz1[a] + sz1[b], 0)
    BY <1>2, <1>8, <2>2, <2>3, <2>4 DEF coalesce
  <2>6. Layout(mem', B2, sz2, U)
    BY <1>6, <2>2, <2>3, <2>5, JoinNext
  <2>7. Joined(B2, sz2, U)
    <3> SUFFICES ASSUME NEW x \in B2, x \notin U, x + sz2[x] # HeapSize
                 PROVE  x + sz2[x] \in U
      BY DEF Joined
    <3>1. CASE x = a
      <4>1. x + sz2[x] = b + sz1[b]
        BY <1>6, <1>7, <2>2, <3>1
      <4> QED  BY <1>6, <4>1
    <3>2. CASE x # a
      <4>1. x \in B1 /\ x # b /\ sz2[x] = sz1[x]
        BY <3>2
      <4>2. x + sz1[x] # b
        BY <1>6, <1>7, <2>2, <3>2, <4>1
      <4> QED  BY <1>6, <4>1, <4>2
    <3> QED  BY <3>1, <3>2
  <2>8. \A c \in U : sz2[c] = sz[c]
    BY <1>6, <1>7, <2>3
  <2> HIDE DEF B2, sz2
  <2> QED  BY <1>1, <1>2, <2>6, <2>7, <2>8 DEF U
<1>9. CASE ~joins
  <2>1. mem' = m
    BY <1>2, <1>9
  <2>2. Joined(B1, sz1, U)
    <3> SUFFICES ASSUME NEW x \in B1, x \notin U, x + sz1[x] # HeapSize
                 PROVE  x + sz1[x] \in U
      BY DEF Joined
    <3>1. CASE x = b
      BY <1>6, <3>1
    <3>2. CASE x # b
      <4>1. CASE b = 0
        BY <1>6, <1>7, <3>2, <4>1
      <4>2. CASE b # 0
        <5>1. PICK a \in B1 : a + sz1[a] = b /\ a < b /\ get_previous_block(m, b) = a
          BY <1>6, <4>2, BlockBefore
        <5>2. is_within_heap_range(a)
          BY <1>7, <5>1, SizeFacts DEF is_within_heap_range
        <5>3. a \in U
          BY <1>6, <1>9, <4>2, <5>1, <5>2, Reads DEF joins, is_first_block
        <5>4. x + sz1[x] # b
          BY <1>6, <1>7, <5>1, <5>3
        <5> QED  BY <1>6, <3>2, <5>4
      <4> QED  BY <4>1, <4>2
    <3> QED  BY <3>1, <3>2
  <2> QED  BY <1>1, <1>2, <1>6, <2>1, <2>2 DEF U
<1> QED  BY <1>8, <1>9

-----------------------------------------------------------------------------
(* The invariant.                                                          *)

\* Where the caller's areas are.
LEMMA AreasInBlocks ==
    ASSUME NEW B, NEW sz, Layout(mem, B, sz, InUse), Areas, Fits(sz)
    PROVE  \A p \in DOMAIN live :
              /\ p - 4 \in B /\ p - 4 \in Int /\ sz[p - 4] \in Int
              /\ p \in Nat /\ live[p] \in Nat /\ p + live[p] <= ((p - 4) + sz[p - 4]) - 4
<1> SUFFICES ASSUME NEW p \in DOMAIN live
             PROVE  /\ p - 4 \in B /\ p - 4 \in Int /\ sz[p - 4] \in Int
                    /\ p \in Nat /\ live[p] \in Nat /\ p + live[p] <= ((p - 4) + sz[p - 4]) - 4
  OBVIOUS
<1>1. p - 4 \in B
  BY DEF Layout, InUse
<1>2. p - 4 \in Int /\ sz[p - 4] \in Int
  BY <1>1, BlockWords DEF Layout
<1>3. p \in Nat /\ live[p] \in Nat /\ live[p] + 8 <= sz[p - 4]
  BY RequestAssumption DEF Areas, Fits
<1> QED  BY <1>1, <1>2, <1>3

LEMMA InitInv == Init => IInv
<1> SUFFICES ASSUME Init  PROVE IInv
  OBVIOUS
<1> DEFINE z == [a \in Words |-> 0]
           sz == [b \in {0} |-> HeapSize]
<1>1. live = <<>> /\ DOMAIN live = {} /\ InUse = {}
  BY DEF Init, InUse
<1>2. Areas /\ Fits(sz)
  BY <1>1 DEF Areas, Fits
<1>3. 0 \in Words /\ HeapSize \in Nat /\ HeapSize >= 12 /\ HeapSize % 4 = 0 /\ HeapSize - 4 \in Words
  <2>1. (HeapSize - 4) % 4 = 0 /\ 0 % 4 = 0
    BY SizeFacts, Multiples
  <2> QED  BY <2>1, SizeFacts
<1>4. /\ mem \in Memory
      /\ mem[0] = HeapSize /\ mem[HeapSize - 4] = HeapSize
  <2>1. mem = [z EXCEPT ![0] = HeapSize, ![HeapSize - 4] = HeapSize]
    <3>1. HeapSize + 0 = HeapSize /\ 0 + HeapSize - 4 = HeapSize - 4
      BY <1>3
    <3> QED  BY <3>1 DEF Init, set_block_header, HEADER_SIZE
  <2>2. z \in Memory
    BY DEF Memory
  <2> HIDE DEF z
  <2> QED  BY <1>3, <2>1, <2>2 DEF Memory
<1>5. Tiles({0}, sz)
  BY <1>3 DEF Tiles
<1>6. Written(mem, {0}, sz, {})
  <2>1. (0 + sz[0]) - 4 = HeapSize - 4 /\ Word(0, sz, {}) = HeapSize
    BY <1>3 DEF Word
  <2> QED  BY <1>4, <2>1 DEF Written
<1>7. Joined({0}, sz, {})
  BY <1>3 DEF Joined
<1>8. Layout(mem, {0}, sz, {})
  BY <1>4, <1>5, <1>6 DEF Layout
<1> QED  BY <1>1, <1>2, <1>7, <1>8 DEF IInv

LEMMA MallocInv ==
    ASSUME IInv, NEW n \in Requests, mymalloc(n)
    PROVE  IInv' /\ H!Malloc(n)
<1>1. PICK B, sz : Layout(mem, B, sz, InUse) /\ Joined(B, sz, InUse) /\ Fits(sz)
  BY DEF IInv
<1>2. Areas /\ n \in Nat
  BY RequestAssumption DEF IInv
<1> PICK b \in B \ InUse : \E B2, sz2 : Takes(b, n, sz, B2, sz2)
  BY <1>1, <1>2, MallocLayout
<1> PICK B2, sz2 : Takes(b, n, sz, B2, sz2)
  OBVIOUS
<1>3. /\ live' = [q \in DOMAIN live \cup {b + 4} |-> IF q = b + 4 THEN n ELSE live[q]]
      /\ Layout(mem', B2, sz2, InUse \cup {b})
      /\ Joined(B2, sz2, InUse \cup {b})
      /\ n + 8 <= sz2[b] /\ sz2[b] <= sz[b]
      /\ \A c \in InUse : sz2[c] = sz[c]
  BY DEF Takes
<1>4. /\ b \in Int /\ b >= 0 /\ b % 4 = 0 /\ sz[b] \in Int /\ b + sz[b] <= HeapSize
      /\ \A c, d \in B : c < d \/ d < c \/ c = d
      /\ \A c, d \in B : c < d => c + sz[c] <= d
  BY <1>1, BlockWords, SizeFacts DEF Layout
<1>5. sz2[b] \in Int
  BY <1>3 DEF Layout, Tiles
<1>6. \A p \in DOMAIN live :
         /\ p - 4 \in B /\ p - 4 \in Int /\ sz[p - 4] \in Int
         /\ p \in Nat /\ live[p] \in Nat /\ p + live[p] <= ((p - 4) + sz[p - 4]) - 4
  BY <1>1, <1>2, AreasInBlocks
<1>7. b + 4 \notin DOMAIN live /\ \A p \in DOMAIN live : p - 4 \in InUse /\ p - 4 # b
  <2>1. \A p \in DOMAIN live : p - 4 \in InUse
    BY DEF InUse
  <2>2. (b + 4) - 4 = b
    BY <1>4
  <2> QED  BY <2>1, <2>2
<1>8. /\ DOMAIN live' = DOMAIN live \cup {b + 4} /\ live'[b + 4] = n
      /\ \A p \in DOMAIN live : live'[p] = live[p]
  BY <1>3, <1>7
<1>9. InUse' = InUse \cup {b}
  <2>1. (b + 4) - 4 = b
    BY <1>4
  <2> QED  BY <1>8, <2>1 DEF InUse
<1>10. Areas'
  <2>1. live' = [p \in DOMAIN live' |-> live'[p]]
    BY <1>3
  <2>2. ASSUME NEW p \in DOMAIN live'  PROVE p \in Nat /\ live'[p] \in Requests
    BY <1>2, <1>4, <1>8 DEF Areas
  <2> QED  BY <2>1, <2>2 DEF Areas
<1>11. Fits(sz2)'
  <2> SUFFICES ASSUME NEW p \in DOMAIN live'  PROVE live'[p] + 8 <= sz2[p - 4]
    BY DEF Fits
  <2>1. CASE p = b + 4
    <3>1. p - 4 = b
      BY <1>4, <2>1
    <3> QED  BY <1>3, <1>8, <2>1, <3>1
  <2>2. CASE p \in DOMAIN live
    BY <1>1, <1>3, <1>7, <1>8, <2>2 DEF Fits
  <2> QED  BY <1>8, <2>1, <2>2
<1>12. IInv'
  BY <1>3, <1>9, <1>10, <1>11 DEF IInv
<1>13. H!Malloc(n)
  <2> DEFINE p == b + 4
  <2>1. p \in 0..(HeapSize - n) /\ p % HEADER_SIZE = 0
    <3>1. HeapSize - n \in Int /\ p <= HeapSize - n /\ p >= 0 /\ p \in Int
      BY <1>2, <1>3, <1>4, <1>5, SizeFacts
    <3>2. p % 4 = 0
      BY <1>4, Multiples
    <3> QED  BY <3>1, <3>2, SizeFacts
  <2>2. ASSUME NEW q \in DOMAIN live
        PROVE  H!Area(p, n) \cap H!Area(q, live[q]) = {}
    <3>1. b < q - 4 \/ q - 4 < b
      BY <1>4, <1>6, <1>7
    <3>2. b + sz[b] <= q - 4 \/ (q - 4) + sz[q - 4] <= b
      BY <1>4, <1>6, <3>1
    <3>3. p + n <= q \/ q + live[q] <= p
      BY <1>2, <1>3, <1>4, <1>5, <1>6, <3>2
    <3> QED  BY <1>2, <1>4, <1>6, <3>3 DEF H!Area
  <2> QED  BY <1>3, <1>7, <2>1, <2>2 DEF H!Malloc
<1> QED  BY <1>12, <1>13

LEMMA FreeInv ==
    ASSUME IInv, NEW p \in DOMAIN live, myfree(p)
    PROVE  IInv' /\ H!Free(p)
<1>1. PICK B, sz : Layout(mem, B, sz, InUse) /\ Joined(B, sz, InUse) /\ Fits(sz)
  BY DEF IInv
<1>2. Areas /\ p \in Nat /\ \A q \in DOMAIN live : q \in Nat
  BY DEF IInv, Areas
<1>3. PICK B2, sz2 :
         /\ live' = [q \in DOMAIN live \ {p} |-> live[q]]
         /\ Layout(mem', B2, sz2, InUse \ {p - 4})
         /\ Joined(B2, sz2, InUse \ {p - 4})
         /\ \A c \in InUse \ {p - 4} : sz2[c] = sz[c]
  BY <1>1, <1>2, FreeLayout
<1>4. /\ DOMAIN live' = DOMAIN live \ {p}
      /\ \A q \in DOMAIN live' : live'[q] = live[q]
  BY <1>3
<1>5. \A q \in DOMAIN live : q - 4 \in InUse /\ (q # p => q - 4 # p - 4)
  BY <1>2 DEF InUse
<1>6. InUse' = InUse \ {p - 4}
  BY <1>4, <1>5 DEF InUse
<1>7. Areas'
  BY <1>2, <1>3, <1>4 DEF Areas
<1>8. Fits(sz2)'
  BY <1>1, <1>3, <1>4, <1>5 DEF Fits
<1>9. IInv'
  BY <1>3, <1>6, <1>7, <1>8 DEF IInv
<1> QED  BY <1>3, <1>9 DEF H!Free

LEMMA StutterInv == ASSUME IInv, UNCHANGED vars  PROVE IInv'
<1>1. mem' = mem /\ live' = live /\ InUse' = InUse
  BY DEF vars, InUse
<1>2. Areas'
  BY <1>1 DEF IInv, Areas
<1>3. PICK B, sz : Layout(mem, B, sz, InUse) /\ Joined(B, sz, InUse) /\ Fits(sz)
  BY DEF IInv
<1>4. Fits(sz)'
  BY <1>1, <1>3 DEF Fits
<1> QED  BY <1>1, <1>2, <1>3, <1>4 DEF IInv

\* Whatever the sizes asked for and the order of the calls, there is a layout
\* that the words of the heap spell out, its blocks in use are the callers'.
THEOREM LayoutKept == Spec => []IInv
<1>1. ASSUME IInv, [Next]_vars  PROVE IInv'
  BY <1>1, MallocInv, FreeInv, StutterInv DEF Next
<1> QED  BY InitInv, <1>1, PTL DEF Spec

-----------------------------------------------------------------------------
(* What follows from it.                                                   *)

\* The words of the heap are ints, and every pointer given out is a word of it.
THEOREM Typing == Spec => []TypeOK
<1>1. ASSUME IInv  PROVE TypeOK
  <2>1. PICK B, sz : Layout(mem, B, sz, InUse) /\ Joined(B, sz, InUse) /\ Fits(sz)
    BY <1>1 DEF IInv
  <2>2. ASSUME NEW p \in DOMAIN live  PROVE p \in Words /\ live[p] \in Requests
    <3>1. /\ p - 4 \in B /\ p - 4 \in Int /\ sz[p - 4] \in Int
          /\ p \in Nat /\ live[p] \in Nat /\ p + live[p] <= ((p - 4) + sz[p - 4]) - 4
      BY <1>1, <2>1, AreasInBlocks DEF IInv
    <3>2. (p - 4) % 4 = 0 /\ (p - 4) + sz[p - 4] <= HeapSize
      BY <2>1, <3>1, BlockWords, SizeFacts DEF Layout
    <3>3. p % 4 = 0 /\ p < HeapSize
      BY <3>1, <3>2, SizeFacts
    <3> QED  BY <1>1, <3>1, <3>3, SizeFacts DEF IInv, Areas
  <2> QED  BY <2>1, <2>2 DEF TypeOK, Layout, Memory
<1> QED  BY LayoutKept, <1>1, PTL

\* For every heap and every request, the walk of mymalloc over the words of the
\* heap comes to the end of it, exactly the callers' areas are in use, and no two
\* free blocks are neighbours.
THEOREM TilingKept == Spec => []BlocksTileTheHeap
<1>1. ASSUME IInv  PROVE BlocksTileTheHeap
  <2>1. PICK B, sz : Layout(mem, B, sz, InUse) /\ Joined(B, sz, InUse) /\ Fits(sz)
    BY <1>1 DEF IInv
  <2>2. /\ BlocksFrom(mem) = B
        /\ \A b \in B : /\ get_block_size(mem, b) = sz[b]
                        /\ get_next_block(mem, b) = b + sz[b]
                        /\ block_is_in_use(mem, b) <=> b \in InUse
                        /\ is_last_block(mem, b) <=> b + sz[b] = HeapSize
                        /\ mem[(b + sz[b]) - HEADER_SIZE] = mem[b]
    BY <2>1, ReadsAll
  <2>3. \A b \in B : b \in Int /\ sz[b] >= 8 /\ b + sz[b] \in B \cup {HeapSize}
    <3>1. Tiles(B, sz)
      BY <2>1 DEF Layout
    <3>2. \A b \in B : b \in Int /\ sz[b] >= 8
      BY <3>1, BlockWords
    <3> QED  BY <3>1, <3>2 DEF Tiles
  <2>4. InUse \subseteq B
    BY <2>1 DEF Layout
  <2>5. \A p \in DOMAIN live : p \in Nat /\ p - 4 \in InUse
    BY <1>1 DEF IInv, Areas, InUse
  <2>6. ASSUME NEW b \in B  PROVE b \in InUse <=> b + 4 \in DOMAIN live
    <3>1. b \in Int /\ (b + 4) - 4 = b
      BY <2>3
    <3>2. \A p \in DOMAIN live : p - 4 = b => p = b + 4
      BY <2>5, <3>1
    <3> QED  BY <3>1, <3>2 DEF InUse
  <2>7. HEADER_SIZE = 4
    BY SizeFacts
  <2>8. ASSUME NEW b \in B
        PROVE  /\ get_block_size(mem, b) >= 2 * HEADER_SIZE
               /\ get_next_block(mem, b) \in B \cup {HeapSize}
               /\ mem[get_next_block(mem, b) - HEADER_SIZE] = mem[b]
               /\ block_is_in_use(mem, b) <=> b + HEADER_SIZE \in DOMAIN live
               /\ ~block_is_in_use(mem, b) /\ ~is_last_block(mem, b)
                     => block_is_in_use(mem, get_next_block(mem, b))
    <3>1. ~block_is_in_use(mem, b) /\ ~is_last_block(mem, b)
             => block_is_in_use(mem, get_next_block(mem, b))
      <4>1. b \notin InUse /\ b + sz[b] # HeapSize => b + sz[b] \in InUse
        BY <2>1 DEF Joined
      <4> QED  BY <2>2, <2>4, <4>1
    <3>2. get_block_size(mem, b) >= 2 * HEADER_SIZE
      BY <2>2, <2>3, <2>7
    <3>3. get_next_block(mem, b) \in B \cup {HeapSize}
      BY <2>2, <2>3
    <3>4. mem[get_next_block(mem, b) - HEADER_SIZE] = mem[b]
      BY <2>2
    <3>5. block_is_in_use(mem, b) <=> b + HEADER_SIZE \in DOMAIN live
      BY <2>2, <2>6, <2>7
    <3> QED  BY <3>1, <3>2, <3>3, <3>4, <3>5
  <2>9. \A p \in DOMAIN live : p - HEADER_SIZE \in B
    BY <2>4, <2>5, <2>7
  <2> QED  BY <2>2, <2>8, <2>9 DEF BlocksTileTheHeap
<1> QED  BY LayoutKept, <1>1, PTL

\* For every heap and every request, the callers get areas that lie in the heap,
\* aligned, that overlap no other area, and nothing else changes them.
THEOREM HeapImplemented == Spec => ImplementsHeap
<1>1. Init => H!HeapInit
  BY DEF Init, H!HeapInit
<1>2. ASSUME IInv, [Next]_vars  PROVE [H!HeapNext]_live
  BY <1>2, MallocInv, FreeInv DEF Next, H!HeapNext, vars
<1> QED  BY LayoutKept, <1>1, <1>2, PTL DEF Spec, ImplementsHeap, H!HeapSpec
=============================================================================
