---------------------------- MODULE HeapImplicit ----------------------------
(***************************************************************************)
(* a5/5.5/implicit.c: an allocator whose blocks carry their size and an    *)
(* in-use bit at both ends and nothing else; every operation finds the     *)
(* other blocks by walking over these words.  The caller writes all of the *)
(* area it got, and nothing besides.  Addresses are bytes from h->start,   *)
(* and the sizes asked for are far from the ends of int.                   *)
(***************************************************************************)
EXTENDS Integers, FiniteSets, FiniteSetsExt

CONSTANTS
    HeapSize,       \* h->size
    Requests        \* the sizes a caller asks for

HEADER_SIZE == 4

ASSUME SizeAssumption == HeapSize \in Nat /\ HeapSize % HEADER_SIZE = 0 /\ HeapSize >= 3 * HEADER_SIZE
ASSUME RequestAssumption == Requests \subseteq Nat

VARIABLES
    mem,            \* the words of the heap
    live            \* the areas the caller has: size asked for, by pointer

vars == <<mem, live>>

Words == {a \in 0..(HeapSize - 1) : a % HEADER_SIZE = 0}

\* What the test harness fills its areas with, 0xcccccccc as an int, cut down to
\* its last byte: a free block of negative size, were it read as a header.
Filled == -52

TypeOK == /\ mem \in [Words -> Int]
          /\ DOMAIN live \subseteq Words
          /\ \A p \in DOMAIN live : live[p] \in Requests

-----------------------------------------------------------------------------
(* The words of a block, in memory m.                                      *)

block_is_in_use(m, b) == m[b] % 2 = 1
get_block_size(m, b) == m[b] - (m[b] % HEADER_SIZE)
get_next_block(m, b) == b + get_block_size(m, b)
get_previous_block(m, b) == b - get_block_size(m, b - HEADER_SIZE)
is_first_block(b) == b = 0
is_last_block(m, b) == get_next_block(m, b) = HeapSize
is_within_heap_range(a) == a >= 0 /\ a < HeapSize

set_block_header(m, b, size, in_use) ==
    [m EXCEPT ![b] = size + in_use, ![b + size - HEADER_SIZE] = size + in_use]

\* heap_create
Init == /\ mem = set_block_header([a \in Words |-> 0], 0, HeapSize, 0)
        /\ live = <<>>

\* The blocks the loop of mymalloc comes to from a on.
BlocksFrom(m) ==
    LET from[a \in Words \cup {HeapSize}] ==
            IF ~is_within_heap_range(a) THEN {}
            ELSE {a} \cup (IF get_block_size(m, a) > 0 /\ get_next_block(m, a) <= HeapSize
                           THEN from[get_next_block(m, a)] ELSE {})
    IN  from[0]

coalesce(m, b) ==
    IF /\ ~is_last_block(m, b)
       /\ ~block_is_in_use(m, b)
       /\ ~block_is_in_use(m, get_next_block(m, b))
    THEN set_block_header(m, b, get_block_size(m, b) + get_block_size(m, get_next_block(m, b)), 0)
    ELSE m

get_size_to_allocate(user_size) ==
    ((user_size + HEADER_SIZE - 1) \div HEADER_SIZE) * HEADER_SIZE + 2 * HEADER_SIZE

split_and_mark_used(m, b, needed) ==
    IF get_block_size(m, b) - needed >= 3 * HEADER_SIZE
    THEN set_block_header(set_block_header(m, b + needed, get_block_size(m, b) - needed, 0), b, needed, 1)
    ELSE set_block_header(m, b, get_block_size(m, b), 1)

\* The caller fills n bytes from p on.
Fill(m, p, n) == [a \in Words |-> IF a + HEADER_SIZE > p /\ a < p + n THEN Filled ELSE m[a]]

-----------------------------------------------------------------------------
\* Variant: a block that holds the payload without its two words is taken.
mallocTight(n) ==
    LET needed == get_size_to_allocate(n)
        fits == {b \in BlocksFrom(mem) : ~block_is_in_use(mem, b) /\ get_block_size(mem, b) >= n}
        p == Min(fits) + HEADER_SIZE
    IN  /\ fits # {}
        /\ mem' = Fill(split_and_mark_used(mem, Min(fits), needed), p, n)
        /\ live' = [q \in DOMAIN live \cup {p} |-> IF q = p THEN n ELSE live[q]]

mymalloc(n) ==
    LET needed == get_size_to_allocate(n)
        fits == {b \in BlocksFrom(mem) : ~block_is_in_use(mem, b) /\ get_block_size(mem, b) >= needed}
        p == Min(fits) + HEADER_SIZE
    IN  /\ fits # {}    \* otherwise NULL, and nothing changes
        /\ mem' = Fill(split_and_mark_used(mem, Min(fits), needed), p, n)
        /\ live' = [q \in DOMAIN live \cup {p} |-> IF q = p THEN n ELSE live[q]]

\* Variant: the block is joined with the next one only.
myfreeForward(p) ==
    LET b == p - HEADER_SIZE
        m == set_block_header(mem, b, get_block_size(mem, b), 0)
    IN  /\ mem' = IF ~is_last_block(m, b) /\ ~block_is_in_use(m, get_next_block(m, b))
                  THEN coalesce(m, b) ELSE m
        /\ live' = [q \in DOMAIN live \ {p} |-> live[q]]

myfree(p) ==
    LET b == p - HEADER_SIZE
        freed == set_block_header(mem, b, get_block_size(mem, b), 0)
        next == get_next_block(freed, b)
        m == IF ~is_last_block(freed, b) /\ is_within_heap_range(next) /\ ~block_is_in_use(freed, next)
             THEN coalesce(freed, b) ELSE freed
        joins == /\ ~is_first_block(b)
                 /\ is_within_heap_range(get_previous_block(m, b))
                 /\ ~block_is_in_use(m, get_previous_block(m, b))
    IN  /\ mem' = IF joins THEN coalesce(m, get_previous_block(m, b)) ELSE m
        /\ live' = [q \in DOMAIN live \ {p} |-> live[q]]

Next == (\E n \in Requests : mymalloc(n)) \/ (\E p \in DOMAIN live : myfree(p))

Spec == Init /\ [][Next]_vars

-----------------------------------------------------------------------------
H == INSTANCE Heap

\* Every area lies in the heap and overlaps no other, whatever was freed and
\* joined before and whatever the callers wrote.
ImplementsHeap == H!HeapSpec

\* The walk over the blocks ends at the end of the heap, both words of every
\* block agree, and exactly the caller's areas are in use; no two free blocks
\* are neighbours, so that mymalloc fails only when no gap is large enough.
BlocksTileTheHeap ==
    LET blocks == BlocksFrom(mem) IN
    /\ \A b \in blocks :
          /\ get_block_size(mem, b) >= 2 * HEADER_SIZE
          /\ get_next_block(mem, b) \in blocks \cup {HeapSize}
          /\ mem[get_next_block(mem, b) - HEADER_SIZE] = mem[b]
          /\ block_is_in_use(mem, b) <=> b + HEADER_SIZE \in DOMAIN live
          /\ ~block_is_in_use(mem, b) /\ ~is_last_block(mem, b)
                => block_is_in_use(mem, get_next_block(mem, b))
    /\ \A p \in DOMAIN live : p - HEADER_SIZE \in blocks
=============================================================================
