-------------------------------- MODULE Heap --------------------------------
(***************************************************************************)
(* What mymalloc and myfree promise the caller: areas inside the heap that *)
(* do not overlap, aligned, and his until he frees them.                   *)
(***************************************************************************)
EXTENDS Naturals

CONSTANTS HeapSize, Requests, HEADER_SIZE

VARIABLE live   \* the size asked for, by pointer

Area(p, n) == p..(p + n - 1)

HeapInit == live = <<>>

Malloc(n) ==
    \E p \in 0..(HeapSize - n) :
        /\ p % HEADER_SIZE = 0
        /\ p \notin DOMAIN live
        /\ \A q \in DOMAIN live : Area(p, n) \cap Area(q, live[q]) = {}
        /\ live' = [q \in DOMAIN live \cup {p} |-> IF q = p THEN n ELSE live[q]]

Free(p) == live' = [q \in DOMAIN live \ {p} |-> live[q]]

HeapNext == (\E n \in Requests : Malloc(n)) \/ (\E p \in DOMAIN live : Free(p))

HeapSpec == HeapInit /\ [][HeapNext]_live
=============================================================================
