----------------------------- MODULE GrowList ------------------------------
(***************************************************************************)
(* a8/list.c: a list in an array that grows, with map, fold and filter,    *)
(* and the program a8/trunc.c made of them.  malloc and realloc give memory *)
(* with anything in it (Junk), and what lies behind it may be anything too. *)
(***************************************************************************)
EXTENDS Integers, Sequences, SequencesExt

CONSTANTS
    INITIAL_SIZE, GROWTH_FACTOR,
    Items,              \* the arguments of trunc
    MaxLen              \* bound on what the client appends

Junk == [kind |-> "junk"]
NULL == [kind |-> "NULL"]

VARIABLES
    list,               \* [data, len, size], data from 0
    wanted              \* the sequence that the client put together

vars == <<list, wanted>>

list_create == [data |-> [k \in 0..(INITIAL_SIZE - 1) |-> Junk], len |-> 0, size |-> INITIAL_SIZE]

expand_list(l) ==
    LET size == l.size * GROWTH_FACTOR
    IN  [l EXCEPT !.size = size, !.data = [k \in 0..(size - 1) |-> IF k < l.size THEN l.data[k] ELSE Junk]]

Room(l) == IF l.len = l.size THEN expand_list(l) ELSE l

list_append(l, e) == LET r == Room(l) IN [r EXCEPT !.data[r.len] = e, !.len = @ + 1]
list_append_array(l, es) ==
    LET after[k \in 0..Len(es)] == IF k = 0 THEN l ELSE list_append(after[k - 1], es[k])
    IN  after[Len(es)]

\* Variant: from the front, each element over the next before that one moved.
list_insert_forward(l, pos, e) ==
    LET r == Room(l)
        up[i \in pos..r.len] == IF i = pos THEN r.data ELSE [up[i - 1] EXCEPT ![i] = up[i - 1][i - 1]]
    IN  [r EXCEPT !.data = [up[r.len] EXCEPT ![pos] = e], !.len = @ + 1]

\* The loops of list_insert and list_remove: down[i] is the data when the one has
\* come down to i, and up[i] when the other has come up to it.
list_insert(l, pos, e) ==
    LET r == Room(l)
        down[i \in pos..r.len] == IF i = r.len THEN r.data ELSE [down[i + 1] EXCEPT ![i + 1] = down[i + 1][i]]
    IN  [r EXCEPT !.data = [down[pos] EXCEPT ![pos] = e], !.len = @ + 1]

list_remove(l, pos) ==
    LET up[i \in pos..(l.len - 1)] == IF i = pos THEN l.data ELSE [up[i - 1] EXCEPT ![i - 1] = up[i - 1][i]]
    IN  [l EXCEPT !.data = up[l.len - 1], !.len = @ - 1]

list_get(l, pos) == l.data[pos]
list_index(l, e) ==
    LET at == {i \in 0..(l.len - 1) : l.data[i] = e}
    IN  IF at = {} THEN -1 ELSE CHOOSE i \in at : \A j \in at : i <= j

\* What may be found in a word that nobody wrote: NULL, the address of a block
\* that is somebody else's, or a number at which free or the first write ends
\* the program.
Words == {"NULL", "block", "no address"}

\* list_map1 looks into the list that it makes, behind its end and, when that is
\* full, behind its memory (found), and takes what is not NULL there for a block
\* of its own: f writes to it and free gives it back.  The same befalls an
\* element that the list had before.
list_map1(f, out_list, in, found) ==
    LET Turn(s, i) ==
            LET out == IF i < s.list.len THEN "block" ELSE found[i] IN
            IF s.memory = "dead" THEN s
            ELSE IF out = "no address" THEN [s EXCEPT !.memory = "dead"]
            ELSE [list |-> list_append(s.list, f[list_get(in, i)]),
                  memory |-> IF out = "NULL" THEN s.memory ELSE "damaged"]
    IN  FoldLeft(Turn, [list |-> out_list, memory |-> "sound"], [k \in 1..in.len |-> k - 1])
list_map2(f, in0, in1) ==
    LET outlen == IF in0.len < in1.len THEN in0.len ELSE in1.len
    IN  FoldLeft(LAMBDA out, i : list_append(out, f[list_get(in0, i), list_get(in1, i)]),
                 list_create, [k \in 1..outlen |-> k - 1])
list_foldl(f, out, in) ==
    FoldLeft(LAMBDA acc, i : f[acc, list_get(in, i)], out, [k \in 1..in.len |-> k - 1])
list_filter(f, in) ==
    FoldLeft(LAMBDA out, i : IF f[list_get(in, i)] THEN list_append(out, list_get(in, i)) ELSE out,
             list_create, [k \in 1..in.len |-> k - 1])

-----------------------------------------------------------------------------
(* trunc.c.  An argument is a number n >= 0 or a word of so many letters.   *)

Ints == {-1, 0} \cup {arg.n : arg \in Items}

parse_int[arg \in Items] == IF arg.kind = "number" THEN arg.n ELSE -1
to_null[arg \in Items, i \in Ints] == IF i >= 0 THEN NULL ELSE arg
positive[i \in Ints] == i >= 0
is_null[arg \in Items \cup {NULL}] == arg # NULL                  \* the name is the source's
truncate[word \in Items, i \in Ints] == IF word.n <= i THEN word ELSE [word EXCEPT !.n = i]
max[x \in Ints, y \in Ints] == IF x > y THEN x ELSE y

trunc(arg_list, found) ==
    LET mapped == list_map1(parse_int, list_create, arg_list, found)
        l0 == mapped.list
        l1 == list_map2(to_null, arg_list, l0)
        l2 == list_filter(positive, l0)
        l3 == list_filter(is_null, l1)
    IN  [words |-> list_map2(truncate, l3, l2), largest |-> list_foldl(max, 0, l2), memory |-> mapped.memory]

-----------------------------------------------------------------------------
Init == list = list_create /\ wanted = <<>>

\* Elements of the client, after each other, and taken out again.
Append1(e) == list' = list_append(list, e) /\ wanted' = Append(wanted, e)
AppendArray(es) == list' = list_append_array(list, es) /\ wanted' = wanted \o es
PutIn(pos, e) == list' = list_insert(list, pos, e) /\ wanted' = InsertAt(wanted, pos + 1, e)
TakeOut(pos) == list' = list_remove(list, pos) /\ wanted' = RemoveAt(wanted, pos + 1)

Next ==
    \/ /\ list.len < MaxLen
       /\ \E e \in Items : Append1(e) \/ \E pos \in 0..(list.len - 1) : PutIn(pos, e)
    \/ list.len + 2 <= MaxLen /\ \E e, f \in Items : AppendArray(<<e, f>>)
    \/ \E pos \in 0..(list.len - 1) : TakeOut(pos)

Contents(l) == [k \in 1..l.len |-> l.data[k - 1]]

\* The list is the sequence that the client put together, through every growth;
\* what it is asked for it finds at its first place.
ListIsSequence ==
    /\ list.len <= list.size /\ DOMAIN list.data = 0..(list.size - 1)
    /\ Contents(list) = wanted
    /\ \A e \in Items : LET i == list_index(list, e) IN
          IF \E k \in DOMAIN wanted : wanted[k] = e
          THEN i + 1 \in DOMAIN wanted /\ wanted[i + 1] = e /\ \A k \in 1..i : wanted[k] # e
          ELSE i = -1

\* What trunc.c says of itself: the words, in their order, cut to the numbers, in
\* theirs, and the largest number.
Truncated(result) ==
    LET words == SelectSeq(wanted, LAMBDA a : a.kind = "word")
        numbers == SelectSeq(wanted, LAMBDA a : a.kind = "number")
        shorter == IF Len(words) < Len(numbers) THEN Len(words) ELSE Len(numbers)
    IN
    /\ Contents(result.words) =
          [k \in 1..shorter |-> IF words[k].n <= numbers[k].n THEN words[k] ELSE [words[k] EXCEPT !.n = numbers[k].n]]
    /\ \A k \in DOMAIN numbers : numbers[k].n <= result.largest
    /\ result.largest \in {0} \cup {numbers[k].n : k \in DOMAIN numbers}

\* All that list_map1 may find when it goes through the arguments.
Findings == [0..(list.len - 1) -> Words]

\* The list holds what the client put into it, and trunc cuts the words to the
\* numbers and leaves everybody's memory alone exactly when list_map1 finds
\* nothing but NULL in memory that nobody wrote: out is not the element of
\* out_list that list.c:116 says it is.
ListHoldsWanted ==
    /\ ListIsSequence
    /\ \A found \in Findings :
          LET result == trunc(list, found) IN
          (\A i \in DOMAIN found : found[i] = "NULL") <=> (result.memory = "sound" /\ Truncated(result))
=============================================================================
