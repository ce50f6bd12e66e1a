----------------------------- MODULE RefCounts -----------------------------
(***************************************************************************)
(* Elements with reference counts, held by their creator, by a doubly      *)
(* linked list and by a binary tree: a5/5.6 (the list takes over the        *)
(* reference of the creator, and an element has a second count for its     *)
(* string) and a7/q3 (the list and the tree keep references of their own,  *)
(* and a finalizer frees the string).  A client calls the operations in     *)
(* any order, on elements it has a reference to or finds in the list.      *)
(***************************************************************************)
EXTENDS Integers, Sequences, FiniteSets, SequencesExt, FiniteSetsExt, Functions

CONSTANTS
    MaxElements, MaxNodes, MaxInTree, MaxReferences,    \* bounds on what the client makes
    Values      \* small numbers (no difference overflows); strings by what strcmp tells apart

Null == 0
Elements == 1..MaxElements
Nodes == 1..MaxNodes

VARIABLES
    version,            \* "a5/5.6" or "a7/q3"
    element,            \* the elements made so far: kind and value
    ref_count,          \* the count in front of each (rc_malloc)
    refcount,           \* e->refcount of a5/5.6
    allocated,          \* the elements that are not freed
    strings,            \* the elements whose string is not freed
    held,               \* the references of the client
    head, tail, elem, prev, next,       \* struct list and its nodes
    tree,               \* the element at each path from the root, a sequence of turns
    gone                \* which of the list and the tree is deleted

list_vars == <<head, tail, elem, prev, next>>
count_vars == <<ref_count, refcount, allocated, strings>>
vars == <<version, element, count_vars, held, list_vars, tree, gone>>

Init ==
    /\ version \in {"a5/5.6", "a7/q3"}
    /\ element = <<>>
    /\ ref_count = [e \in Elements |-> 0] /\ refcount = [e \in Elements |-> 0]
    /\ allocated = {} /\ strings = {} /\ held = [e \in Elements |-> 0]
    /\ head = Null /\ tail = Null
    /\ elem = [n \in Nodes |-> Null] /\ prev = [n \in Nodes |-> Null] /\ next = [n \in Nodes |-> Null]
    /\ tree = <<>> /\ gone = {}

-----------------------------------------------------------------------------
(* The counts.                                                             *)

rc_keep_ref(e) == ref_count' = [ref_count EXCEPT ![e] = @ + 1]

el_keep_ref(e) ==
    /\ rc_keep_ref(e)
    /\ refcount' = IF version = "a5/5.6" THEN [refcount EXCEPT ![e] = @ + 1] ELSE refcount
    /\ UNCHANGED <<allocated, strings>>

\* rc_free_ref of a7/q3, once for every member of a sequence of elements.
Drops(es, e) == Cardinality({k \in DOMAIN es : es[k] = e})
rc_free_refs(es) ==
    /\ ref_count' = [e \in Elements |-> ref_count[e] - Drops(es, e)]
    /\ allocated' = {e \in allocated : Drops(es, e) = 0 \/ ref_count'[e] # 0}

\* el_free_ref of a5/5.6: its own count decides about the string.
el_free_refs(es) ==
    /\ rc_free_refs(es)
    /\ IF version = "a5/5.6"
       THEN /\ refcount' = [e \in Elements |-> refcount[e] - Drops(es, e)]
            /\ strings' = {e \in strings : Drops(es, e) = 0 \/ refcount'[e] # 0}
       ELSE /\ strings' = {e \in strings : e \in allocated'}
            /\ UNCHANGED refcount

element_new(kind, value) ==
    LET e == Len(element) + 1 IN
    /\ e \in Elements
    /\ kind = "int" => version = "a7/q3"        \* a5/5.6 has strings only
    /\ element' = Append(element, [kind |-> kind, value |-> value])
    /\ ref_count' = [ref_count EXCEPT ![e] = 1]
    /\ refcount' = IF version = "a5/5.6" THEN [refcount EXCEPT ![e] = 1] ELSE refcount
    /\ allocated' = allocated \cup {e}
    /\ strings' = strings \cup {e}
    /\ held' = [held EXCEPT ![e] = 1]
    /\ UNCHANGED <<version, list_vars, tree, gone>>

\* The client keeps one reference more, or gives one up.
Keep(e) ==
    /\ held[e] > 0
    /\ el_keep_ref(e)
    /\ held' = [held EXCEPT ![e] = @ + 1]
    /\ UNCHANGED <<version, element, list_vars, tree, gone>>

element_delete(e) ==
    /\ held[e] > 0
    /\ el_free_refs(<<e>>)
    /\ held' = [held EXCEPT ![e] = @ - 1]
    /\ UNCHANGED <<version, element, list_vars, tree, gone>>

-----------------------------------------------------------------------------
(* The list.                                                               *)

\* The nodes from head on, as list_get_head and list_node_get_next find them.
Listed ==
    LET after[k \in 0..MaxNodes] ==
            IF k = 0 THEN (IF head = Null THEN <<>> ELSE <<head>>)
            ELSE IF after[k - 1] = <<>> \/ next[Last(after[k - 1])] = Null THEN after[k - 1]
                 ELSE Append(after[k - 1], next[Last(after[k - 1])])
    IN  after[MaxNodes]
ListedElements == [k \in DOMAIN Listed |-> elem[Listed[k]]]

\* In a7/q3 the list has its own reference, in a5/5.6 it has the caller's.
list_add_element(e) ==
    LET n == Min(Nodes \ Range(Listed)) IN
    /\ "list" \notin gone /\ held[e] > 0 /\ Nodes \ Range(Listed) # {}
    /\ IF version = "a7/q3" THEN el_keep_ref(e) /\ UNCHANGED held
       ELSE held' = [held EXCEPT ![e] = @ - 1] /\ UNCHANGED count_vars
    /\ elem' = [elem EXCEPT ![n] = e]
    /\ next' = IF head = Null THEN [next EXCEPT ![n] = Null] ELSE [next EXCEPT ![n] = Null, ![tail] = n]
    /\ prev' = [prev EXCEPT ![n] = IF head = Null THEN Null ELSE tail]
    /\ head' = IF head = Null THEN n ELSE head
    /\ tail' = n
    /\ UNCHANGED <<version, element, tree, gone>>

Unlink(n) ==
    /\ head' = IF n = head THEN next[n] ELSE head
    /\ tail' = IF n = tail THEN prev[n] ELSE tail
    /\ next' = [m \in Nodes |-> IF m = n THEN Null ELSE IF n # head /\ m = prev[n] THEN next[n] ELSE next[m]]
    /\ prev' = [m \in Nodes |-> IF m = n THEN Null ELSE IF n # tail /\ m = next[n] THEN prev[n] ELSE prev[m]]

list_delete_element(n) ==
    /\ "list" \notin gone /\ n \in Range(Listed)
    /\ Unlink(n)
    /\ el_free_refs(<<elem[n]>>)
    /\ elem' = [elem EXCEPT ![n] = Null]
    /\ UNCHANGED <<version, element, held, tree, gone>>

list_delete ==
    /\ "list" \notin gone
    /\ el_free_refs(ListedElements)
    /\ head' = Null /\ tail' = Null
    /\ elem' = [n \in Nodes |-> Null] /\ prev' = [n \in Nodes |-> Null] /\ next' = [n \in Nodes |-> Null]
    /\ gone' = gone \cup {"list"}
    /\ UNCHANGED <<version, element, held, tree>>

-----------------------------------------------------------------------------
(* The tree.                                                               *)

\* Variant: an element that is equal goes to the right.
MayTurnStrict(e, f, turn) ==
    LET a == element[e] b == element[f] IN
    CASE a.kind = "str" /\ b.kind = "str" /\ version = "a7/q3" -> TRUE
      [] a.kind # b.kind -> turn = IF a.kind = "int" THEN "left" ELSE "right"
      [] OTHER -> turn = IF a.value < b.value THEN "left" ELSE "right"

\* Where an element e may go at a node that holds f: the strcmp of a5/5.6,
\* int_compare of a7/q3, and its str_compare, which puts numbers to the left
\* but compares the bytes of two string elements and not their strings.
MayTurn(e, f, turn) ==
    LET a == element[e] b == element[f] IN
    CASE a.kind = "str" /\ b.kind = "str" /\ version = "a7/q3" -> TRUE
      [] a.kind # b.kind -> turn = IF a.kind = "int" THEN "left" ELSE "right"
      [] OTHER -> turn = IF a.value <= b.value THEN "left" ELSE "right"

\* The free places that the descent of tree_insert_node_helper can come to.
Places(e) ==
    {p \in {<<>>} \cup {Append(q, t) : q \in DOMAIN tree, t \in {"left", "right"}} :
        /\ p \notin DOMAIN tree
        /\ \A k \in DOMAIN p : MayTurn(e, tree[SubSeq(p, 1, k - 1)], p[k])}

\* Variant: the tree does not keep a reference.
tree_insert_node_borrowed(e) ==
    /\ "tree" \notin gone /\ Cardinality(DOMAIN tree) < MaxInTree
    /\ held[e] > 0 \/ e \in Range(ListedElements)
    /\ UNCHANGED count_vars
    /\ \E p \in Places(e) : tree' = [q \in DOMAIN tree \cup {p} |-> IF q = p THEN e ELSE tree[q]]
    /\ UNCHANGED <<version, element, held, list_vars, gone>>

tree_insert_node(e) ==
    /\ "tree" \notin gone /\ Cardinality(DOMAIN tree) < MaxInTree
    /\ held[e] > 0 \/ e \in Range(ListedElements)
    /\ el_keep_ref(e)
    /\ \E p \in Places(e) : tree' = [q \in DOMAIN tree \cup {p} |-> IF q = p THEN e ELSE tree[q]]
    /\ UNCHANGED <<version, element, held, list_vars, gone>>

\* The children first; the order does not matter to the counts.
InTree == LET paths == SetToSeq(DOMAIN tree) IN [k \in DOMAIN paths |-> tree[paths[k]]]

tree_delete ==
    /\ "tree" \notin gone
    /\ el_free_refs(InTree)
    /\ tree' = <<>> /\ gone' = gone \cup {"tree"}
    /\ UNCHANGED <<version, element, held, list_vars>>

\* The bound on all references together.
Few == FoldFunction(+, 0, ref_count) < MaxReferences

Next ==
    \/ Few /\ \E kind \in {"int", "str"}, v \in Values : element_new(kind, v)
    \/ Few /\ \E e \in Elements : Keep(e) \/ list_add_element(e) \/ tree_insert_node(e)
    \/ \E e \in Elements : element_delete(e)
    \/ \E n \in Nodes : list_delete_element(n)
    \/ list_delete \/ tree_delete

-----------------------------------------------------------------------------
\* An element and its string are there as long as anyone refers to it and no
\* longer, whoever let go first, and its counts are the references there are.
CountsMatchReferences ==
    \A e \in DOMAIN element :
        LET references == held[e] + Drops(ListedElements, e) + Drops(InTree, e) IN
        /\ ref_count[e] = references
        /\ version = "a5/5.6" => refcount[e] = references
        /\ e \in allocated <=> references > 0
        /\ e \in strings <=> references > 0

\* What is left of a node is not larger, and what is right of it is larger, in
\* the order that element.h asks of compare; two strings are exempt in a7/q3.
TreeSorted ==
    \A p, q \in DOMAIN tree : Len(p) < Len(q) /\ SubSeq(q, 1, Len(p)) = p =>
        LET a == element[tree[q]] b == element[tree[p]] left == q[Len(p) + 1] = "left" IN
        IF a.kind = "str" /\ b.kind = "str" /\ version = "a7/q3" THEN TRUE
        ELSE IF a.kind # b.kind THEN left <=> a.kind = "int"
        ELSE left <=> a.value <= b.value
=============================================================================
