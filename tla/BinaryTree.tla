----------------------------- MODULE BinaryTree ----------------------------
(***************************************************************************)
(* a4/BinaryTreeCode: an ordered tree of integers with parent pointers,    *)
(* the same in BinaryTree.c and BinaryTree.java, and the exchange sort of  *)
(* a3/code.  The main programs put in one value after the other; the       *)
(* values here are those that the sort gets as well.                       *)
(***************************************************************************)
EXTENDS Integers, Sequences, SequencesExt

CONSTANTS Numbers, MaxTree      \* what the values are, and how many

null == 0

VARIABLES value, parent, left, right    \* of the nodes, numbered as created
vars == <<value, parent, left, right>>

root == 1
Init == value = <<>> /\ parent = <<>> /\ left = <<>> /\ right = <<>>

\* The node that insert hangs n below, from toNode on.
insert(toNode, v) ==
    LET from[t \in DOMAIN value] ==
            IF v <= value[t]
            THEN IF left[t] = null THEN <<t, "left">> ELSE from[left[t]]
            ELSE IF right[t] = null THEN <<t, "right">> ELSE from[right[t]]
    IN  from[toNode]

\* create, then insert from the root, unless the node is the root.
Add(v) ==
    LET n == Len(value) + 1
        place == IF n = 1 THEN <<null, "root">> ELSE insert(root, v)
        hang(child, side) == Append([m \in DOMAIN child |-> IF place = <<m, side>> THEN n ELSE child[m]], null)
    IN  /\ value' = Append(value, v)
        /\ parent' = Append(parent, place[1])
        /\ left' = hang(left, "left")
        /\ right' = hang(right, "right")

Next == Len(value) < MaxTree /\ \E v \in Numbers : Add(v)

printInOrder(node) ==
    LET printed[n \in DOMAIN value] ==
            (IF left[n] # null THEN printed[left[n]] ELSE <<>>) \o <<value[n]>>
            \o (IF right[n] # null THEN printed[right[n]] ELSE <<>>)
    IN  printed[node]

\* From the root to the node, with the turn to each.
printPath(node) ==
    LET turn(n) == IF parent[n] = null THEN "from root" ELSE IF left[parent[n]] = n THEN "left to" ELSE "right to"
        path[n \in DOMAIN value] ==
            (IF parent[n] # null THEN path[parent[n]] ELSE <<>>) \o << <<turn(n), value[n]>> >>
    IN  path[node]

\* Variant: the inner loop leaves the first element out.
sort_short(val, n) ==
    FoldLeft(LAMBDA w, i :
        FoldLeft(LAMBDA v, j : IF v[i] < v[j] THEN [v EXCEPT ![i] = v[j], ![j] = v[i]] ELSE v,
                 w, [k \in 1..(i - 2) |-> i - k]),
        val, [k \in 1..(n - 1) |-> n + 1 - k])

\* sort of bubble_sort_static.c: from the back, each place against those before.
sort(val, n) ==
    FoldLeft(LAMBDA w, i :
        FoldLeft(LAMBDA v, j : IF v[i] < v[j] THEN [v EXCEPT ![i] = v[j], ![j] = v[i]] ELSE v,
                 w, [k \in 1..(i - 1) |-> i - k]),
        val, [k \in 1..(n - 1) |-> n + 1 - k])

-----------------------------------------------------------------------------
\* The tree printed in order is what the sort makes of its values, and that is
\* in order; the path to a node starts at the root and turns at each node as
\* the order of the values says.
InOrderIsSorted ==
    value # <<>> =>
        /\ LET sorted == sort(value, Len(value)) IN
           /\ printInOrder(root) = sorted
           /\ \A k \in 1..(Len(sorted) - 1) : sorted[k] <= sorted[k + 1]
        /\ \A n \in DOMAIN value : LET path == printPath(n) IN
              /\ path[1] = <<"from root", value[root]>> /\ Last(path)[2] = value[n]
              /\ \A j, k \in DOMAIN path : j < k =>
                    (path[j + 1][1] = "left to" <=> path[k][2] <= path[j][2])
=============================================================================
