------------------------------- MODULE MCData -------------------------------
(***************************************************************************)
(* The sequential parts, for TLC: the heap, the simulators with all their  *)
(* programs, the reference counts, the growing list, the tree and the      *)
(* promises.  One of them runs; the variables of the others stay as they   *)
(* were.                                                                   *)
(***************************************************************************)
EXTENDS HeapImplicit, Sm213Programs

CONSTANTS
    MaxElements, MaxNodes, MaxInTree, MaxReferences, Values,      \* RefCounts
    INITIAL_SIZE, GROWTH_FACTOR, MaxLen,                    \* GrowList
    Numbers, MaxTree,                                       \* BinaryTree
    MaxPromises                                             \* Promises

ASSUME DataAssumption ==
    /\ MaxElements \in Nat /\ MaxNodes \in Nat /\ MaxPromises \in Nat
    /\ INITIAL_SIZE \in Nat \ {0} /\ GROWTH_FACTOR \in Nat \ {0, 1}

VARIABLES
    part,               \* the part that runs
    program, cpu,
    c_version, c_element, c_ref_count, c_refcount, c_allocated, c_strings, c_held,
    c_head, c_tail, c_elem, c_prev, c_next, c_tree, c_gone,
    l_list, l_wanted,
    t_value, t_parent, t_left, t_right,
    p_made, p_is_resolved, p_value, p_on_fulfilled, p_fulfilled_promise, p_expects

Sm == INSTANCE Sm213 WITH Programs <- AllPrograms

ASSUME ProgramsAssumption == \A p \in DOMAIN AllPrograms : AllPrograms[p].on \subseteq Sm!C \cup Sm!Java

Rc == INSTANCE RefCounts WITH
        version <- c_version, element <- c_element, ref_count <- c_ref_count,
        refcount <- c_refcount, allocated <- c_allocated, strings <- c_strings,
        held <- c_held, head <- c_head, tail <- c_tail, elem <- c_elem,
        prev <- c_prev, next <- c_next, tree <- c_tree, gone <- c_gone

\* Numbers and words, some of them not longer than a number that may meet them.
Arguments == [kind : {"number"}, n : {0, 2}] \cup [kind : {"word"}, n : {1, 3}]

Gl == INSTANCE GrowList WITH list <- l_list, wanted <- l_wanted, Items <- Arguments

Bt == INSTANCE BinaryTree WITH
        value <- t_value, parent <- t_parent, left <- t_left, right <- t_right

Pr == INSTANCE Promises WITH
        made <- p_made, is_resolved <- p_is_resolved, value <- p_value,
        on_fulfilled <- p_on_fulfilled, fulfilled_promise <- p_fulfilled_promise,
        expects <- p_expects

smvars == <<program, cpu>>
rcvars == <<c_version, c_element, c_ref_count, c_refcount, c_allocated, c_strings, c_held,
            c_head, c_tail, c_elem, c_prev, c_next, c_tree, c_gone>>
glvars == <<l_list, l_wanted>>
btvars == <<t_value, t_parent, t_left, t_right>>
prvars == <<p_made, p_is_resolved, p_value, p_on_fulfilled, p_fulfilled_promise, p_expects>>

Parts == {"heap", "simulators", "counts", "list", "tree", "promises"}

DataInit ==
    /\ part \in Parts
    /\ Init
    /\ IF part = "simulators" THEN Sm!Init ELSE program = <<>> /\ cpu = <<>>
    /\ Rc!Init /\ (part # "counts" => c_version = "a7/q3")
    /\ Gl!Init
    /\ Bt!Init
    /\ Pr!Init

\* The other parts do not move.
OthersStay(name) ==
    /\ UNCHANGED part
    /\ name # "heap" => UNCHANGED vars
    /\ name # "simulators" => UNCHANGED smvars
    /\ name # "counts" => UNCHANGED rcvars
    /\ name # "list" => UNCHANGED glvars
    /\ name # "tree" => UNCHANGED btvars
    /\ name # "promises" => UNCHANGED prvars

DataNext ==
    \/ part = "heap" /\ Next /\ OthersStay("heap")
    \/ part = "simulators" /\ Sm!Next /\ OthersStay("simulators")
    \/ part = "counts" /\ Rc!Next /\ OthersStay("counts")
    \/ part = "list" /\ Gl!Next /\ OthersStay("list")
    \/ part = "tree" /\ Bt!Next /\ OthersStay("tree")
    \/ part = "promises" /\ Pr!Next /\ OthersStay("promises")

DataSpec == DataInit /\ [][DataNext]_<<part, vars, smvars, rcvars, glvars, btvars, prvars>>

-----------------------------------------------------------------------------
\* The simulators agree after every instruction of every program.
SimulatorsAgree == part = "simulators" => Sm!SimulatorsAgree

\* Every program leaves what its C program computes, but for those that are
\* known not to.
AssemblyMatchesC == part = "simulators" => Sm!AssemblyMatchesC

\* refcount.c: the counts are the references, and decide what is allocated.
CountsMatchReferences == part = "counts" => Rc!CountsMatchReferences

\* tree.c of a5/5.6 and a7/q3, and BinaryTree: the trees are in order, and the
\* last is printed as the sort of bubble_sort_static.c sorts its values.
TreesSorted ==
    /\ part = "counts" => Rc!TreeSorted
    /\ part = "tree" => Bt!InOrderIsSorted

\* list.c and trunc.c: the list is the sequence its client put together, and the
\* map of trunc does no harm exactly when the memory it looks at holds NULL.
ListHoldsWanted == part = "list" => Gl!ListHoldsWanted

\* promise.c: a promise settles with the one it came from.
PromisesSettle == part = "promises" => Pr!PromisesSettle
=============================================================================
