------------------------------ MODULE Promises -----------------------------
(***************************************************************************)
(* a9/tRead/promise.c, and the same in aRead: a promise is resolved with a *)
(* value, once; promise_then makes a promise for what a function makes of  *)
(* that value, now or later.  A promise has room for one such function.    *)
(***************************************************************************)
EXTENDS Integers, Sequences

CONSTANTS MaxPromises       \* bound on the promises made

Promise == 1..MaxPromises
NULL == 0

VARIABLES
    made,               \* the promises made: 1 to made
    is_resolved, value, on_fulfilled, fulfilled_promise,    \* struct promise
    expects             \* promise -> the promise and the function it came from

promise_vars == <<is_resolved, value, on_fulfilled, fulfilled_promise>>
vars == <<made, promise_vars, expects>>

\* A value is the functions it went through; a function is the number of the
\* promise it was given for.
Init ==
    /\ made = 0 /\ expects = <<>>
    /\ is_resolved = [p \in Promise |-> FALSE] /\ value = [p \in Promise |-> <<>>]
    /\ on_fulfilled = [p \in Promise |-> NULL] /\ fulfilled_promise = [p \in Promise |-> NULL]

Apply(f, v) == Append(v, f)

\* The promises that promise_resolve of p reaches, p first.
Chain(p) ==
    LET c[k \in 0..MaxPromises] ==
            IF k = 0 THEN <<p>>
            ELSE LET q == c[k - 1][Len(c[k - 1])] IN
                 IF on_fulfilled[q] = NULL THEN c[k - 1] ELSE Append(c[k - 1], fulfilled_promise[q])
    IN  c[MaxPromises]

\* Variant: the functions behind the next one are not called.
resolve_one(p, v) ==
    LET next == fulfilled_promise[p] reached == {p} \cup ({next} \ {NULL}) IN
    /\ is_resolved' = [q \in Promise |-> is_resolved[q] \/ q \in reached]
    /\ value' = [q \in Promise |-> IF q = p THEN v ELSE IF q = next THEN Apply(on_fulfilled[p], v) ELSE value[q]]

promise_resolve(p, v) ==
    LET chain == Chain(p)
        given[k \in DOMAIN chain] == IF k = 1 THEN v ELSE Apply(on_fulfilled[chain[k - 1]], given[k - 1])
        at(q) == CHOOSE k \in DOMAIN chain : chain[k] = q
        reached == {chain[k] : k \in DOMAIN chain}
    IN  /\ is_resolved' = [q \in Promise |-> is_resolved[q] \/ q \in reached]
        /\ value' = [q \in Promise |-> IF q \in reached THEN given[at(q)] ELSE value[q]]

promise_new == /\ made < MaxPromises
               /\ made' = made + 1
               /\ expects' = Append(expects, <<NULL, NULL>>)
               /\ UNCHANGED promise_vars

\* A client resolves the promises it made itself, once.
Resolve(p) ==
    /\ p <= made /\ expects[p][1] = NULL /\ ~is_resolved[p]
    /\ promise_resolve(p, <<p>>)
    /\ UNCHANGED <<made, on_fulfilled, fulfilled_promise, expects>>

\* One function for a promise that is not resolved yet: a second one would take
\* the place of the first, whose promise would never be resolved.
promise_then(p) ==
    LET tp == made + 1 IN
    /\ p <= made /\ made < MaxPromises /\ on_fulfilled[p] = NULL
    /\ made' = tp
    /\ expects' = Append(expects, <<p, tp>>)
    /\ IF is_resolved[p]
       THEN /\ is_resolved' = [is_resolved EXCEPT ![tp] = TRUE]
            /\ value' = [value EXCEPT ![tp] = Apply(tp, value[p])]
            /\ UNCHANGED <<on_fulfilled, fulfilled_promise>>
       ELSE /\ on_fulfilled' = [on_fulfilled EXCEPT ![p] = tp]
            /\ fulfilled_promise' = [fulfilled_promise EXCEPT ![p] = tp]
            /\ UNCHANGED <<is_resolved, value>>

Next == promise_new \/ \E p \in Promise : Resolve(p) \/ promise_then(p)

-----------------------------------------------------------------------------
\* A promise made by promise_then is resolved exactly when the one before it
\* is, with what its function makes of that value, in whatever order the
\* promises were chained and resolved.
PromisesSettle ==
    \A p \in 1..made : LET from == expects[p][1] IN from # NULL =>
        /\ is_resolved[p] <=> is_resolved[from]
        /\ is_resolved[p] => value[p] = Apply(expects[p][2], value[from])
=============================================================================
