--------------------------- MODULE MCUthreadSched ---------------------------
(***************************************************************************)
(* Instances of UthreadSched for TLC: who calls what.                      *)
(***************************************************************************)
EXTENDS UthreadSched, TLC

CONSTANTS p1, p2, main, t1, t2, b1, b2

MCBase == (p1 :> b1) @@ (p2 :> b2)

\* Main makes the calls m, every other uthread the calls w.
CallsOf(m, w) == [t \in Threads |-> IF t = Main THEN m ELSE w]

\* Some uthreads yield and exit, the others block and join.
CallsMixed == [t \in Threads |-> CASE t = Main -> {"create", "join", "detach", "unblock"}
                                   [] t = t1 -> {"yield", "unblock", "exit"}
                                   [] OTHER -> {"block", "unblock", "join"}]
CallsBlockExit == CallsOf({"create", "detach", "unblock", "yield"}, {"block", "exit"})
CallsBlockYield == CallsOf({"create", "unblock", "yield"}, {"block", "unblock", "yield"})
=============================================================================
