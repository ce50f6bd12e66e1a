-------------------------- MODULE MCUthreadUnblock --------------------------
(***************************************************************************)
(* Instances of UthreadUnblock for TLC: Main creates the others and        *)
(* unblocks them without knowing whether they are blocked; they block and  *)
(* t1 unblocks as Main does.                                               *)
(***************************************************************************)
EXTENDS UthreadUnblock, TLC

CONSTANTS p1, p2, main, t1, t2, b1, b2

MCBase == (p1 :> b1) @@ (p2 :> b2)
MCCalls == (main :> {"create", "unblock_any"}) @@ (t1 :> {"block", "unblock_any"})
           @@ (t2 :> {"block"})
=============================================================================
