---------------------------- MODULE MCFileGuard ----------------------------
EXTENDS FileGuard, TLC
CONSTANTS p1, p2, i1, i2, u1, u2, c1, c2

(* Two files; the watch list names one of them or both. *)
TwoFiles == (p1 :> i1) @@ (p2 :> i2)
SameContent == [i \in {i1, i2} |-> c1]

(* An earlier run of the agent, in lock mode, has left its policy of the   *)
(* first file.                                                             *)
Leftover == [i \in {i1, i2} |->
    IF i = i1 THEN [mask |-> Ops, block |-> "deny", path |-> p1] ELSE None]
=============================================================================
