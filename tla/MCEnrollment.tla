---------------------------- MODULE MCEnrollment ----------------------------
EXTENDS Enrollment, TLC
CONSTANTS c1, c2, c3, t1, t2, m1, m2

(* One token tried twice and a second one, all from one machine; a token   *)
(* may also be bound to another machine.                                   *)
TwoTokens == (c1 :> t1) @@ (c2 :> t1) @@ (c3 :> t2)
OneMachine == [c \in {c1, c2, c3} |-> m1]

(* The two attempts with the first token are interchangeable.              *)
Attempts == Permutations({c1, c2})
=============================================================================
