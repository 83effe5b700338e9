---------------------------- MODULE MCEbpfGuard ----------------------------
(* A directory d, a file a in it, a file b elsewhere; d or a is watched.   *)
EXTENDS EbpfGuard

CONSTANTS i1, i2, i3, a, b, d, wd, wa

Files == [p \in Paths |-> CASE p = a -> i1 [] p = b -> i2 [] OTHER -> i3]
Covers == [w \in Watches |-> IF w = wd THEN {a, d} ELSE {a}]
Collide == [k \in Keys |-> 0]
ByOp == [x \in Keys \X Ops |-> IF x[2] = "DELETE" THEN 1 ELSE 0]

=============================================================================
