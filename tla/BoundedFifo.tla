----------------------------- MODULE BoundedFifo -----------------------------
(***************************************************************************)
(* What the agent's event queue promises its users, without a ring: a      *)
(* first-in first-out queue of at most Capacity events that never blocks a *)
(* producer.  When it is full the OLDEST event makes room for the new one  *)
(* and is counted.  Events are known by their serial number: the n-th      *)
(* event put in is n.                                                      *)
(***************************************************************************)
EXTENDS Integers, Sequences

CONSTANT Capacity

VARIABLES
    q,      \* the events held, oldest first
    puts,   \* events put in so far
    lost,   \* events that were overwritten
    got     \* serial number of the last event taken out, 0 before the first

fifoVars == <<q, puts, lost, got>>

FifoInit ==
    /\ q = <<>>
    /\ puts = 0
    /\ lost = 0
    /\ got = 0

Put ==
    /\ puts' = puts + 1
    /\ IF Len(q) = Capacity
       THEN q' = Append(Tail(q), puts + 1) /\ lost' = lost + 1
       ELSE q' = Append(q, puts + 1) /\ UNCHANGED lost
    /\ UNCHANGED got

Take ==
    /\ q # <<>>
    /\ got' = Head(q)
    /\ q' = Tail(q)
    /\ UNCHANGED <<puts, lost>>

FifoSpec == FifoInit /\ [][Put \/ Take]_fifoVars

==============================================================================
