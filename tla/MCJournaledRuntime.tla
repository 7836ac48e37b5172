------------------------- MODULE MCJournaledRuntime -------------------------
(* Instances of JournaledRuntime for TLC: two redo commands of which one    *)
(* fails when applied, one thought, and two sensor samples with different   *)
(* timestamps, so that a sample can be stale.                               *)
EXTENDS JournaledRuntime

CONSTANTS c1, c2, t1, s1, s2

MCTime == [o \in Op |-> IF o \in {c2, s2} THEN 2 ELSE 1]
=============================================================================
