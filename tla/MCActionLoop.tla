----------------------------- MODULE MCActionLoop -----------------------------
(* Instances of ActionLoop for TLC: two requests that name the same target,  *)
(* one of them a synapse the Brain does not have.                            *)
EXTENDS ActionLoop, TLC

CONSTANTS reqA, reqB, fromA, fromB, unitA, unitB, linkA, linkB

Interchangeable ==
    Permutations(Id) \cup Permutations(Source) \cup Permutations(Group)
=============================================================================
