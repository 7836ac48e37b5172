----------------------------- MODULE MCComposition -----------------------------
(* Instances of Composition for TLC: two written forms that may share a unit *)
(* from before the numeric migration.                                        *)
EXTENDS Composition

CONSTANTS formA, formB

Heritage ==
    [x \in CWord |-> [language |-> IF x = formA THEN {1, 2} ELSE {},
                      text     |-> IF x = formB THEN {2, 3} ELSE {}]]
=============================================================================
