------------------------- MODULE MCProductionStartup -------------------------
(* Instances of ProductionStartup for TLC: events without an identity of    *)
(* their own stand for every cycle and observation.                         *)
EXTENDS ProductionStartup

MCEvent == {"event"}
=============================================================================
