--------------------------- MODULE MCCognitiveModel ---------------------------
(* Instance of CognitiveModel for TLC: one batch that is kept, and any       *)
(* number that are recorded where they are learned.                          *)
EXTENDS CognitiveModel
=============================================================================
