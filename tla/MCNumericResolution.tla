-------------------------- MODULE MCNumericResolution --------------------------
(* Lessons for NumericResolution: a coarse binary foundation, a linear       *)
(* reading and a binary contrast that fit its resolution, and a fine         *)
(* distinction that needs a finer one, in both directions.                   *)
EXTENDS NumericResolution, TLC

CONSTANTS f, a, b

Foundation == {<<-128, -128>>, <<128, 128>>}
Linear     == {<<-58, -32>>, <<6, 0>>, <<38, 16>>}
Contrast   == {<<6, 128>>, <<128, -128>>}
Fine       == {<<40, -16>>, <<48, 16>>}
FineTurned == {<<40, 16>>, <<48, -16>>}

Curriculum == (f :> {Foundation}) @@ (a :> {Linear, Contrast}) @@ (b :> {Fine, FineTurned})
=============================================================================
