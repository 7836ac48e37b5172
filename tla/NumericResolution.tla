--------------------------- MODULE NumericResolution ---------------------------
(***************************************************************************)
(* Diagnosed numerical lessons of the composition contracts v5 and v6      *)
(* (knowledge/neural_resolution*.go, neural_metric*.go): a lesson proposes *)
(* candidate readouts, finer resolutions and new circuits, installs the    *)
(* best one that its check rows and the retained witnesses allow, and      *)
(* keeps its check rows as witnesses of later lessons.                     *)
(*                                                                         *)
(* Numbers are integers in units of 1/One; rounding is the code's.         *)
(* Abstractions.  Measurements have one coordinate, so a direction is a    *)
(* sign.  The ceiling of 32 circuits is one, so products of circuits are   *)
(* never proposed.  Measurement and outcome errors are zero.  The two or   *)
(* more episodes a lesson needs for each point count as one row.  A query  *)
(* is grounded by its first committed lesson.                              *)
(***************************************************************************)
EXTENDS Integers, FiniteSets, FiniteSetsExt, Functions

CONSTANTS
    Query,         \* written queries
    NPoints,       \* for each query the sets of <<measurement, outcome>> to teach
    NGoal,         \* required precisions, 0 when the lesson names none
    NContract,     \* "v5", "v6": contracts to start from
    One,           \* the units of 1.0
    MaxNHeads,     \* the query budget (32 in the code)
    MaxNWitnesses, \* maxNWitnesses (128 in the code)
    MaxNLessons    \* bound: lessons

ASSUME NAssumption == /\ One \in Nat \ {0} /\ MaxNLessons \in Nat
                      /\ MaxNHeads \in Nat \ {0} /\ MaxNWitnesses \in Nat
                      /\ MaxNWitnesses >= MaxNHeads /\ IsFiniteSet(Query)
(* Measurements and outcomes lie between -1 and 1 (validateCompositionSequence, *)
(* validateNLesson).                                                       *)
ASSUME NPointsAssumption ==
    \A q \in Query : \A points \in NPoints[q] :
        points # {} /\ IsFiniteSet(points) /\ points \subseteq (-One .. One) \X (-One .. One)

VARIABLES
    nContract,  \* NResolution.Contract, fixed by the migration
    nUnit,      \* the learned circuit: direction, center and resolution
    nHeads,     \* the readout of every query
    nWitnesses, \* state.Witnesses
    nLast,      \* state.Last and InquiryState.Pending
    nTaught     \* lessons so far

nVars == <<nContract, nUnit, nHeads, nWitnesses, nLast, nTaught>>

NoUnit    == [axis |-> 1, center |-> 0, delta |-> 0]
NoReadout == [known |-> FALSE, metric |-> FALSE, num |-> 0, den |-> 1, b |-> 0,
              ms |-> 0, max |-> 0]
NoLesson  == [cause |-> "none", committed |-> FALSE, pending |-> FALSE]

NInit == /\ nContract \in NContract /\ nUnit = NoUnit
         /\ nHeads = [q \in Query |-> NoReadout]
         /\ nWitnesses = {} /\ nLast = NoLesson /\ nTaught = 0

-----------------------------------------------------------------------------
(* Evaluation.                                                             *)

NSum(f) == LET plus(i, j) == i + j IN FoldFunction(plus, 0, f)
Magnitude(i) == IF i < 0 THEN -i ELSE i
(* math.Round of a / b: halves go away from zero. *)
RoundDiv(a, b) == IF a >= 0 THEN (2 * a + b) \div (2 * b) ELSE -((b - 2 * a) \div (2 * b))
Clamp(i) == IF i > One THEN One ELSE IF i < -One THEN -One ELSE i

(* tanh of a code, in units of 1/One. *)
Firing(code) ==
    LET up == <<762, 964, 995, 999>> n == Magnitude(code)
        v == IF n = 0 THEN 0 ELSE IF n > 4 THEN One ELSE RoundDiv(up[n] * One, 1000)
    IN IF code < 0 THEN -v ELSE v

NCode(u, x) == RoundDiv(u.axis * x - u.center, u.delta)
(* What a head reads from the circuit: its metric value or its firing. *)
NValue(u, metric, x) ==
    IF u = NoUnit THEN 0 ELSE IF metric THEN u.center + u.delta * NCode(u, x)
                                        ELSE Firing(NCode(u, x))
NPredict(m, q, x) ==
    LET h == m.heads[q] IN Clamp(h.b + RoundDiv(h.num * NValue(m.unit, h.metric, x), h.den))

Model(u, hs) == [unit |-> u, heads |-> hs]
Miss(m, r) == Magnitude(NPredict(m, r.q, r.x) - r.y)
NError(m, rows) == NSum([r \in rows |-> Miss(m, r) * Miss(m, r)])
NMetricMaximumError(m, rows) == Max({0} \cup {Min({2 * One, Miss(m, r)}) : r \in rows})
(* The error quantization may add to a reading of h. *)
Quantization(u, h) == IF h.metric THEN RoundDiv(Magnitude(h.num) * u.delta, 2 * h.den) ELSE 0
NMetricQuality(m, q, rows) ==
    IF m.heads[q].known THEN Quantization(m.unit, m.heads[q]) + NMetricMaximumError(m, rows)
                        ELSE 4 * One

Binary(rows) == \A r \in rows : Magnitude(r.y) = One
NConflict(rows) == \E r, s \in rows : r.q = s.q /\ r.x = s.x /\ r.y # s.y
NBinarySolved(m, q, rows) ==
    /\ m.heads[q].known
    /\ \A r \in rows : LET v == NPredict(m, q, r.x) IN
         v * r.y > 0 /\ v * v * Cardinality(rows) > NError(m, rows)

-----------------------------------------------------------------------------
(* Fitting.                                                                *)

(* Least squares of the outcomes on one feature and a bias; a feature that *)
(* is constant on the rows gets no weight.                                 *)
LeastSquares(n, sv, sy, den, num) ==
    IF den = 0 THEN [num |-> 0, den |-> 1, b |-> RoundDiv(sy, n)]
    ELSE [num |-> num, den |-> den, b |-> RoundDiv(sy - RoundDiv(num * sv, den), n)]
Line(u, metric, rows) ==
    LET v == [r \in rows |-> NValue(u, metric, r.x)]
        n == Cardinality(rows)
        sv == NSum(v)
        sy == NSum([r \in rows |-> r.y])
    IN LeastSquares(n, sv, sy, n * NSum([r \in rows |-> v[r] * v[r]]) - sv * sv,
                    n * NSum([r \in rows |-> v[r] * r.y]) - sv * sy)

(* A row at +-1 that the line already exceeds does not pull it back.       *)
Censored(u, metric, l, r) ==
    LET raw == l.b + RoundDiv(l.num * NValue(u, metric, r.x), l.den)
    IN (r.y = One /\ raw > One) \/ (r.y = -One /\ raw < -One)
Refitted(u, metric, rows, l) ==
    LET active == {r \in rows : ~Censored(u, metric, l, r)}
    IN IF active = {} THEN l ELSE Line(u, metric, active)
Fitted(u, metric, rows) ==
    LET again(l) == Refitted(u, metric, rows, l)
    IN again(again(again(Line(u, metric, rows))))
WithLine(m, q, metric, l) ==
    [m EXCEPT !.heads[q] = [@ EXCEPT !.known = TRUE, !.metric = metric,
                                     !.num = l.num, !.den = l.den, !.b = l.b]]
(* One solve in v5, with a ridge too small to matter unless the feature is *)
(* constant: then it shares the outcome with the bias.                     *)
Ridge(u, metric, rows) ==
    LET v == [r \in rows |-> NValue(u, metric, r.x)]
        n == Cardinality(rows)
        sv == NSum(v)
        sy == NSum([r \in rows |-> r.y])
        unit == n * n * One * One
    IN IF \A r, s \in rows : v[r] = v[s]
       THEN [num |-> sv * sy, den |-> unit + sv * sv,
             b |-> RoundDiv(n * One * One * sy, unit + sv * sv)]
       ELSE Line(u, metric, rows)
Solved(u, metric, rows) ==
    IF nContract = "v6" THEN Fitted(u, metric, rows) ELSE Ridge(u, metric, rows)
NFit(m, q, metric, rows) == WithLine(m, q, metric, Solved(m.unit, metric, rows))
FitValid(m, q) == LET h == m.heads[q] IN
    Magnitude(h.num) < 8 * h.den /\ Magnitude(h.b) < 8 * One

(* A sixteenth of the smallest observed contrast, never below a unit.      *)
(* Without a contrast it is one in v5 and depends on the values in v6.     *)
Contrasts(vals, rows) ==
    {Magnitude(vals[p[1]] - vals[p[2]]) : p \in {p \in rows \X rows : p[1].y # p[2].y}} \ {0}
NMetricDelta(vals, rows) ==
    LET real == Contrasts(vals, rows)
        scale == Max({Magnitude(vals[r]) : r \in rows})
    IN IF real # {} THEN Min({8 * One - 1, Max({1, Min(real) \div 16})})
       ELSE IF scale = 0 THEN One ELSE Min({8 * One - 1, Max({1, scale \div 16})})
NDelta(vals, rows) ==
    IF nContract # "v6" /\ Contrasts(vals, rows) = {} THEN One ELSE NMetricDelta(vals, rows)

(* The midpoint of the two response classes.                               *)
NCenter(axis, rows) ==
    LET proj(class) == NSum([r \in class |-> axis * r.x])
        mean == RoundDiv(NSum([r \in rows |-> r.y]), Cardinality(rows))
        high == {r \in rows : r.y > mean}
        low == rows \ high
    IN IF high = {} \/ low = {} THEN 0
       ELSE RoundDiv(proj(high) * Cardinality(low) + proj(low) * Cardinality(high),
                     2 * Cardinality(high) * Cardinality(low))

(* The direction of the centred residuals, 0 when there is none.           *)
Direction(m, rows) ==
    LET n == Cardinality(rows)
        sx == NSum([r \in rows |-> r.x])
        s == NSum([r \in rows |-> (r.y - NPredict(m, r.q, r.x)) * (n * r.x - sx)])
    IN IF s > 0 THEN 1 ELSE IF s < 0 THEN -1 ELSE 0

-----------------------------------------------------------------------------
(* Retention: a candidate may not flip a binary distinction that was       *)
(* accepted and right, nor raise a query's error over its witnesses beyond *)
(* what it was (v5) or beyond that and its quantization (v6).              *)

Right(m, r) == NPredict(m, r.q, r.x) * r.y > 0
AcceptedRight(m, r) ==
    LET v == NPredict(m, r.q, r.x) IN
    Magnitude(r.y) = One /\ Right(m, r) /\ v * v > m.heads[r.q].ms
Flips(before, after, r) == AcceptedRight(before, r) /\ ~Right(after, r)
Envelope(contract, m, r) ==
    Miss(m, r) + IF contract = "v6" THEN Quantization(m.unit, m.heads[r.q]) ELSE 0
Worsens(contract, before, after, rows) ==
    NError(after, rows) >
        NSum([r \in rows |-> Envelope(contract, before, r) * Envelope(contract, before, r)])
(* Mutant: only the witnesses of the query being taught are consulted.     *)
NRegressionOwn(contract, before, after, q) ==
    LET own == {r \in nWitnesses : r.q = q} IN
    \/ \E r \in own : Flips(before, after, r)
    \/ Worsens(contract, before, after, own)
NRegression(contract, before, after, q) ==
    \/ \E r \in nWitnesses : Flips(before, after, r)
    \/ \E p \in Query : Worsens(contract, before, after, {r \in nWitnesses : r.q = p})

-----------------------------------------------------------------------------
(* The trials of a lesson.  A trial compares a fitted candidate m with the *)
(* best one t so far and replaces it when it is eligible.                  *)

Lesson(q, points, goal) ==
    LET rows(ep) == {[q |-> q, x |-> p[1], y |-> p[2], ep |-> ep] : p \in points}
        own == {r \in nWitnesses : r.q = q}
    IN [q |-> q, goal |-> goal, check |-> rows(2 * nTaught + 1),
        fit |-> rows(2 * nTaught) \cup own]
Evidence(l) == l.fit \cup l.check

Grown(before, m) == before.unit = NoUnit /\ m.unit # NoUnit

MetricGain(t, l, m, valid) ==
    LET err == NError(m, l.check)
        n == Cardinality(l.check)
        bound == NMetricQuality(m, l.q, l.check)
    IN \/ err < t.err /\ ~(l.goal > 0 /\ 4 * t.err <= n * l.goal * l.goal)
       \/ ~t.known /\ valid /\ err = 0
       \/ l.goal > 0 /\ t.bound > l.goal /\ bound < t.bound
          /\ err <= Max({t.err, n * l.goal * l.goal})
MeetsPrecision(t, l) ==
    t.known /\ \/ l.goal > 0 /\ Max({Miss(t.model, r) : r \in l.check}) <= l.goal
               \/ l.goal = 0 /\ Binary(Evidence(l)) /\ NBinarySolved(t.model, l.q, l.check)

EligibleMetric(before, t, l, m, metric) ==
    LET valid == FitValid(m, l.q) IN
    /\ valid
    /\ ~(Binary(Evidence(l)) /\ l.goal = 0 /\ metric)
    /\ ~NRegression("v6", before, m, l.q)
    /\ MetricGain(t, l, m, valid)
    /\ ~(Grown(before, m) /\ MeetsPrecision(t, l))
EligibleResolution(before, t, l, m) ==
    /\ FitValid(m, l.q)
    /\ ~NRegression("v5", before, m, l.q)
    /\ NError(m, l.check) < t.err

Eligible(before, t, l, m, metric) ==
    IF nContract = "v6" THEN EligibleMetric(before, t, l, m, metric)
                        ELSE ~metric /\ EligibleResolution(before, t, l, m)
Judge(before, t, l, cause, metric, m) ==
    IF Eligible(before, t, l, m, metric)
    THEN [model |-> m, err |-> NError(m, l.check), known |-> TRUE,
          bound |-> NMetricQuality(m, l.q, l.check), cause |-> cause]
    ELSE t
Consider(before, t, l, cause, unit, metric) ==
    Judge(before, t, l, cause, metric, NFit(Model(unit, before.heads), l.q, metric, l.fit))
BothModes(before, t, l, cause, unit) ==
    Consider(before, Consider(before, t, l, cause, unit, FALSE), l, cause, unit, TRUE)

Start(before, l) == [model |-> before, err |-> NError(before, l.check),
                     known |-> before.heads[l.q].known,
                     bound |-> NMetricQuality(before, l.q, l.check),
                     cause |-> "insufficient-predictive-evidence"]
TryReadout(before, t, l) == BothModes(before, t, l, "readout", before.unit)
TryResolution(before, t, l) ==
    LET u == before.unit
        seen == NDelta([r \in l.fit |-> u.axis * r.x], l.fit)
        finer == IF l.goal > 0 /\ NMetricQuality(t.model, l.q, l.check) > l.goal
                 THEN Min({seen, Max({1, u.delta \div 16})}) ELSE seen
        delta == IF nContract = "v6" THEN finer ELSE seen
    IN IF u # NoUnit /\ 2 * delta < u.delta
       THEN BothModes(before, t, l, "resolution", [u EXCEPT !.delta = delta]) ELSE t
TryGrowth(before, t, l) ==
    LET axis == Direction(t.model, l.fit)
        unit == [axis |-> axis, center |-> NCenter(axis, l.fit),
                 delta |-> NDelta([r \in l.fit |-> axis * r.x], l.fit)]
    IN IF before.unit = NoUnit /\ axis # 0
       THEN BothModes(before, t, l, "missing-direction", unit) ELSE t
Diagnose(before, l) ==
    TryGrowth(before, TryResolution(before, TryReadout(before, Start(before, l), l), l), l)

-----------------------------------------------------------------------------
(* Installation.                                                           *)

(* The witnesses a full store may keep: every query its share, rows that   *)
(* repeat another one's measurement and outcome dropped first.             *)
(* Mutant: the share is computed before the new head joins.                *)
ShareBefore(heads) ==
    MaxNWitnesses \div Max({1, Cardinality({q \in Query : nHeads[q].known})})
Share(heads) == MaxNWitnesses \div Cardinality({q \in Query : heads[q].known})
Distinct(rows) ==
    {r \in rows : \A s \in rows : s.q = r.q /\ s.x = r.x /\ s.y = r.y => r.ep <= s.ep}
Kept(heads, rows, kept) ==
    \A q \in Query :
      LET group == Distinct({r \in rows : r.q = q})
          mine == {r \in kept : r.q = q}
      IN /\ mine \subseteq group
         /\ Cardinality(mine) = Min({Cardinality(group), IF heads[q].known THEN Share(heads) ELSE 0})
         /\ mine # {} => \E r \in mine : \A s \in group : r.y <= s.y
NBalancedWitnesses(heads, rows) ==
    IF Cardinality(rows) <= MaxNWitnesses THEN {rows}
    ELSE {kept \in SUBSET rows : Kept(heads, rows, kept)}

(* Only the head of the query taught is written; a circuit is shared.      *)
Installed(before, t, l) ==
    LET after == t.model
        support == l.check \cup {r \in nWitnesses : r.q = l.q}
    IN [after.heads EXCEPT ![l.q] = [@ EXCEPT
            !.ms = RoundDiv(t.err, Cardinality(l.check)),
            !.max = NMetricMaximumError(after, support)]]

Record(cause, committed, pending) ==
    nLast' = [cause |-> cause, committed |-> committed, pending |-> pending]

(* Identical measurements with different outcomes: the head only becomes   *)
(* less certain.                                                           *)
Conflicting(before, l) ==
    LET all == Evidence(l)
        worst == NMetricMaximumError(before, all)
        ms == IF nContract = "v6" THEN RoundDiv(NError(before, all), Cardinality(all))
                                  ELSE worst * worst
    IN /\ NConflict(all)
       /\ nHeads' = IF nHeads[l.q].known
                    THEN [nHeads EXCEPT ![l.q].ms = ms,
                                        ![l.q].max = IF nContract = "v6" THEN worst ELSE @]
                    ELSE nHeads
       /\ Record("conflicting-observations", FALSE,
                 nContract = "v6" \/ NError(before, l.check) > 0)
       /\ UNCHANGED <<nUnit, nWitnesses>>

Committed(before, l, t) ==
    LET heads == Installed(before, t, l) IN
    /\ t.model # before
    /\ nUnit' = t.model.unit
    /\ nHeads' = heads
    /\ nWitnesses' \in NBalancedWitnesses(heads, nWitnesses \cup l.check)
    /\ Record(t.cause, TRUE, FALSE)

Unsolved(before, l, t) ==
    LET within == /\ nContract = "v6" /\ l.goal > 0 /\ before.heads[l.q].known
                  /\ NMetricMaximumError(before, l.check) <= l.goal
    IN /\ t.model = before
       /\ Record(IF within THEN "already-within-precision" ELSE t.cause, FALSE,
                 IF nContract = "v6" THEN ~within ELSE t.err > 0)
       /\ UNCHANGED <<nUnit, nHeads, nWitnesses>>

Conclude(before, l, t) == Committed(before, l, t) \/ Unsolved(before, l, t)

(* The read-only checks before the append: the query budget, and no        *)
(* precision outside v6.                                                   *)
Teachable(q, goal) ==
    /\ nContract # "v6" => goal = 0
    /\ Cardinality({p \in Query : nHeads[p].known} \cup {q}) <= MaxNHeads

NLearn(before, l) ==
    /\ nTaught < MaxNLessons /\ Teachable(l.q, l.goal)
    /\ \/ Conflicting(before, l)
       \/ ~NConflict(Evidence(l)) /\ Conclude(before, l, Diagnose(before, l))
    /\ nTaught' = nTaught + 1
    /\ UNCHANGED nContract

NNext == \E q \in Query : \E points \in NPoints[q], goal \in NGoal :
             NLearn(Model(nUnit, nHeads), Lesson(q, points, goal))
NSpec == NInit /\ [][NNext]_nVars

-----------------------------------------------------------------------------
(* Reading.                                                                *)

(* estimated_abs_error of a reading. *)
Estimate(q) == Min({2 * One, nHeads[q].max + Quantization(nUnit, nHeads[q])})
NRead(q, x, goal) ==
    LET h == nHeads[q] v == NPredict(Model(nUnit, nHeads), q, x) IN
    CASE ~h.known -> "untrained-n-resolution"
      [] h.known /\ goal > 0 -> IF Estimate(q) <= goal THEN "precision-met" ELSE "precision-not-met"
      [] h.known /\ goal = 0 /\ h.metric -> "metric-precision-required"
      [] OTHER -> IF v * v > h.ms THEN "numeric-prediction" ELSE "uncertain-numerical-state"

-----------------------------------------------------------------------------
(* Properties.                                                             *)

(* What a restore asks of the shared units, of every query's readout, and of *)
(* the retained witnesses.                                                   *)
ValidUnits ==
    nUnit # NoUnit => nUnit.delta \in 1 .. 8 * One - 1 /\ Magnitude(nUnit.center) < 8 * One
ValidHeads ==
    \A q \in Query : nHeads[q].known =>
       nHeads[q].ms >= 0 /\ nHeads[q].max \in 0 .. 2 * One /\ (nHeads[q].metric => nContract = "v6")
ValidWitnesses ==
    Cardinality(nWitnesses) <= MaxNWitnesses /\ \A r \in nWitnesses : nHeads[r.q].known

(* Whatever sequence of lessons was taught, a checkpoint of the result     *)
(* passes the validation a restore applies to it                           *)
(* (validateNResolutionState): a Brain can always load what it saved.      *)
NRestorable == ValidUnits /\ ValidHeads /\ ValidWitnesses

(* N_RESOLUTION.md: a lesson does not flip a distinction of any query that *)
(* was accepted and right on a retained witness, although the circuit it   *)
(* refines is shared by all of them.                                       *)
DistinctionsRetained ==
    [][\A r \in nWitnesses :
         ~Flips(Model(nUnit, nHeads), Model(nUnit', nHeads'), r)]_nVars

(* METRIC_CONTEXT_V6.md: "acceptance compares the propagated numerical     *)
(* estimate plus observed maximum residual with the requested tolerance":  *)
(* on its own retained experience a query is never accepted at a precision *)
(* its reading misses.                                                     *)
EnvelopeCoversRetained ==
    nContract = "v6" =>
      \A r \in nWitnesses, goal \in NGoal \ {0} :
        NRead(r.q, r.x, goal) = "precision-met" => Miss(Model(nUnit, nHeads), r) <= goal
=============================================================================
