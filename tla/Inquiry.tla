------------------------------- MODULE Inquiry -------------------------------
(* The life of an inquiry: what follows an observation is forecast from       *)
(* experience, the uncertainty of the forecast is planned against, a client   *)
(* turns the plan into a request, and an observation answers the request      *)
(* (runtime/observation_command.go, orchestrator.go, inquiry.go,              *)
(* inquiry_adapter.go, inquiry_prediction.go, knowledge/                      *)
(* prediction_assessment.go, knowledge.go, information_dynamics.go).          *)
(*                                                                            *)
(* Agendas and requests are the client's: it may ask late, answer late,       *)
(* answer twice, and answer one request while another is pending.  The brain  *)
(* keeps the numbers of one inquiry, which numeric lessons write as well.     *)
(*                                                                            *)
(* Numbers are thousandths, rounded down.  What retention and propagation     *)
(* contribute (conductance, the quality of a cue, the forecast preferred,     *)
(* entropy, prediction error) is left open.                                   *)
EXTENDS Integers, Sequences, FiniteSets, SequencesExt

CONSTANTS
    QPop,         \* populations, positive numbers
    QBound,       \* actions that a binding connects to outcomes
    QPast,        \* what is known at first: [traces, taught]
    QStrength,    \* conductance, or weight and confidence, of experience
    QQuality,     \* quality of a credited cue
    QInput,       \* inputs: [pop, words, reset]
    QLesson,      \* pairs of populations learned as experiences
    QReport,      \* consequences: [action, valence, gain, reliability, lesson]
    QLevel,       \* prediction errors and entropies
    QTraces,      \* maxExperienceTraces
    MaxQRev,      \* bound: commands
    MaxQRequests  \* bound: requests the client keeps

Whole == 1000

QReported == {report.action : report \in QReport}

ASSUME QAssumption ==
    /\ QPop \subseteq Nat \ {0} /\ IsFiniteSet(QPop) /\ QLesson \subseteq QPop \X QPop
    /\ \A past \in QPast : past.taught \subseteq QPop \X QPop /\ past.traces \in Seq(QPop \X QPop)
    /\ QStrength \cup QQuality \cup QLevel \subseteq 0..Whole
    /\ QInput \subseteq [pop : QPop \cup {0}, words : BOOLEAN, reset : BOOLEAN]
    /\ {QTraces, MaxQRev, MaxQRequests} \subseteq Nat

VARIABLES
    (* the brain *)
    qRev,
    qBoundary,  \* the last real observation and the patterns it credits
    qPrior,     \* the population a transition starts from, or 0
    qTraces,    \* transitions observed, the latest ones
    qTaught,    \* how often a pair was learned as an experience
    qPolicy,    \* biases of the learning policy
    qYield,     \* per action: the information it brought, how reliably, how often
    qValence,   \* per action: how well it turned out
    qInquiry,   \* InquiryState
    (* the client *)
    qAgenda,    \* the latest agenda it was given
    qRequests,  \* requests it has built
    (* history *)
    qEver,      \* how often one population followed another
    qResult     \* the latest answer: its gain, the limit of that gain, and how
                \* often its population had followed when the question was asked

qExperience == <<qBoundary, qPrior, qTraces, qTaught, qEver>>
qLearned    == <<qPolicy, qYield, qValence>>
qClient     == <<qAgenda, qRequests>>
qVars == <<qRev, qExperience, qLearned, qInquiry, qClient, qResult>>

Limited(n)     == Max({0, Min({n, Whole})})
LimitedBoth(n) == Max({-Whole, Min({n, Whole})})
Times(m, n)    == (m * n) \div Whole
SumOf(f)       == LET plus(m, n) == m + n IN FoldFunction(plus, 0, f)
-----------------------------------------------------------------------------
(* The forecast.  Evidence for what follows an observation is the experience  *)
(* of the patterns it credits or, without any, the retained transitions from  *)
(* exactly its population.                                                    *)
NoBoundary == [pop |-> 0, credit |-> {}]
Pairs == QPop \X QPop
Seen(pair) == Cardinality({i \in DOMAIN qTraces : qTraces[i] = pair})
Successors(pop) == {next \in QPop : <<pop, next>> \in {p \in DOMAIN qTaught : qTaught[p] > 0}}

Counted(b) ==
    IF b.credit # {} THEN [next \in b.credit |-> qTaught[<<b.pop, next>>]]
    ELSE [next \in {q \in QPop : Seen(<<b.pop, q>>) > 0} |-> Seen(<<b.pop, next>>)]

UnknownPrediction == [known |-> <<>>, chosen |-> 0]

(* assessPopulationEvidence: one unit of unknown mass stands beside the       *)
(* evidence; propagation prefers one of the supported populations or none.    *)
Assessed(mass, quality) ==
    LET held  == {next \in DOMAIN mass : mass[next] > 0 /\ quality > 0}
        known == [next \in held |->
                    (quality * mass[next]) \div (Whole + SumOf([n \in held |-> mass[n]]))]
    IN  {[known |-> known, chosen |-> c] : c \in held \cup {0}}

(* (Engine).PredictionAssessment: the boundary may be too old by now.         *)
Predictions(b) ==
    LET count == Counted(b)
    IN  UNION {Assessed([next \in DOMAIN count |-> count[next] * strength[next]],
                        IF b.credit = {} THEN Whole ELSE quality) :
                 strength \in [DOMAIN count -> QStrength], quality \in QQuality}

Confidence(a) == IF a.chosen = 0 THEN 0 ELSE a.known[a.chosen]
KnownShare(a) == SumOf(a.known)
Uncertain(a)  == Whole - Confidence(a)
-----------------------------------------------------------------------------
(* The plan.  Candidates in the order that breaks ties.                       *)
Candidate(action, cost, reversibility, social) ==
    [action |-> action,
     score |-> Times(-300, cost) + Times(200, reversibility) + Times(200, social)]

DefaultInquiryCandidates ==
    << Candidate("change_view", 200, 1000, 900),
       Candidate("focus", 100, 1000, 1000),
       Candidate("gesture", 150, 1000, 850),
       Candidate("imitate", 350, 800, 650),
       Candidate("point", 150, 1000, 850),
       Candidate("reobserve", 100, 1000, 950),
       Candidate("safe_manipulation", 550, 650, 550),
       Candidate("verbal_question", 300, 1000, 800),
       Candidate("vocalize", 250, 1000, 700),
       Candidate("wait", 50, 1000, 950) >>

(* What an action is expected to tell: nothing unless it is bound, leads to    *)
(* different outcomes (entropy), and has told something before.               *)
PredictInformationValue(action, uncertainty, entropy) ==
    IF action \notin QBound \/ qYield[action].samples = 0 THEN 0
    ELSE Times(Times(uncertainty, entropy),
               Times(qYield[action].ema, 250 + Times(750, qYield[action].reliability)))

Bias(action, policy) ==
    CASE action \in {"reobserve", "focus"} -> policy.repeat
      [] action \in {"change_view", "imitate", "safe_manipulation"} -> policy.explore
      [] action = "wait" -> policy.defer
      [] OTHER -> 0
InquiryPriorExperience(action) ==
    IF action \in QReported THEN Limited(Times(250, qValence[action])) ELSE 0

Evaluations(policy, uncertainty, entropy) ==
    [i \in DOMAIN DefaultInquiryCandidates |->
        LET c == DefaultInquiryCandidates[i]
            information == PredictInformationValue(c.action, uncertainty, entropy)
            prior == Limited(InquiryPriorExperience(c.action) + Times(200, Bias(c.action, policy)))
        IN  [action |-> c.action, information |-> information,
             score |-> information + c.score + Times(150, prior)]]

FirstOfBest(evaluations) ==
    FoldLeft(LAMBDA best, e : IF e.score > best.score THEN e ELSE best,
             Head(evaluations), evaluations)

NoAgenda == [seq |-> 0]
NoResult == [gain |-> 0, of |-> 0, before |-> 0]

(* The agenda carries the forecast that it is about; from and ever are        *)
(* history: the observation it was made at and what had followed it by then.  *)
PlanInquiry(rev, policy, forecast, entropy, from) ==
    LET selected == FirstOfBest(Evaluations(policy, Uncertain(forecast), entropy))
    IN  [seq |-> rev, action |-> selected.action, expected |-> selected.information,
         uncertainty |-> Uncertain(forecast), forecast |-> forecast, from |-> from,
         ever |-> [q \in QPop |-> IF from = 0 THEN 0 ELSE qEver[<<from, q>>]]]

RecordInquirySelection(agenda) ==
    [pending |-> TRUE, seq |-> agenda.seq, action |-> agenda.action, numbers |-> "planned"]
(* UpdateInformationDynamics puts the numbers of a real observation (its      *)
(* error, novelty and instability) in the place of those planned.             *)
UpdateInformationDynamics(inquiry) == [inquiry EXCEPT !.numbers = "measured"]
(* RecordInquiryOutcome closes whatever inquiry is pending.                   *)
Completed(inquiry) == [inquiry EXCEPT !.pending = FALSE]

Adapted(policy, gain, error) ==
    LET curious == IF gain > 700 /\ error < 250 THEN Times(50, gain) ELSE 0
    IN  [explore |-> Limited(Limited(policy.explore + Times(200, error)) + curious),
         repeat  |-> Limited(policy.repeat + Times(150, error)),
         defer   |-> Limited(policy.defer + Times(100, error))]

(* Mutant: the answer is compared with what the brain forecasts by then.      *)
ResolvedByNow(request, pop) ==
    IF <<request.from, pop>> \in Range(qTraces') THEN request.uncertainty ELSE 0
(* resolvedPredictionInformation: the answer is compared with the forecast    *)
(* the request was made with.                                                 *)
ResolvedInformation(request, pop) ==
    IF pop \in DOMAIN request.forecast.known /\ request.forecast.known[pop] > 0
    THEN Times(request.uncertainty, KnownShare(request.forecast)) ELSE 0
-----------------------------------------------------------------------------
QInit ==
    /\ qRev = 0 /\ qBoundary = NoBoundary /\ qPrior = 0
    /\ \E past \in QPast :
         /\ qTraces = past.traces
         /\ qTaught = [p \in Pairs |-> IF p \in past.taught THEN 1 ELSE 0]
         /\ qEver = [p \in Pairs |-> qTaught[p] + Seen(p)]
    /\ qPolicy = [explore |-> 0, repeat |-> 0, defer |-> 0]
    /\ qYield = [a \in QReported |-> [ema |-> 0, reliability |-> 0, samples |-> 0]]
    /\ qValence = [a \in QReported |-> 0]
    /\ qInquiry = [pending |-> FALSE, seq |-> 0, action |-> "", numbers |-> "none"]
    /\ qAgenda = NoAgenda /\ qRequests = {} /\ qResult = NoResult

Commit == qRev < MaxQRev /\ qRev' = qRev + 1

(* An input has a population or none, other words or none; reset stands for   *)
(* a reset, another episode, or a time before the last observation.           *)
NoInput(input) == input.pop = 0 /\ ~input.words

(* Only a real observation replaces the boundary of the forecast; an input    *)
(* without any words is a thought and leaves it.                              *)
BoundaryAfter(input, credit) ==
    IF input.pop # 0 THEN [pop |-> input.pop, credit |-> credit]
    ELSE IF input.words \/ input.reset THEN NoBoundary ELSE qBoundary
PredictionsAfter(input, boundary) ==
    Predictions(boundary) \cup (IF NoInput(input) THEN {UnknownPrediction} ELSE {})

OnceMore(taught, lesson) ==
    IF lesson = <<>> THEN taught ELSE [taught EXCEPT ![lesson] = @ + 1]

(* learnObservedTransition, and the experience that comes with the command.   *)
LearnFrom(input, lesson) ==
    LET prior == IF input.reset THEN 0 ELSE qPrior
        step  == IF prior # 0 /\ input.pop # 0 THEN <<<<prior, input.pop>>>> ELSE <<>>
        all   == qTraces \o step
    IN  /\ qTraces' = SubSeq(all, Max({1, Len(all) - QTraces + 1}), Len(all))
        /\ qPrior' = input.pop
        /\ qTaught' = OnceMore(qTaught, lesson)
        /\ qEver' = OnceMore(OnceMore(qEver, lesson), IF step = <<>> THEN <<>> ELSE step[1])

(* applyObservationCommandLocked.  The forecast is read before the transition *)
(* is learned; an answered inquiry is closed, on the last real observation,   *)
(* before the next one is planned.                                            *)
ApplyObservation(input, lesson, asked, plan, credit, forecast, entropy, error) ==
    LET last     == qBoundary'.pop
        gain     == IF asked = <<>> THEN 0 ELSE ResolvedInformation(asked[1], last)
        policy   == IF asked = <<>> THEN qPolicy ELSE Adapted(qPolicy, gain, error)
        measured == IF input.pop = 0 THEN qInquiry ELSE UpdateInformationDynamics(qInquiry)
        agenda   == PlanInquiry(qRev', policy, forecast, entropy, last)
    IN  /\ qBoundary' = BoundaryAfter(input, credit)
        /\ LearnFrom(input, lesson)
        /\ qPolicy' = policy
        /\ qInquiry' = IF plan THEN RecordInquirySelection(agenda)
                       ELSE IF asked # <<>> THEN Completed(measured) ELSE measured
        /\ qAgenda' = IF plan THEN agenda ELSE qAgenda
        /\ qResult' = IF asked = <<>> THEN qResult
                      ELSE [gain |-> gain, of |-> asked[1].uncertainty,
                            before |-> IF last = 0 THEN 0 ELSE asked[1].ever[last]]
        /\ UNCHANGED <<qYield, qValence, qRequests>>

Observing(input, lesson, asked, plan) ==
    /\ Commit
    /\ \E credit \in SUBSET Successors(input.pop), entropy, error \in QLevel :
         \E forecast \in PredictionsAfter(input, BoundaryAfter(input, credit)) :
            ApplyObservation(input, lesson, asked, plan, credit, forecast, entropy, error)

ProcessObservation(input, lesson) == Observing(input, lesson, <<>>, TRUE)

(* A request is checked for its identity, not for being pending.              *)
ProcessInquiryObservation(request, input, lesson) == Observing(input, lesson, <<request>>, TRUE)

ProcessSensorObservation(pop) ==
    Observing([pop |-> pop, words |-> FALSE, reset |-> FALSE], <<>>, <<>>, FALSE)

(* BuildInquiryRequest captures the forecast of an agenda of this revision.   *)
RequestInquiry ==
    /\ qAgenda # NoAgenda
    /\ \E forecast \in {IF qAgenda.seq = qRev THEN qAgenda.forecast ELSE UnknownPrediction} :
         qRequests' = qRequests \cup {[qAgenda EXCEPT !.forecast = forecast]}
    /\ Cardinality(qRequests') <= MaxQRequests
    /\ UNCHANGED <<qRev, qExperience, qLearned, qInquiry, qAgenda, qResult>>

(* Thought moves the brain and counts as no experience.                       *)
CognitiveThink ==
    Commit /\ UNCHANGED <<qExperience, qLearned, qInquiry, qClient, qResult>>

TeachExperience(lesson) ==
    /\ Commit
    /\ qTaught' = OnceMore(qTaught, lesson) /\ qEver' = OnceMore(qEver, lesson)
    /\ UNCHANGED <<qBoundary, qPrior, qTraces, qLearned, qInquiry, qClient, qResult>>

(* applyInquiryConsequenceLocked: the yield moves by at most a quarter; a     *)
(* report that names populations is an experience as well.                    *)
Yield(y, gain, reliability) ==
    LET weight == 250 + Times(750, reliability)
        alpha  == Min({250, Times(weight, Min({250, (Whole * Whole) \div (Whole + y.samples)}))})
    IN  [ema |-> Limited(y.ema + Times(alpha, gain - y.ema)), reliability |-> reliability,
         samples |-> y.samples + weight]

RecordInquiryConsequence(report) ==
    /\ Commit
    /\ qYield' = [qYield EXCEPT ![report.action] = Yield(@, report.gain, report.reliability)]
    /\ qValence' = [qValence EXCEPT
                     ![report.action] = LimitedBoth(@ + Times(200, report.valence - @))]
    /\ qTaught' = OnceMore(qTaught, report.lesson) /\ qEver' = OnceMore(qEver, report.lesson)
    /\ UNCHANGED <<qBoundary, qPrior, qTraces, qPolicy, qInquiry, qClient, qResult>>

(* A numeric diagnosis or lesson keeps its progress in InquiryState as well.  *)
RecordNumericInquiry(pending) ==
    /\ Commit
    /\ qInquiry' = [qInquiry EXCEPT !.seq = @ + 1, !.pending = pending]
    /\ UNCHANGED <<qExperience, qLearned, qClient, qResult>>

QNext ==
    \/ \E input \in QInput, lesson \in QLesson \cup {<<>>} :
         \/ ProcessObservation(input, lesson)
         \/ \E request \in qRequests : ProcessInquiryObservation(request, input, lesson)
    \/ \E pop \in QPop : ProcessSensorObservation(pop)
    \/ RequestInquiry
    \/ CognitiveThink
    \/ \E lesson \in QLesson : TeachExperience(lesson)
    \/ \E report \in QReport : RecordInquiryConsequence(report)
    \/ \E pending \in BOOLEAN : RecordNumericInquiry(pending)

QSpec == QInit /\ [][QNext]_qVars
-----------------------------------------------------------------------------
(* What an inquiry is said to have told was earned.  A gain is credited only  *)
(* for a population that had followed the observation before the question     *)
(* was asked (the answer itself, later experience and thought do not count),  *)
(* and never for more than the uncertainty that was asked about; and a        *)
(* forecast is never surer than its exposures allow, so that n of them leave  *)
(* one part in n + 1 unknown (resolvedPredictionInformation,                  *)
(* assessPopulationEvidence, BuildInquiryRequest).                            *)
GainEarned ==
    /\ qResult.gain <= qResult.of
    /\ qResult.gain > 0 => qResult.before > 0
    /\ qAgenda # NoAgenda =>
         LET a == qAgenda
         IN  Confidence(a.forecast) > 0 =>
               Confidence(a.forecast) * (a.ever[a.forecast.chosen] + 1)
                 <= Whole * a.ever[a.forecast.chosen]
=============================================================================
