------------------------------- MODULE Cognition -------------------------------
(***************************************************************************)
(* What a committed event does to the neural substrate under the current   *)
(* dynamics (runtime/brain.go, activation/ordered.go, context_state.go,    *)
(* observed_feedback.go, knowledge/memory_time.go, recurrent_context.go):  *)
(* passive retention charged by a watermark, recurrent context, the        *)
(* forecast kept for the next real observation and the transition learned  *)
(* from one observation to the next.  Timestamps are the client's.         *)
(*                                                                         *)
(* Abstractions.  Weights are small integers that halve with every tick;   *)
(* an experience moves a weight by one or halfway to a target.             *)
(* Confidence, eligibility and activation levels are left out, so what     *)
(* propagation predicts and which connections are eligible are left open.  *)
(* Populations of one event are its stimulus and context streams; the data *)
(* stream is matched as the context is.  Learned patterns have no context  *)
(* of their own.                                                           *)
(***************************************************************************)
EXTENDS Integers, Sequences, FiniteSets, SequencesExt

CONSTANTS
    GUnit,      \* neural units
    GKnown,     \* connections that exist at first
    GInput,     \* events: [episode, reset, stimulus, context]
    GLesson,    \* sequences of populations to learn, and to import
    GPredicted, \* populations propagation may predict
    GInquiry,   \* outcomes of inquiries: [targets, promoted, eligible, good]
    GAge,       \* ContextMaxAge
    GFrames,    \* ContextMaxFrames
    GMembers,   \* ContextMaxMembers
    GTop,       \* the largest weight
    MaxGTime,   \* bound: timestamps
    MaxGRev     \* bound: events

GTime == 0 .. MaxGTime
Link  == {l \in GUnit \X GUnit : l[1] # l[2]}
Never == -1

ASSUME GAssumption ==
    /\ GKnown \subseteq Link
    /\ \A q \in GInquiry : q.promoted \cup q.eligible \subseteq Link
    /\ IsFiniteSet(GUnit) /\ GAge \in Nat /\ GTop \in Nat \ {0} /\ MaxGRev \in Nat
    /\ GFrames \in Nat /\ GMembers \in Nat
    /\ \A i \in GInput : i.reset \in BOOLEAN
    /\ \A i \in GInput : {i.stimulus, i.context} \subseteq Seq((SUBSET GUnit) \ {{}})
    /\ GLesson \subseteq Seq(SUBSET GUnit)

VARIABLES
    gRev,   \* events committed
    gBrain, \* the connections and the retention watermark
    gMind   \* the continuation: context, forecast, last trace, predecessor

gVars == <<gRev, gBrain, gMind>>

NoContext  == [episode |-> "", ordinal |-> 0, cue |-> 0, frames |-> <<>>, open |-> FALSE]
NoForecast == [episode |-> "", at |-> Never, source |-> {}, credit |-> {}, of |-> 0]
NoPrior    == [pop |-> {}, at |-> Never, episode |-> ""]

(* learned, from and late are history: what a connection was last set to,  *)
(* since when it is retained, and that one was changed before it paid for  *)
(* the time until then.  count, seen, credits and crossed are too.         *)
GInit ==
    /\ gRev = 0
    /\ gBrain = [weight |-> [l \in Link |-> IF l \in GKnown THEN GTop ELSE 0],
                 at |-> [l \in Link |-> IF l \in GKnown THEN 0 ELSE Never],
                 mark |-> Never, patterns |-> GLesson,
                 learned |-> [l \in Link |-> IF l \in GKnown THEN GTop ELSE 0],
                 from |-> [l \in Link |-> 0], late |-> FALSE]
    /\ gMind = [context |-> NoContext, forecast |-> NoForecast, trace |-> <<>>, prior |-> NoPrior,
                count |-> 0, last |-> "", seen |-> <<>>, credits |-> {}, crossed |-> FALSE]

-----------------------------------------------------------------------------
(* Retention.                                                              *)

Later(a, b) == IF a > b THEN a ELSE b
Lower(a, b) == IF a < b THEN a ELSE b
Halved(w, ticks) ==
    LET halve(v, tick) == v \div 2 IN FoldLeft(halve, w, [tick \in 1 .. ticks |-> tick])

(* Mutant: every settlement charges the whole age of a connection. *)
SinceLearning(b, l) == b.at[l]
(* Age is charged once: from the last change or the last settlement. *)
Since(b, l) == Later(b.at[l], b.mark)

(* ApplyMemoryDynamicsWithEncoding: a duplicate timestamp or a rollback    *)
(* cannot rewind the watermark.                                            *)
Settle(b, now) ==
    IF b.mark # Never /\ now <= b.mark THEN b
    ELSE [b EXCEPT !.mark = now,
                   !.weight = [l \in Link |-> Halved(b.weight[l], now - Since(b, l))]]

(* LastModification is the event's time, also when that is in the past. *)
Change(b, links, new, now) ==
    [b EXCEPT !.weight  = [l \in Link |-> IF l \in links THEN new[l] ELSE b.weight[l]],
              !.at      = [l \in Link |-> IF l \in links THEN now ELSE b.at[l]],
              !.learned = [l \in Link |-> IF l \in links THEN new[l] ELSE b.learned[l]],
              !.from    = [l \in Link |-> IF l \in links THEN Later(now, b.mark) ELSE b.from[l]],
              !.late    = b.late \/ (links # {} /\ b.mark < now)]

Connected(b, l) == b.at[l] # Never
Strengthened(b, links, now) ==
    LET up == [l \in Link |-> Lower(b.weight[l] + 1, GTop)]
    IN Change(b, {l \in links : Connected(b, l)}, up, now)
Weakened(b, links, now) ==
    LET down == [l \in Link |-> Later(b.weight[l] - 1, 1)]
    IN Change(b, {l \in links : Connected(b, l)}, down, now)
(* DynamicState.Reinforce: a running average, or a new connection. *)
Reinforced(b, links, now) ==
    LET half == [l \in Link |-> IF Connected(b, l) THEN (b.weight[l] + GTop + 1) \div 2 ELSE GTop]
    IN Change(b, links, half, now)

Between(from, to) == {l \in Link : l[1] \in from /\ l[2] \in to}

-----------------------------------------------------------------------------
(* Recurrent context.                                                      *)

LastAt(c) == IF c.frames = <<>> THEN Never ELSE c.frames[Len(c.frames)].at

(* ContextState.prepare and the clock check of activateOrderedWith. *)
Discontinuous(m, e) ==
    \/ e.reset
    \/ m.context.open /\ m.context.episode # e.episode
    \/ LastAt(m.context) > e.at
    \/ m.forecast # NoForecast /\ e.at < m.forecast.at

(* ContextState.before: the frames that are not too old. *)
Recent(frames, now) ==
    LET keep(kept, f) == IF now - f.at \in 0 .. GAge THEN Append(kept, f) ELSE kept
    IN FoldLeft(keep, <<>>, frames)
Carried(m, e) ==
    IF ~m.context.open \/ Discontinuous(m, e)
    THEN [NoContext EXCEPT !.episode = e.episode, !.open = TRUE]
    ELSE [m.context EXCEPT !.frames = Recent(@, e.at)]

MembersOf(frames) ==
    LET count(n, f) == n + Cardinality(f.pop) IN FoldLeft(count, 0, frames)
(* The oldest frames leave until the rest fits. *)
Trimmed(frames) ==
    LET fits(k) == /\ Len(frames) - k <= GFrames
                   /\ MembersOf(SubSeq(frames, k + 1, Len(frames))) <= GMembers
        k == CHOOSE i \in 0 .. Len(frames) : fits(i) /\ \A j \in 0 .. i - 1 : ~fits(j)
    IN SubSeq(frames, k + 1, Len(frames))

(* ContextState.observe: a frame larger than the budget is left out.       *)
Remember(c, e) ==
    LET add(d, pop) ==
          IF Cardinality(pop) > GMembers THEN [d EXCEPT !.ordinal = @ + 1]
          ELSE [d EXCEPT !.ordinal = @ + 1,
                         !.frames = Trimmed(Append(@, [pop |-> pop, at |-> e.at, ord |-> d.ordinal + 1]))]
    IN FoldLeft(add, [c EXCEPT !.cue = c.ordinal + 1], e.stimulus)

-----------------------------------------------------------------------------
(* Patterns.                                                               *)

Stem(p) == SubSeq(p, 1, Len(p) - 1)
Taken(p, e) == Lower(Len(p) - 1, Len(e.stimulus))

(* The end of the stem that the stimulus must supply, in order. *)
SuffixMatches(p, e) ==
    LET n == Taken(p, e) IN
    n > 0 /\ \A i \in 1 .. n : Stem(p)[Len(p) - 1 - n + i] \subseteq e.stimulus[Len(e.stimulus) - n + i]

(* Mutant: the order of the context is not required. *)
HistoryMatchesUnordered(missing, frames) ==
    \A i \in DOMAIN missing : \E j \in DOMAIN frames : missing[i] \subseteq frames[j].pop
(* contextMatch: the rest of the stem, in order, with gaps allowed. *)
HistoryMatches(missing, frames) ==
    \E at \in [DOMAIN missing -> DOMAIN frames] :
        /\ \A i, j \in DOMAIN missing : i < j => at[i] < at[j]
        /\ \A i \in DOMAIN missing : missing[i] \subseteq frames[at[i]].pop

Quality(p, e, frames) ==
    SuffixMatches(p, e) /\ HistoryMatches(SubSeq(p, 1, Len(p) - 1 - Taken(p, e)), frames)
(* PredictRecurrent: the matches with the best score are credited.  Which    *)
(* they are depends on how far eligibility has decayed, so all are kept.     *)
Credit(b, e, frames) == {p \in b.patterns : Len(p) > 1 /\ Quality(p, e, frames)}

-----------------------------------------------------------------------------
(* Activation.                                                             *)

Actual(e) == UNION Range(e.stimulus)

(* The forecast that this evidence settles. *)
Boundary(m, e, override) ==
    IF override \/ Discontinuous(m, e) THEN NoForecast ELSE m.forecast
Settles(f, e) == f # NoForecast /\ Actual(e) # {} /\ e.at - f.at \in 0 .. GAge

(* applyObservedFeedback: connections of the forecast's own source, by how *)
(* the evidence differs from what was predicted.                           *)
Feedback(b, source, actual, predicted, now) ==
    Weakened(Strengthened(b, Between(source, actual \ predicted), now),
             Between(source, predicted \ actual), now)

(* ApplyActivityPlasticity: what was observed together. *)
Coactive(b, e) ==
    Strengthened(b, Between(Actual(e), Actual(e)), e.at)

ActivateBrain(b, m, e, predicted, override) ==
    IF Settles(Boundary(m, e, override), e)
    THEN Feedback(Coactive(b, e), Boundary(m, e, override).source, Actual(e), predicted, e.at)
    ELSE Coactive(b, e)

(* Mutant: an outcome with a prediction of its own leaves the forecast be. *)
ForecastKeptByOverride(b, m, e, override) ==
    IF override THEN m.forecast
    ELSE IF Actual(e) = {} THEN NoForecast
    ELSE [episode |-> e.episode, at |-> e.at, source |-> Actual(e),
          credit |-> Credit(b, e, Carried(m, e).frames), of |-> m.count + 1]
(* Every real observation replaces the forecast. *)
Forecast(b, m, e, override) ==
    IF Actual(e) = {} THEN NoForecast
    ELSE [episode |-> e.episode, at |-> e.at, source |-> Actual(e),
          credit |-> Credit(b, e, Carried(m, e).frames), of |-> m.count + 1]

(* History. *)
Watch(m, e) ==
    [m EXCEPT !.last = e.episode,
              !.seen = (IF e.reset \/ e.episode # m.last THEN <<>> ELSE @)
                       \o [i \in DOMAIN e.stimulus |-> [pop |-> e.stimulus[i], at |-> e.at]]]
Account(m, e, f) ==
    IF Settles(f, e)
    THEN {[of |-> f.of, by |-> m.count + 1, gap |-> e.at - f.at, same |-> f.episode = e.episode]}
    ELSE {}

ActivateMind(b, m, e, override) ==
    [Watch(m, e) EXCEPT
        !.context = Remember(Carried(m, e), e),
        !.forecast = Forecast(b, m, e, override),
        !.trace = e.stimulus \o <<{}>> \o e.context,
        !.count = IF Actual(e) # {} THEN @ + 1 ELSE @,
        !.credits = @ \cup Account(m, e, Boundary(m, e, override))]

(* Mutant: an empty event clears the last trace, as older dynamics do. *)
TraceAfterEmptyCleared(m, e) == <<>>
TraceAfterEmpty(m, e) == IF Discontinuous(m, e) THEN <<>> ELSE m.trace
(* An event without populations carries the context on and thinks. *)
Idle(m, e) ==
    [Watch(m, e) EXCEPT
        !.context = Carried(m, e),
        !.forecast = IF Discontinuous(m, e) THEN NoForecast ELSE @,
        !.trace = TraceAfterEmpty(m, e)]

Empty(e) == e.stimulus = <<>> /\ e.context = <<>>
Activate(s, e, predicted, override) ==
    IF Empty(e) THEN [s EXCEPT !.mind = Idle(s.mind, e)]
    ELSE [brain |-> ActivateBrain(s.brain, s.mind, e, predicted, override),
          mind  |-> ActivateMind(s.brain, s.mind, e, override)]

-----------------------------------------------------------------------------
(* Transitions.                                                            *)

(* Mutant: only an explicit reset forgets the predecessor. *)
ForgetPriorOnReset(m, e) == IF e.reset THEN [m EXCEPT !.prior = NoPrior] ELSE m
(* resetTemporalContextLocked *)
ForgetPrior(m, e) ==
    IF \/ e.reset
       \/ m.context.open /\ m.context.episode # e.episode
       \/ ~m.context.open /\ e.episode # ""
       \/ m.prior.at > e.at
    THEN [m EXCEPT !.prior = NoPrior] ELSE m

(* learnObservedTransitionLocked *)
Transition(s, pop, episode, now) ==
    IF pop = {} THEN [s EXCEPT !.mind.prior = NoPrior]
    ELSE [brain |-> Reinforced(Settle(s.brain, now), Between(s.mind.prior.pop, pop), now),
          mind  |-> [s.mind EXCEPT
                       !.prior = [pop |-> pop, at |-> now, episode |-> episode],
                       !.crossed = @ \/ (s.mind.prior # NoPrior /\
                                         (s.mind.prior.episode # episode \/ s.mind.prior.at > now))]]

-----------------------------------------------------------------------------
(* Experiences. *)

First(pop) == CHOOSE u \in pop : \A v \in pop : u <= v
(* LearnExperienceWithDynamics: other successors of the first step lose,   *)
(* each step is connected to the next, and the sequence becomes a pattern. *)
Taught(b, p, now) ==
    IF p = <<>> THEN b ELSE
    LET target(i) == IF i = Len(p) THEN p[i] ELSE {First(p[i])}
        connect(c, i) == Reinforced(c, Between({First(p[i - 1])}, target(i)), now)
        others == Between(p[1], GUnit \ p[2])
    IN [FoldLeft(connect, Weakened(b, others, now), [i \in 1 .. Len(p) - 1 |-> i + 1])
        EXCEPT !.patterns = @ \cup {p}]

-----------------------------------------------------------------------------
(* Commands.  All but outcomes settle retention at their time, before      *)
(* anything is learned.                                                    *)

Become(s) == gRev < MaxGRev /\ gRev' = gRev + 1 /\ gBrain' = s.brain /\ gMind' = s.mind
Settled(now) == [brain |-> Settle(gBrain, now), mind |-> gMind]

Stamped(i, now) == [episode |-> i.episode, reset |-> i.reset, stimulus |-> i.stimulus,
                  context |-> i.context, at |-> now]
Routed(s, e) == [s EXCEPT !.mind = ForgetPrior(s.mind, e)]

Process(e, predicted) ==
    Become(Activate(Routed(Settled(e.at), e), e, predicted, FALSE))

(* applyObservationCommandLocked: p is the experience that comes with it. *)
Observed(s, e, p, predicted, override) ==
    LET t == Transition(Activate(Routed(s, e), e, predicted, override), Actual(e), e.episode, e.at)
    IN [t EXCEPT !.brain = Taught(@, p, e.at)]
Observe(e, p, predicted) == Become(Observed(Settled(e.at), e, p, predicted, FALSE))

(* One frame of one session, not before the last observation. *)
Sense(e, predicted) ==
    /\ Len(e.stimulus) = 1 /\ e.context = <<>> /\ ~e.reset
    /\ e.at >= gMind.prior.at
    /\ Become(Observed(Settled(e.at), e, <<>>, predicted, FALSE))

Think(now) == Become(Settled(now))

LearnExperience(p, now) == Become([Settled(now) EXCEPT !.brain = Taught(@, p, now)])

(* The exposures of an imported document are observations without an       *)
(* episode; the transition is learned before the exposure is activated. The *)
(* states before and after may be connected as well (LearnVectorTransition).*)
ImportKnowledge(p, states, now, predicted) ==
    LET exposure(pop) == [episode |-> "", reset |-> FALSE, stimulus |-> <<pop>>,
                          context |-> <<>>, at |-> now]
        expose(s, pop) ==
            Activate(Transition(s, pop, "", now), exposure(pop), predicted, FALSE)
        prepared == [Routed(Settled(now), exposure({})) EXCEPT !.brain = Reinforced(@, states, now)]
    IN Become(FoldLeft(expose, prepared, p))

(* applyOutcomeLocked: only a promotion settles and reinforces. *)
PromoteSynapse(l, now) ==
    /\ Connected(gBrain, l)
    /\ Become([Settled(now) EXCEPT !.brain = Strengthened(@, {l}, now)])

(* The outcome of an executed inquiry may promote bound connections.  It is *)
(* judged against the prediction captured before the action; the bound      *)
(* targets get the credit, every eligible connection the consequence, which *)
(* is good or bad (AssessConsequence).                                      *)
InquiryOutcome(e, p, q, predicted) ==
    /\ e.stimulus # <<>>
    /\ LET known == [Settled(e.at) EXCEPT !.brain = Strengthened(@, q.promoted, e.at)]
           s == Observed(known, e, p, predicted, TRUE)
           credited == Feedback(s.brain, q.targets, Actual(e), predicted, e.at)
       IN Become([s EXCEPT !.brain = IF q.good THEN Strengthened(credited, q.eligible, e.at)
                                     ELSE Weakened(credited, q.eligible, e.at)])

GNext ==
    \/ \E i \in GInput, now \in GTime, predicted \in GPredicted :
         \/ Process(Stamped(i, now), predicted)
         \/ Sense(Stamped(i, now), predicted)
         \/ \E p \in GLesson \cup {<<>>} : Observe(Stamped(i, now), p, predicted)
         \/ \E p \in GLesson \cup {<<>>}, q \in GInquiry :
              InquiryOutcome(Stamped(i, now), p, q, predicted)
    \/ \E now \in GTime :
         \/ Think(now)
         \/ \E p \in GLesson : LearnExperience(p, now)
         \/ \E p \in GLesson, predicted \in GPredicted :
              \E states \in {{}, Between(p[1], p[Len(p)])} : ImportKnowledge(p, states, now, predicted)
         \/ \E l \in Link : PromoteSynapse(l, now)

GSpec == GInit /\ [][GNext]_gVars

-----------------------------------------------------------------------------
(* Properties.                                                             *)

(* MEMORY: however commands, settlements and out-of-order timestamps       *)
(* interleave, a connection has lost exactly the time since it was last    *)
(* learned, once, and nothing is learned on top of a weight that has not   *)
(* paid for the time until then (settleMemoryTimeLocked).                  *)
RetentionExact ==
    /\ ~gBrain.late
    /\ \A l \in Link : gBrain.weight[l] = Halved(gBrain.learned[l], gBrain.mark - gBrain.from[l])

(* A forecast is judged by the next real observation or not at all: never  *)
(* by a later one, one of another episode, an earlier time, or one more    *)
(* than ContextMaxAge later (applyObservedFeedback).                       *)
CreditedOnce ==
    \A c \in gMind.credits : c.by = c.of + 1 /\ c.gap \in 0 .. GAge /\ c.same

(* A pattern is credited in a forecast only if its whole cue was observed, *)
(* in order, in this episode and within ContextMaxAge (PredictRecurrent).  *)
CreditSupported ==
    \A p \in gMind.forecast.credit :
      \E at \in [1 .. Len(p) - 1 -> DOMAIN gMind.seen] :
        /\ \A i, j \in DOMAIN at : i < j => at[i] < at[j]
        /\ \A i \in DOMAIN at : LET f == gMind.seen[at[i]] IN
             p[i] \subseteq f.pop /\ gMind.forecast.at - f.at \in 0 .. GAge

(* A checkpoint taken at any revision passes the checks a restore applies  *)
(* to its continuation (ContextState.Validate, validateObservationPrediction). *)
ContinuationRestores ==
    LET c == gMind.context f == gMind.forecast n == Len(c.frames) IN
    /\ n <= GFrames /\ MembersOf(c.frames) <= GMembers
    /\ n > 0 => c.cue > 0
    /\ c.cue <= c.ordinal + 1
    /\ \A i \in 1 .. n : c.frames[i].ord <= c.ordinal
    /\ \A i \in 2 .. n : c.frames[i - 1].ord < c.frames[i].ord /\ c.frames[i - 1].at <= c.frames[i].at
    /\ f # NoForecast =>
         /\ gMind.trace # <<>>
         /\ \E k \in DOMAIN gMind.trace :
              gMind.trace[k] = {} /\ UNION Range(SubSeq(gMind.trace, 1, k - 1)) = f.source
         /\ c.open /\ c.episode = f.episode
         /\ LastAt(c) <= f.at
         /\ n > 0 /\ c.frames[n].ord >= c.cue => c.frames[n].at = f.at
         /\ f.credit \subseteq gBrain.patterns

(* A transition is learned only between two observations of one episode,   *)
(* in the order of their times (learnObservedTransitionLocked).            *)
TransitionsWithinEpisode == ~gMind.crossed
=============================================================================
