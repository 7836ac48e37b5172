--------------------------- MODULE CognitionProofs ---------------------------
(***************************************************************************)
(* What the continuation of the mind and the verdicts of the thinking      *)
(* engine keep for any inputs, in any order: forecasts that are judged     *)
(* once, transitions within an episode, decay for exactly the time since a *)
(* connection was learned, credit for patterns that were seen whole, and   *)
(* verdicts that follow what memory states.                                *)
(* Folds over data are unfolded here by induction on the natural numbers,  *)
(* in a form that speaks of sets only.                                     *)
(***************************************************************************)
EXTENDS Cognition, Thinking, FoldTheorems, FiniteSetTheorems, SequenceTheorems, TLAPS

-----------------------------------------------------------------------------
(* Contexts.                                                               *)

IsContext(c) == DOMAIN c = {"episode", "ordinal", "cue", "frames", "open"}

(* The step of Remember.                                                   *)
Added(e, d, pop) ==
    IF Cardinality(pop) > GMembers THEN [d EXCEPT !.ordinal = @ + 1]
    ELSE [d EXCEPT !.ordinal = @ + 1,
                   !.frames = Trimmed(Append(@, [pop |-> pop, at |-> e.at, ord |-> d.ordinal + 1]))]

RememberedBy(f, n, e, c) ==
    f = [s \in SUBSET (1 .. n) |->
            IF s = {} THEN c ELSE Added(e, f[s \ {Max(s)}], e.stimulus[Max(s)])]

LEMMA RememberExists ==
    ASSUME NEW e, NEW c, NEW n \in Nat
    PROVE  \E f : RememberedBy(f, n, e, c)
<1> DEFINE T == {k \in Nat : \E f : RememberedBy(f, k, e, c)}
<1>1. 0 \in T
  <2>1. SUBSET (1 .. 0) = {{}}
    OBVIOUS
  <2> DEFINE g == [s \in SUBSET (1 .. 0) |-> c]
  <2>2. RememberedBy(g, 0, e, c)
    BY <2>1 DEF RememberedBy
  <2> QED
    BY <2>2
<1>2. ASSUME NEW k \in Nat, k \in T PROVE k + 1 \in T
  <2>1. PICK f : RememberedBy(f, k, e, c)
    BY <1>2
  <2> DEFINE g == [s \in SUBSET (1 .. k + 1) |->
                      IF k + 1 \in s THEN Added(e, f[s \ {k + 1}], e.stimulus[k + 1]) ELSE f[s]]
  <2>2. ASSUME NEW s \in SUBSET (1 .. k + 1)
        PROVE  g[s] = IF s = {} THEN c ELSE Added(e, g[s \ {Max(s)}], e.stimulus[Max(s)])
    <3>1. CASE k + 1 \in s
      <4>1. Max(s) = k + 1 /\ s \ {Max(s)} \in SUBSET (1 .. k) /\ s # {}
        BY <3>1, LastFolded
      <4>2. s \ {Max(s)} \in SUBSET (1 .. k + 1) /\ k + 1 \notin s \ {Max(s)}
        BY <4>1
      <4>3. g[s \ {Max(s)}] = f[s \ {Max(s)}]
        BY <4>2
      <4>4. g[s] = Added(e, f[s \ {k + 1}], e.stimulus[k + 1])
        BY <3>1
      <4> QED
        BY <4>1, <4>3, <4>4
    <3>2. CASE k + 1 \notin s
      <4>1. s \in SUBSET (1 .. k) /\ g[s] = f[s]
        BY <3>2, LastFolded
      <4>2. \A t \in SUBSET (1 .. k) : t \in SUBSET (1 .. k + 1) /\ k + 1 \notin t
        OBVIOUS
      <4>3. s \ {Max(s)} \in SUBSET (1 .. k) /\ g[s \ {Max(s)}] = f[s \ {Max(s)}]
        BY <4>1, <4>2
      <4>4. f[s] = IF s = {} THEN c ELSE Added(e, f[s \ {Max(s)}], e.stimulus[Max(s)])
        BY <2>1, <4>1, Zenon DEF RememberedBy
      <4> QED
        BY <4>1, <4>3, <4>4
    <3> QED
      BY <3>1, <3>2
  <2> HIDE DEF g
  <2>3. g = [s \in SUBSET (1 .. k + 1) |-> g[s]]
    BY DEF g
  <2>4. RememberedBy(g, k + 1, e, c)
    BY <2>2, <2>3, Zenon DEF RememberedBy
  <2> QED
    BY <2>4
<1> HIDE DEF T
<1>3. Nat \subseteq T
  BY <1>1, <1>2, Induction
<1> QED
  BY <1>3 DEF T

Cued(c) == [c EXCEPT !.cue = c.ordinal + 1]

LEMMA RememberUnfolds ==
    ASSUME NEW c, NEW e, NEW n \in Nat, DOMAIN e.stimulus = 1 .. n
    PROVE  \E f : RememberedBy(f, n, e, Cued(c)) /\ Remember(c, e) = f[1 .. n]
<1> DEFINE it == CHOOSE f : f = [s \in SUBSET DOMAIN e.stimulus |->
                     IF s = {} THEN Cued(c) ELSE Added(e, f[s \ {Max(s)}], e.stimulus[Max(s)])]
<1>1. Remember(c, e) = it[DOMAIN e.stimulus]
  BY Zenon DEF Remember, FoldLeft, MapThenFoldSet, Added, Cued
<1>2. it = CHOOSE f : RememberedBy(f, n, e, Cued(c))
  BY Zenon DEF RememberedBy
<1>3. RememberedBy(it, n, e, Cued(c))
  <2> HIDE DEF it
  <2> QED
    BY <1>2, RememberExists, Zenon
<1> QED
  BY <1>1, <1>3

(* Adding populations leaves the episode of a context alone.               *)
LEMMA RememberKeeps ==
    ASSUME NEW c, IsContext(c), NEW e, NEW n \in Nat, DOMAIN e.stimulus = 1 .. n
    PROVE  /\ IsContext(Remember(c, e))
           /\ Remember(c, e).open = c.open /\ Remember(c, e).episode = c.episode
<1> DEFINE Good(d) == IsContext(d) /\ d.open = c.open /\ d.episode = c.episode
<1>1. PICK f : RememberedBy(f, n, e, Cued(c)) /\ Remember(c, e) = f[1 .. n]
  BY RememberUnfolds
<1>2. Good(Cued(c))
  BY DEF IsContext, Cued
<1>3. ASSUME NEW d, Good(d), NEW pop PROVE Good(Added(e, d, pop))
  BY <1>3 DEF IsContext, Added
<1> DEFINE T == {k \in Nat : \A s \in SUBSET (1 .. n) : s \subseteq 1 .. k => Good(f[s])}
<1>4. 0 \in T
  <2>1. \A s : s \subseteq 1 .. 0 => s = {}
    OBVIOUS
  <2>2. {} \in SUBSET (1 .. n)
    OBVIOUS
  <2>3. f[{}] = Cued(c)
    BY <1>1, <2>2, Zenon DEF RememberedBy
  <2> QED
    BY <1>2, <2>1, <2>3
<1>5. ASSUME NEW k \in Nat, k \in T PROVE k + 1 \in T
  <2> SUFFICES ASSUME NEW s \in SUBSET (1 .. n), s \subseteq 1 .. k + 1 PROVE Good(f[s])
    OBVIOUS
  <2>1. CASE k + 1 \in s
    <3>1. s # {} /\ s \ {Max(s)} \in SUBSET (1 .. k) /\ s \ {Max(s)} \in SUBSET (1 .. n)
      BY <2>1, LastFolded
    <3>2. f[s] = Added(e, f[s \ {Max(s)}], e.stimulus[Max(s)])
      BY <1>1, <3>1, Zenon DEF RememberedBy
    <3>3. Good(f[s \ {Max(s)}])
      BY <1>5, <3>1
    <3> QED
      BY <1>3, <3>2, <3>3
  <2>2. CASE k + 1 \notin s
    BY <1>5, <2>2, LastFolded
  <2> QED
    BY <2>1, <2>2
<1>6. n \in T
  <2> HIDE DEF T
  <2>1. Nat \subseteq T
    BY <1>4, <1>5, Induction
  <2> QED
    BY <2>1
<1> QED
  BY <1>1, <1>6

-----------------------------------------------------------------------------
(* The continuation: its inductive invariant.                              *)

IsMind(m) ==
    DOMAIN m = {"context", "forecast", "trace", "prior", "count", "last", "seen", "credits", "crossed"}

(* The forecast was made from the newest observation, in the episode of    *)
(* the context; what has been judged was judged in order.                  *)
Judged(m) ==
    /\ IsMind(m) /\ IsContext(m.context) /\ m.count \in Nat
    /\ m.forecast # NoForecast =>
          /\ m.forecast.of = m.count
          /\ m.context.open /\ m.context.episode = m.forecast.episode
    /\ \A c \in m.credits : c.by = c.of + 1 /\ c.gap \in 0 .. GAge /\ c.same
    /\ m.crossed = FALSE

NoEpisode == ""

(* The predecessor of the next transition is of the context's episode.     *)
SameEpisode(m) ==
    m.prior # NoPrior =>
        m.prior.episode = IF m.context.open THEN m.context.episode ELSE NoEpisode

MindInd(m) == Judged(m) /\ SameEpisode(m)

(* A predecessor that an event of this episode and time may follow.        *)
Follows(m, episode, now) ==
    m.prior # NoPrior => m.prior.episode = episode /\ ~(m.prior.at > now)

IsState(s) == DOMAIN s = {"brain", "mind"}

LEMMA CarriedContext ==
    ASSUME NEW m, Judged(m), NEW e
    PROVE  /\ IsContext(Carried(m, e)) /\ Carried(m, e).open /\ Carried(m, e).episode = e.episode
           /\ (~Discontinuous(m, e) /\ m.forecast # NoForecast) => m.forecast.episode = e.episode
<1>1. CASE ~m.context.open \/ Discontinuous(m, e)
  <2>1. Carried(m, e) = [NoContext EXCEPT !.episode = e.episode, !.open = TRUE]
    BY <1>1 DEF Carried
  <2> QED
    BY <1>1, <2>1 DEF Judged, NoContext, IsContext
<1>2. CASE ~(~m.context.open \/ Discontinuous(m, e))
  <2>1. m.context.episode = e.episode /\ m.context.open
    BY <1>2 DEF Discontinuous
  <2>2. \E frames : Carried(m, e) = [m.context EXCEPT !.frames = frames]
    BY <1>2 DEF Carried
  <2> QED
    BY <2>1, <2>2 DEF Judged, IsContext
<1> QED
  BY <1>1, <1>2

(* An event keeps the predecessor and moves the context to its episode.    *)
LEMMA ActivationJudges ==
    ASSUME NEW s, IsState(s), Judged(s.mind), NEW e, NEW n \in Nat, DOMAIN e.stimulus = 1 .. n,
           NEW predicted, NEW override \in BOOLEAN
    PROVE  LET t == Activate(s, e, predicted, override) IN
           /\ IsState(t) /\ Judged(t.mind) /\ t.mind.prior = s.mind.prior
           /\ t.mind.context.open /\ t.mind.context.episode = e.episode
<1> DEFINE m == s.mind
           t == Activate(s, e, predicted, override)
           carried == Carried(m, e)
<1>1. /\ IsContext(carried) /\ carried.open /\ carried.episode = e.episode
      /\ (~Discontinuous(m, e) /\ m.forecast # NoForecast) => m.forecast.episode = e.episode
  BY CarriedContext
<1>3. CASE Empty(e)
  <2>1. IsState(t) /\ t.mind = Idle(m, e)
    BY <1>3 DEF Activate, IsState
  <2> HIDE DEF t, carried
  <2>3. /\ t.mind.context = carried /\ t.mind.count = m.count /\ t.mind.credits = m.credits
        /\ t.mind.prior = m.prior /\ t.mind.crossed = m.crossed /\ IsMind(t.mind)
        /\ t.mind.forecast = IF Discontinuous(m, e) THEN NoForecast ELSE m.forecast
    BY <2>1 DEF Idle, Watch, Judged, IsMind, carried
  <2>4. Judged(t.mind)
    BY <1>1, <2>3 DEF Judged
  <2> QED
    BY <1>1, <2>1, <2>3, <2>4 DEF t
<1>4. CASE ~Empty(e)
  <2>1. IsState(t) /\ t.mind = ActivateMind(s.brain, m, e, override)
    BY <1>4 DEF Activate, IsState
  <2> DEFINE f == Boundary(m, e, override)
  <2> HIDE DEF t, carried, f
  <2>3. /\ t.mind.context = Remember(carried, e)
        /\ t.mind.count = IF Actual(e) # {} THEN m.count + 1 ELSE m.count
        /\ t.mind.credits = m.credits \cup Account(m, e, f)
        /\ t.mind.prior = m.prior /\ t.mind.crossed = m.crossed /\ IsMind(t.mind)
        /\ t.mind.forecast = Forecast(s.brain, m, e, override)
    BY <2>1 DEF ActivateMind, Watch, Judged, IsMind, carried, f
  <2>4. /\ IsContext(Remember(carried, e))
        /\ Remember(carried, e).open = carried.open /\ Remember(carried, e).episode = carried.episode
    BY <1>1, RememberKeeps
  <2>5. \A c \in Account(m, e, f) : c.by = c.of + 1 /\ c.gap \in 0 .. GAge /\ c.same
    <3>1. CASE Settles(f, e)
      <4>1. f = m.forecast /\ ~Discontinuous(m, e) /\ m.forecast # NoForecast
        BY <3>1 DEF f, Boundary, Settles
      <4>2. f.of = m.count /\ f.episode = e.episode /\ e.at - f.at \in 0 .. GAge
        BY <1>1, <3>1, <4>1 DEF Judged, Settles
      <4>3. Account(m, e, f) = {[of |-> f.of, by |-> m.count + 1, gap |-> e.at - f.at,
                                 same |-> f.episode = e.episode]}
        BY <3>1 DEF Account
      <4>4. SUFFICES ASSUME NEW c \in Account(m, e, f) PROVE c.by = c.of + 1 /\ c.gap \in 0 .. GAge /\ c.same
        OBVIOUS
      <4>5. c.by = m.count + 1 /\ c.of = f.of /\ c.gap = e.at - f.at
        BY <4>3
      <4>6. c.same
        <5>1. (f.episode = e.episode) = TRUE
          BY <4>2
        <5>2. c = [of |-> f.of, by |-> m.count + 1, gap |-> e.at - f.at, same |-> TRUE]
          BY <4>3, <5>1
        <5> QED
          BY <5>2
      <4> QED
        BY <4>2, <4>5, <4>6
    <3>2. CASE ~Settles(f, e)
      BY <3>2 DEF Account
    <3> QED
      BY <3>1, <3>2
  <2>6. t.mind.forecast # NoForecast => t.mind.forecast.of = t.mind.count /\ t.mind.forecast.episode = e.episode
    BY <2>3 DEF Forecast
  <2>7. Judged(t.mind)
    BY <1>1, <2>3, <2>4, <2>5, <2>6 DEF Judged
  <2> QED
    BY <1>1, <2>1, <2>3, <2>4, <2>7 DEF t
<1> QED
  BY <1>3, <1>4

(* What is forgotten before an event leaves a predecessor it may follow.   *)
LEMMA ForgettingFollows ==
    ASSUME NEW m, MindInd(m), NEW e
    PROVE  MindInd(ForgetPrior(m, e)) /\ Follows(ForgetPrior(m, e), e.episode, e.at)
<1>1. CASE ForgetPrior(m, e) = [m EXCEPT !.prior = NoPrior]
  BY <1>1 DEF MindInd, Judged, IsMind, SameEpisode, Follows
<1>2. CASE ForgetPrior(m, e) # [m EXCEPT !.prior = NoPrior]
  <2>1. /\ ForgetPrior(m, e) = m
        /\ ~(m.context.open /\ m.context.episode # e.episode)
        /\ ~(~m.context.open /\ e.episode # "")
        /\ ~(m.prior.at > e.at)
    BY <1>2 DEF ForgetPrior
  <2> QED
    BY <2>1 DEF MindInd, SameEpisode, Follows, NoEpisode
<1> QED
  BY <1>1, <1>2

(* The transition is within the episode, and its end is the predecessor of *)
(* the next.                                                               *)
LEMMA TransitionFollows ==
    ASSUME NEW s, IsState(s), Judged(s.mind), NEW pop, NEW episode, NEW now \in Int,
           Follows(s.mind, episode, now)
    PROVE  LET t == Transition(s, pop, episode, now) IN
           /\ IsState(t) /\ Judged(t.mind) /\ Follows(t.mind, episode, now)
           /\ t.mind.context = s.mind.context
<1> DEFINE t == Transition(s, pop, episode, now)
           m == s.mind
<1>1. CASE pop = {}
  <2>1. IsState(t) /\ t.mind = [m EXCEPT !.prior = NoPrior]
    BY <1>1 DEF Transition, IsState
  <2> HIDE DEF t
  <2>2. Judged(t.mind) /\ Follows(t.mind, episode, now) /\ t.mind.context = m.context
    BY <2>1 DEF Judged, IsMind, Follows
  <2> QED
    BY <2>1, <2>2 DEF t
<1>2. CASE pop # {}
  <2> DEFINE across == m.prior # NoPrior /\ (m.prior.episode # episode \/ m.prior.at > now)
  <2>1. IsState(t) /\ t.mind = [m EXCEPT !.prior = [pop |-> pop, at |-> now, episode |-> episode],
                                         !.crossed = @ \/ across]
    BY <1>2 DEF Transition, IsState
  <2>2. (m.crossed \/ across) = FALSE
    BY DEF Follows, Judged
  <2> HIDE DEF t, across
  <2>3. /\ t.mind.prior = [pop |-> pop, at |-> now, episode |-> episode]
        /\ t.mind.crossed = FALSE
    BY <2>1, <2>2 DEF Judged, IsMind
  <2>4. Follows(t.mind, episode, now)
    BY <2>3 DEF Follows
  <2>5. Judged(t.mind) /\ t.mind.context = m.context
    BY <2>1, <2>3 DEF Judged, IsMind
  <2> QED
    BY <2>1, <2>4, <2>5 DEF t
<1> QED
  BY <1>1, <1>2

(* A whole observation, whatever it settled, learned and was promoted.     *)
LEMMA ObservedInd ==
    ASSUME NEW s, IsState(s), MindInd(s.mind), NEW e, NEW n \in Nat, DOMAIN e.stimulus = 1 .. n,
           e.at \in Int, NEW p, NEW predicted, NEW override \in BOOLEAN
    PROVE  IsState(Observed(s, e, p, predicted, override)) /\ MindInd(Observed(s, e, p, predicted, override).mind)
<1> DEFINE r == Routed(s, e)
           a == Activate(r, e, predicted, override)
           t == Transition(a, Actual(e), e.episode, e.at)
           o == Observed(s, e, p, predicted, override)
<1>1. IsState(r) /\ r.mind = ForgetPrior(s.mind, e)
  BY DEF Routed, IsState
<1>2. Judged(r.mind) /\ Follows(r.mind, e.episode, e.at)
  BY <1>1, ForgettingFollows DEF MindInd
<1>3. /\ IsState(a) /\ Judged(a.mind) /\ a.mind.prior = r.mind.prior
      /\ a.mind.context.open /\ a.mind.context.episode = e.episode
  <2> HIDE DEF r
  <2> QED
    BY <1>1, <1>2, ActivationJudges
<1>4. Follows(a.mind, e.episode, e.at)
  BY <1>2, <1>3 DEF Follows
<1>5. IsState(t) /\ Judged(t.mind) /\ Follows(t.mind, e.episode, e.at) /\ t.mind.context = a.mind.context
  <2> HIDE DEF a
  <2> QED
    BY <1>3, <1>4, TransitionFollows
<1>6. o = [t EXCEPT !.brain = Taught(@, p, e.at)]
  BY Zenon DEF Observed
<1>7. IsState(o) /\ o.mind = t.mind
  <2> HIDE DEF t, o
  <2> QED
    BY <1>5, <1>6 DEF IsState
<1>8. SameEpisode(t.mind)
  <2> HIDE DEF t, a
  <2> QED
    BY <1>3, <1>5 DEF SameEpisode, Follows
<1> QED
  BY <1>5, <1>7, <1>8 DEF MindInd

(* The step of ImportKnowledge.                                            *)
Exposure(pop, now) ==
    [episode |-> NoEpisode, reset |-> FALSE, stimulus |-> <<pop>>, context |-> <<>>, at |-> now]
Exposed(s, pop, now, predicted) ==
    Activate(Transition(s, pop, NoEpisode, now), Exposure(pop, now), predicted, FALSE)

ImportedBy(f, n, p, s0, now, predicted) ==
    f = [s \in SUBSET (1 .. n) |->
            IF s = {} THEN s0 ELSE Exposed(f[s \ {Max(s)}], p[Max(s)], now, predicted)]

LEMMA ImportExists ==
    ASSUME NEW p, NEW s0, NEW now, NEW predicted, NEW n \in Nat
    PROVE  \E f : ImportedBy(f, n, p, s0, now, predicted)
<1> DEFINE T == {k \in Nat : \E f : ImportedBy(f, k, p, s0, now, predicted)}
<1>1. 0 \in T
  <2>1. SUBSET (1 .. 0) = {{}}
    OBVIOUS
  <2> DEFINE g == [s \in SUBSET (1 .. 0) |-> s0]
  <2>2. ImportedBy(g, 0, p, s0, now, predicted)
    BY <2>1 DEF ImportedBy
  <2> QED
    BY <2>2
<1>2. ASSUME NEW k \in Nat, k \in T PROVE k + 1 \in T
  <2>1. PICK f : ImportedBy(f, k, p, s0, now, predicted)
    BY <1>2
  <2> DEFINE g == [s \in SUBSET (1 .. k + 1) |->
                      IF k + 1 \in s THEN Exposed(f[s \ {k + 1}], p[k + 1], now, predicted) ELSE f[s]]
  <2>2. ASSUME NEW s \in SUBSET (1 .. k + 1)
        PROVE  g[s] = IF s = {} THEN s0 ELSE Exposed(g[s \ {Max(s)}], p[Max(s)], now, predicted)
    <3>1. CASE k + 1 \in s
      <4>1. Max(s) = k + 1 /\ s \ {Max(s)} \in SUBSET (1 .. k) /\ s # {}
        BY <3>1, LastFolded
      <4>2. s \ {Max(s)} \in SUBSET (1 .. k + 1) /\ k + 1 \notin s \ {Max(s)}
        BY <4>1
      <4>3. g[s \ {Max(s)}] = f[s \ {Max(s)}]
        BY <4>2
      <4>4. g[s] = Exposed(f[s \ {k + 1}], p[k + 1], now, predicted)
        BY <3>1
      <4> QED
        BY <4>1, <4>3, <4>4
    <3>2. CASE k + 1 \notin s
      <4>1. s \in SUBSET (1 .. k) /\ g[s] = f[s]
        BY <3>2, LastFolded
      <4>2. \A t \in SUBSET (1 .. k) : t \in SUBSET (1 .. k + 1) /\ k + 1 \notin t
        OBVIOUS
      <4>3. s \ {Max(s)} \in SUBSET (1 .. k) /\ g[s \ {Max(s)}] = f[s \ {Max(s)}]
        BY <4>1, <4>2
      <4>4. f[s] = IF s = {} THEN s0 ELSE Exposed(f[s \ {Max(s)}], p[Max(s)], now, predicted)
        BY <2>1, <4>1, Zenon DEF ImportedBy
      <4> QED
        BY <4>1, <4>3, <4>4
    <3> QED
      BY <3>1, <3>2
  <2> HIDE DEF g
  <2>3. g = [s \in SUBSET (1 .. k + 1) |-> g[s]]
    BY DEF g
  <2>4. ImportedBy(g, k + 1, p, s0, now, predicted)
    BY <2>2, <2>3, Zenon DEF ImportedBy
  <2> QED
    BY <2>4
<1> HIDE DEF T
<1>3. Nat \subseteq T
  BY <1>1, <1>2, Induction
<1> QED
  BY <1>3 DEF T

(* A state that an exposure may follow.                                    *)
Ready(s, now) == IsState(s) /\ MindInd(s.mind) /\ Follows(s.mind, NoEpisode, now)

(* An exposure leaves a state that the next may follow.                    *)
LEMMA ExposedReady ==
    ASSUME NEW now \in Int, NEW s, Ready(s, now), NEW pop, NEW predicted
    PROVE  Ready(Exposed(s, pop, now, predicted), now)
<1> DEFINE t == Transition(s, pop, NoEpisode, now)
           e == Exposure(pop, now)
           a == Activate(t, e, predicted, FALSE)
<1>1. IsState(t) /\ Judged(t.mind) /\ Follows(t.mind, NoEpisode, now)
  BY TransitionFollows DEF Ready, MindInd
<1>2. PICK one \in Nat : DOMAIN e.stimulus = 1 .. one
  <2>1. e.stimulus = <<pop>>
    BY DEF Exposure
  <2>2. DOMAIN <<pop>> = 1 .. 1
    OBVIOUS
  <2> QED
    BY <2>1, <2>2
<1>5. e.episode = NoEpisode
  BY DEF Exposure
<1>3. /\ IsState(a) /\ Judged(a.mind) /\ a.mind.prior = t.mind.prior
      /\ a.mind.context.open /\ a.mind.context.episode = NoEpisode
  <2> DEFINE override == FALSE
             b == Activate(t, e, predicted, override)
  <2>1. override \in BOOLEAN
    OBVIOUS
  <2> HIDE DEF t, e, override
  <2>2. /\ IsState(b) /\ Judged(b.mind) /\ b.mind.prior = t.mind.prior
        /\ b.mind.context.open /\ b.mind.context.episode = e.episode
    BY <1>1, <1>2, <2>1, ActivationJudges
  <2>3. b = a
    BY DEF override
  <2> HIDE DEF a, b
  <2> QED
    BY <1>5, <2>2, <2>3
<1>4. SameEpisode(a.mind) /\ Follows(a.mind, NoEpisode, now)
  <2> HIDE DEF a, t
  <2> QED
    BY <1>1, <1>3 DEF SameEpisode, Follows
<1> QED
  BY <1>3, <1>4 DEF Ready, MindInd, Exposed

LEMMA ImportInd ==
    ASSUME NEW s0, IsState(s0), NEW now \in Int, MindInd(s0.mind), Follows(s0.mind, NoEpisode, now),
           NEW p, NEW predicted, NEW n \in Nat, NEW f, ImportedBy(f, n, p, s0, now, predicted)
    PROVE  IsState(f[1 .. n]) /\ MindInd(f[1 .. n].mind)
<1>1. ASSUME NEW s, Ready(s, now), NEW pop PROVE Ready(Exposed(s, pop, now, predicted), now)
  BY <1>1, ExposedReady
<1>2. Ready(s0, now)
  BY DEF Ready
<1> DEFINE T == {k \in Nat : \A s \in SUBSET (1 .. n) : s \subseteq 1 .. k => Ready(f[s], now)}
<1>4. 0 \in T
  <2>1. \A s : s \subseteq 1 .. 0 => s = {}
    OBVIOUS
  <2>2. {} \in SUBSET (1 .. n)
    OBVIOUS
  <2>3. f[{}] = s0
    BY <2>2, Zenon DEF ImportedBy
  <2> QED
    BY <1>2, <2>1, <2>3
<1>5. ASSUME NEW k \in Nat, k \in T PROVE k + 1 \in T
  <2>0. k + 1 \in Nat
    OBVIOUS
  <2> SUFFICES \A s \in SUBSET (1 .. n) : s \subseteq 1 .. k + 1 => Ready(f[s], now)
    BY <2>0, Zenon
  <2> SUFFICES ASSUME NEW s \in SUBSET (1 .. n), s \subseteq 1 .. k + 1 PROVE Ready(f[s], now)
    OBVIOUS
  <2>1. CASE k + 1 \in s
    <3>1. s # {} /\ s \ {Max(s)} \in SUBSET (1 .. k) /\ s \ {Max(s)} \in SUBSET (1 .. n)
      BY <2>1, LastFolded
    <3>2. f[s] = Exposed(f[s \ {Max(s)}], p[Max(s)], now, predicted)
      BY <3>1, Zenon DEF ImportedBy
    <3>3. Ready(f[s \ {Max(s)}], now)
      BY <1>5, <3>1
    <3> QED
      BY <1>1, <3>2, <3>3
  <2>2. CASE k + 1 \notin s
    BY <1>5, <2>2, LastFolded
  <2> QED
    BY <2>1, <2>2
<1>6. n \in T
  <2> HIDE DEF T
  <2>1. Nat \subseteq T
    BY <1>4, <1>5, Induction
  <2> QED
    BY <2>1
<1>7. Ready(f[1 .. n], now)
  BY <1>6
<1> QED
  BY <1>7 DEF Ready

Prepared(states, now) ==
    [Routed(Settled(now), Exposure({}, now)) EXCEPT !.brain = Reinforced(@, states, now)]

LEMMA ImportUnfolds ==
    ASSUME NEW p, NEW n \in Nat, DOMAIN p = 1 .. n, NEW states, NEW now, NEW predicted,
           ImportKnowledge(p, states, now, predicted)
    PROVE  \E f : /\ ImportedBy(f, n, p, Prepared(states, now), now, predicted)
                  /\ gBrain' = f[1 .. n].brain /\ gMind' = f[1 .. n].mind
<1> DEFINE s0 == Prepared(states, now)
           it == CHOOSE f : f = [s \in SUBSET DOMAIN p |->
                     IF s = {} THEN s0 ELSE Exposed(f[s \ {Max(s)}], p[Max(s)], now, predicted)]
<1>1. gBrain' = it[DOMAIN p].brain /\ gMind' = it[DOMAIN p].mind
  BY Zenon DEF ImportKnowledge, Become, FoldLeft, MapThenFoldSet, Exposed, Exposure, Prepared, NoEpisode
<1> HIDE DEF s0
<1>2. it = CHOOSE f : ImportedBy(f, n, p, s0, now, predicted)
  BY Zenon DEF ImportedBy
<1>3. ImportedBy(it, n, p, s0, now, predicted)
  <2> HIDE DEF it
  <2> QED
    BY <1>2, ImportExists, Zenon
<1> QED
  BY <1>1, <1>3 DEF s0

LEMMA ImportsKeepMind ==
    ASSUME MindInd(gMind), NEW p \in Seq(SUBSET GUnit), NEW states, NEW now \in Int, NEW predicted,
           ImportKnowledge(p, states, now, predicted)
    PROVE  MindInd(gMind')
<1> DEFINE r == Routed(Settled(now), Exposure({}, now))
           s0 == Prepared(states, now)
<1>1. PICK n \in Nat : DOMAIN p = 1 .. n
  OBVIOUS
<1>2. PICK f : ImportedBy(f, n, p, s0, now, predicted) /\ gMind' = f[1 .. n].mind
  BY <1>1, ImportUnfolds
<1>3. r = [Settled(now) EXCEPT !.mind = ForgetPrior(gMind, Exposure({}, now))]
  BY DEF Routed, Settled
<1>4. IsState(r) /\ r.mind = ForgetPrior(gMind, Exposure({}, now))
  BY <1>3 DEF Settled, IsState
<1>5. MindInd(r.mind) /\ Follows(r.mind, NoEpisode, now)
  <2>1. Exposure({}, now).episode = NoEpisode /\ Exposure({}, now).at = now
    BY DEF Exposure
  <2> QED
    BY <1>4, <2>1, ForgettingFollows
<1>6. IsState(s0) /\ s0.mind = r.mind
  <2>1. s0 = [r EXCEPT !.brain = Reinforced(@, states, now)]
    BY DEF Prepared
  <2> HIDE DEF r, s0
  <2> QED
    BY <1>4, <2>1 DEF IsState
<1> HIDE DEF s0, r
<1>7. MindInd(f[1 .. n].mind)
  BY <1>2, <1>5, <1>6, ImportInd
<1> QED
  BY <1>2, <1>7

-----------------------------------------------------------------------------
(* Every command.                                                          *)

LEMMA InputsFinite ==
    ASSUME NEW i \in GInput, NEW now
    PROVE  /\ \E n \in Nat : DOMAIN Stamped(i, now).stimulus = 1 .. n
           /\ Stamped(i, now).at = now
<1>1. i.stimulus \in Seq((SUBSET GUnit) \ {{}})
  BY GAssumption
<1>2. PICK n \in Nat : DOMAIN i.stimulus = 1 .. n
  BY <1>1
<1> QED
  BY <1>2 DEF Stamped

LEMMA SettledState ==
    ASSUME NEW now
    PROVE  IsState(Settled(now)) /\ Settled(now).mind = gMind
BY DEF Settled, IsState

LEMMA ObservationsKeepMind ==
    ASSUME MindInd(gMind), NEW e, NEW n \in Nat, DOMAIN e.stimulus = 1 .. n, e.at \in Int,
           NEW p, NEW predicted, Become(Observed(Settled(e.at), e, p, predicted, FALSE))
    PROVE  MindInd(gMind')
<1> DEFINE override == FALSE
           s == Settled(e.at)
<1>1. override \in BOOLEAN /\ IsState(s) /\ MindInd(s.mind)
  BY SettledState
<1>2. gMind' = Observed(s, e, p, predicted, override).mind
  BY DEF Become
<1> HIDE DEF override, s
<1> QED
  BY <1>1, <1>2, ObservedInd

LEMMA OutcomesKeepMind ==
    ASSUME MindInd(gMind), NEW e, NEW n \in Nat, DOMAIN e.stimulus = 1 .. n, e.at \in Int,
           NEW p, NEW q, NEW predicted, InquiryOutcome(e, p, q, predicted)
    PROVE  MindInd(gMind')
<1> DEFINE override == TRUE
           known == [Settled(e.at) EXCEPT !.brain = Strengthened(@, q.promoted, e.at)]
           s == Observed(known, e, p, predicted, override)
<1>1. override \in BOOLEAN /\ IsState(known) /\ MindInd(known.mind)
  BY DEF Settled, IsState
<1>2. \E brain : gMind' = [s EXCEPT !.brain = brain].mind
  BY Zenon DEF InquiryOutcome, Become
<1> HIDE DEF override, known
<1>3. IsState(s) /\ MindInd(s.mind)
  BY <1>1, ObservedInd
<1> HIDE DEF s
<1> QED
  BY <1>2, <1>3 DEF IsState

LEMMA ProcessingKeepsMind ==
    ASSUME MindInd(gMind), NEW e, NEW n \in Nat, DOMAIN e.stimulus = 1 .. n,
           NEW predicted, Process(e, predicted)
    PROVE  MindInd(gMind')
<1> DEFINE override == FALSE
           r == Routed(Settled(e.at), e)
           a == Activate(r, e, predicted, override)
<1>1. override \in BOOLEAN
  OBVIOUS
<1>2. gMind' = a.mind
  BY DEF Process, Become
<1>3. IsState(r) /\ r.mind = ForgetPrior(gMind, e)
  BY DEF Routed, Settled, IsState
<1> HIDE DEF override, r
<1>4. MindInd(r.mind) /\ Follows(r.mind, e.episode, e.at)
  BY <1>3, ForgettingFollows
<1>5. /\ Judged(a.mind) /\ a.mind.prior = r.mind.prior
      /\ a.mind.context.open /\ a.mind.context.episode = e.episode
  BY <1>1, <1>3, <1>4, ActivationJudges DEF MindInd
<1>6. SameEpisode(a.mind)
  <2> HIDE DEF a
  <2> QED
    BY <1>4, <1>5 DEF SameEpisode, Follows
<1> QED
  BY <1>2, <1>5, <1>6 DEF MindInd

LEMMA MindInit == GInit => MindInd(gMind)
<1> SUFFICES ASSUME GInit PROVE MindInd(gMind)
  OBVIOUS
<1> DEFINE m == gMind
<1>1. /\ m.context = NoContext /\ m.forecast = NoForecast /\ m.prior = NoPrior
      /\ m.count = 0 /\ m.credits = {} /\ m.crossed = FALSE /\ IsMind(m)
  BY DEF GInit, IsMind
<1>2. IsContext(m.context)
  BY <1>1 DEF NoContext, IsContext
<1> HIDE DEF m
<1> QED
  BY <1>1, <1>2 DEF MindInd, Judged, SameEpisode, m

LEMMA MindStep == MindInd(gMind) /\ [GNext]_gVars => MindInd(gMind')
<1> SUFFICES ASSUME MindInd(gMind), [GNext]_gVars PROVE MindInd(gMind')
  OBVIOUS
<1>1. ASSUME NEW i \in GInput, NEW now \in GTime, NEW predicted \in GPredicted,
             Process(Stamped(i, now), predicted)
      PROVE  MindInd(gMind')
  <2> DEFINE e == Stamped(i, now)
  <2>1. PICK n \in Nat : DOMAIN e.stimulus = 1 .. n
    BY InputsFinite
  <2> HIDE DEF e
  <2> QED
    BY <1>1, <2>1, ProcessingKeepsMind DEF e
<1>2. ASSUME NEW i \in GInput, NEW now \in GTime, NEW p, NEW predicted \in GPredicted,
             Become(Observed(Settled(Stamped(i, now).at), Stamped(i, now), p, predicted, FALSE))
      PROVE  MindInd(gMind')
  <2> DEFINE e == Stamped(i, now)
  <2>1. PICK n \in Nat : DOMAIN e.stimulus = 1 .. n
    BY InputsFinite
  <2>2. e.at \in Int
    BY InputsFinite DEF GTime
  <2>3. Become(Observed(Settled(e.at), e, p, predicted, FALSE))
    BY <1>2
  <2> HIDE DEF e
  <2> QED
    BY <2>1, <2>2, <2>3, ObservationsKeepMind
<1>3. ASSUME NEW i \in GInput, NEW now \in GTime, NEW predicted \in GPredicted,
             Sense(Stamped(i, now), predicted)
      PROVE  MindInd(gMind')
  BY <1>2, <1>3 DEF Sense
<1>4. ASSUME NEW i \in GInput, NEW now \in GTime, NEW predicted \in GPredicted,
             NEW p \in GLesson \cup {<<>>}, Observe(Stamped(i, now), p, predicted)
      PROVE  MindInd(gMind')
  BY <1>2, <1>4 DEF Observe
<1>5. ASSUME NEW i \in GInput, NEW now \in GTime, NEW predicted \in GPredicted,
             NEW p \in GLesson \cup {<<>>}, NEW q \in GInquiry,
             InquiryOutcome(Stamped(i, now), p, q, predicted)
      PROVE  MindInd(gMind')
  <2> DEFINE e == Stamped(i, now)
  <2>1. PICK n \in Nat : DOMAIN e.stimulus = 1 .. n
    BY InputsFinite
  <2>2. e.at \in Int
    BY InputsFinite DEF GTime
  <2>3. InquiryOutcome(e, p, q, predicted)
    BY <1>5
  <2> HIDE DEF e
  <2> QED
    BY <2>1, <2>2, <2>3, OutcomesKeepMind
<1>6. ASSUME NEW now \in GTime, Think(now) PROVE MindInd(gMind')
  <2>1. gMind' = gMind
    BY <1>6 DEF Think, Become, Settled
  <2> QED
    BY <2>1
<1>7. ASSUME NEW now \in GTime, NEW p \in GLesson, LearnExperience(p, now) PROVE MindInd(gMind')
  <2>1. gMind' = gMind
    BY <1>7 DEF LearnExperience, Become, Settled
  <2> QED
    BY <2>1
<1>8. ASSUME NEW now \in GTime, NEW l \in Link, PromoteSynapse(l, now) PROVE MindInd(gMind')
  <2>1. gMind' = gMind
    BY <1>8 DEF PromoteSynapse, Become, Settled
  <2> QED
    BY <2>1
<1>9. ASSUME NEW now \in GTime, NEW p \in GLesson, NEW predicted \in GPredicted, NEW states,
             ImportKnowledge(p, states, now, predicted)
      PROVE  MindInd(gMind')
  <2>1. p \in Seq(SUBSET GUnit) /\ now \in Int
    BY GAssumption DEF GTime
  <2> QED
    BY <1>9, <2>1, ImportsKeepMind
<1>10. CASE UNCHANGED gVars
  BY <1>10 DEF gVars
<1> QED
  BY <1>1, <1>3, <1>4, <1>5, <1>6, <1>7, <1>8, <1>9, <1>10 DEF GNext

THEOREM MindInvariance == GSpec => []MindInd(gMind)
<1>1. GInit => MindInd(gMind)
  BY MindInit
<1>2. MindInd(gMind) /\ [GNext]_gVars => MindInd(gMind)'
  BY MindStep
<1> QED
  BY <1>1, <1>2, PTL DEF GSpec

(* A forecast is judged by the very next real observation, of its episode  *)
(* and within ContextMaxAge, or never (applyObservedFeedback).             *)
THEOREM ForecastsJudgedOnce == GSpec => []CreditedOnce
<1>1. MindInd(gMind) => CreditedOnce
  BY DEF MindInd, Judged, CreditedOnce
<1> QED
  BY <1>1, MindInvariance, PTL

(* A transition joins two observations of one episode, in the order of     *)
(* their times, whatever was reset, imported or sensed between them        *)
(* (learnObservedTransitionLocked, resetTemporalContextLocked).            *)
THEOREM EpisodesApart == GSpec => []TransitionsWithinEpisode
<1>1. MindInd(gMind) => TransitionsWithinEpisode
  BY DEF MindInd, Judged, TransitionsWithinEpisode
<1> QED
  BY <1>1, MindInvariance, PTL

-----------------------------------------------------------------------------
(* Retention: decay by one tick after the other.                           *)

Halves(f, n, w) ==
    f = [s \in SUBSET (1 .. n) |-> IF s = {} THEN w ELSE f[s \ {Max(s)}] \div 2]

(* The decay of a weight is a function of sets of ticks.                   *)
LEMMA HalvesUnfold ==
    ASSUME NEW w \in Nat, NEW n \in Nat
    PROVE  \E f \in [SUBSET (1 .. n) -> Nat] : Halves(f, n, w) /\ Halved(w, n) = f[1 .. n]
<1> DEFINE ticks == [tick \in 1 .. n |-> tick]
           it == CHOOSE f : f = [s \in SUBSET DOMAIN ticks |->
                     IF s = {} THEN w ELSE f[s \ {Max(s)}] \div 2]
           step == [v \in Nat \X (1 .. n) |-> v[1] \div 2]
<1>1. Halved(w, n) = it[DOMAIN ticks]
  BY Zenon DEF Halved, FoldLeft, MapThenFoldSet
<1>2. DOMAIN ticks = 1 .. n
  OBVIOUS
<1>3. it = CHOOSE f : Halves(f, n, w)
  BY <1>2, Zenon DEF Halves
<1>4. step \in [Nat \X (1 .. n) -> Nat]
  OBVIOUS
<1>5. \A v \in Nat, k \in 1 .. n : step[<<v, k>>] = v \div 2
  OBVIOUS
<1> HIDE DEF step, it, ticks
<1>6. PICK g \in [SUBSET (1 .. n) -> Nat] : Folded(g, n, w, step)
  BY <1>4, FoldExists, Zenon
<1>7. Halves(g, n, w)
  <2>1. ASSUME NEW s \in SUBSET (1 .. n)
        PROVE  g[s] = IF s = {} THEN w ELSE g[s \ {Max(s)}] \div 2
    <3>1. CASE s = {}
      BY <1>6, <3>1, Zenon DEF Folded
    <3>2. CASE s # {}
      <4>1. Max(s) \in 1 .. n /\ s \ {Max(s)} \in SUBSET (1 .. n)
        BY <3>2, MaxIsIn
      <4>2. g[s] = step[<<g[s \ {Max(s)}], Max(s)>>]
        BY <1>6, <3>2, Zenon DEF Folded
      <4>3. g[s \ {Max(s)}] \in Nat
        BY <4>1
      <4> QED
        BY <1>5, <3>2, <4>1, <4>2, <4>3
    <3> QED
      BY <3>1, <3>2
  <2>2. g = [s \in SUBSET (1 .. n) |-> g[s]]
    OBVIOUS
  <2> QED
    BY <2>1, <2>2, Zenon DEF Halves
<1>8. Halves(it, n, w)
  BY <1>3, <1>7, Zenon
<1>9. ASSUME NEW s \in SUBSET (1 .. n), s # {}, it[s \ {Max(s)}] = g[s \ {Max(s)}]
      PROVE  it[s] = g[s]
  BY <1>7, <1>8, <1>9, Zenon DEF Halves
<1>10. it[{}] = g[{}]
  <2>1. {} \in SUBSET (1 .. n)
    OBVIOUS
  <2> QED
    BY <1>7, <1>8, <2>1, Zenon DEF Halves
<1>11. it[1 .. n] = g[1 .. n]
  BY <1>9, <1>10, FoldUnique
<1> QED
  BY <1>1, <1>2, <1>7, <1>11

(* Over no time, or over time that has not come, nothing decays.           *)
LEMMA HalvedNothing == ASSUME NEW w, NEW n \in Int, n <= 0 PROVE Halved(w, n) = w
<1> DEFINE ticks == [tick \in 1 .. n |-> tick]
           it == CHOOSE f : f = [s \in SUBSET DOMAIN ticks |->
                     IF s = {} THEN w ELSE f[s \ {Max(s)}] \div 2]
<1>1. Halved(w, n) = it[DOMAIN ticks]
  BY Zenon DEF Halved, FoldLeft, MapThenFoldSet
<1>2. DOMAIN ticks = {}
  OBVIOUS
<1> HIDE DEF ticks
<1> DEFINE g == [s \in SUBSET DOMAIN ticks |-> w]
<1>3. g = [s \in SUBSET DOMAIN ticks |-> IF s = {} THEN w ELSE g[s \ {Max(s)}] \div 2]
  BY <1>2
<1> HIDE DEF g
<1>4. it = [s \in SUBSET DOMAIN ticks |-> IF s = {} THEN w ELSE it[s \ {Max(s)}] \div 2]
  BY <1>3, Zenon
<1>5. {} \in SUBSET DOMAIN ticks
  OBVIOUS
<1> HIDE DEF it
<1>6. it[{}] = w
  BY <1>4, <1>5, Zenon
<1> QED
  BY <1>1, <1>2, <1>6

(* One more tick halves what is left.                                      *)
LEMMA HalvedAgain ==
    ASSUME NEW w \in Nat, NEW n \in Nat
    PROVE  Halved(w, n) \in Nat /\ Halved(w, n + 1) = Halved(w, n) \div 2
<1>1. PICK f \in [SUBSET (1 .. n) -> Nat] : Halves(f, n, w) /\ Halved(w, n) = f[1 .. n]
  BY HalvesUnfold
<1>2. PICK g \in [SUBSET (1 .. n + 1) -> Nat] : Halves(g, n + 1, w) /\ Halved(w, n + 1) = g[1 .. n + 1]
  <2>1. n + 1 \in Nat
    OBVIOUS
  <2> QED
    BY <2>1, HalvesUnfold, Zenon
<1>3. f[{}] = g[{}]
  <2>1. {} \in SUBSET (1 .. n) /\ {} \in SUBSET (1 .. n + 1)
    OBVIOUS
  <2> QED
    BY <1>1, <1>2, <2>1, Zenon DEF Halves
<1>4. ASSUME NEW s \in SUBSET (1 .. n), s # {}, f[s \ {Max(s)}] = g[s \ {Max(s)}]
      PROVE  f[s] = g[s]
  <2>1. s \in SUBSET (1 .. n + 1)
    OBVIOUS
  <2> QED
    BY <1>1, <1>2, <1>4, <2>1, ZenonT(40) DEF Halves
<1>5. f[1 .. n] = g[1 .. n]
  BY <1>3, <1>4, FoldUnique
<1>6. g[1 .. n + 1] = g[1 .. n] \div 2
  <2> DEFINE s == 1 .. n + 1
  <2>1. s \in SUBSET (1 .. n + 1) /\ n + 1 \in s /\ s # {}
    OBVIOUS
  <2>2. Max(s) = n + 1
    BY <2>1, LastFolded
  <2>3. s \ {n + 1} = 1 .. n
    OBVIOUS
  <2> HIDE DEF s
  <2>4. g[s] = g[s \ {Max(s)}] \div 2
    BY <1>2, <2>1, Zenon DEF Halves
  <2> QED
    BY <2>2, <2>3, <2>4 DEF s
<1> QED
  BY <1>1, <1>2, <1>5, <1>6

(* Decay over one span after another is decay over both.                   *)
LEMMA HalvedSum ==
    ASSUME NEW w \in Nat, NEW a \in Nat, NEW b \in Nat
    PROVE  Halved(Halved(w, a), b) = Halved(w, a + b)
<1> DEFINE v == Halved(w, a)
           T == {k \in Nat : Halved(v, k) = Halved(w, a + k)}
<1>1. v \in Nat
  BY HalvedAgain
<1> HIDE DEF v
<1>2. 0 \in T
  <2>1. Halved(v, 0) = v /\ a + 0 = a
    BY HalvedNothing
  <2> QED
    BY <2>1 DEF v
<1>3. ASSUME NEW k \in Nat, k \in T PROVE k + 1 \in T
  <2>1. Halved(v, k + 1) = Halved(v, k) \div 2
    BY <1>1, HalvedAgain
  <2>2. PICK m \in Nat : m = a + k
    OBVIOUS
  <2>3. Halved(w, m + 1) = Halved(w, m) \div 2
    BY HalvedAgain
  <2>4. m + 1 = a + (k + 1)
    BY <2>2
  <2> QED
    BY <1>3, <2>1, <2>2, <2>3, <2>4
<1>4. Nat \subseteq T
  <2> HIDE DEF T
  <2> QED BY <1>2, <1>3, Induction
<1> QED
  BY <1>4 DEF v

(* What weighs nothing has nothing to lose.                                *)
LEMMA NothingHalved == ASSUME NEW n \in Nat PROVE Halved(0, n) = 0
<1> DEFINE T == {k \in Nat : Halved(0, k) = 0}
<1>1. 0 \in T
  BY HalvedNothing
<1>2. ASSUME NEW k \in Nat, k \in T PROVE k + 1 \in T
  <2>1. Halved(0, k + 1) = Halved(0, k) \div 2
    BY HalvedAgain
  <2> QED
    BY <1>2, <2>1
<1>3. Nat \subseteq T
  <2> HIDE DEF T
  <2> QED BY <1>1, <1>2, Induction
<1> QED
  BY <1>3

-----------------------------------------------------------------------------
(* A brain whose connections have paid for the time since they were last   *)
(* learned, up to its watermark.                                           *)

Brains == [weight : [Link -> Nat], at : [Link -> Int], mark : Int, patterns : SUBSET Seq(SUBSET GUnit),
           learned : [Link -> Nat], from : [Link -> Nat], late : BOOLEAN]

(* Before the first settlement nothing has been learned.                   *)
Untouched(b) ==
    \A l \in Link : b.from[l] = 0 /\ (b.at[l] = 0 \/ (b.at[l] = Never /\ b.learned[l] = 0))

Charged(b) ==
    /\ b \in Brains /\ ~b.late
    /\ \A l \in Link : b.weight[l] = Halved(b.learned[l], b.mark - b.from[l])
    /\ b.mark = Never => Untouched(b)
    /\ b.mark # Never => b.mark \in Nat /\ \A l \in Link : b.from[l] <= b.mark /\ b.at[l] <= b.mark

(* What is learned at a time that is paid for.                             *)
Paid(b, now) == Charged(b) /\ now <= b.mark

(* What a brain is made of.                                                *)
LEMMA BrainParts ==
    ASSUME NEW b \in Brains
    PROVE  /\ DOMAIN b = {"weight", "at", "mark", "patterns", "learned", "from", "late"}
           /\ b.weight \in [Link -> Nat] /\ b.at \in [Link -> Int] /\ b.mark \in Int
           /\ b.patterns \in SUBSET Seq(SUBSET GUnit) /\ b.learned \in [Link -> Nat]
           /\ b.from \in [Link -> Nat] /\ b.late \in BOOLEAN
BY DEF Brains

(* Settling charges every connection up to the time it is done at.         *)
LEMMA SettlePays ==
    ASSUME NEW b, Charged(b), NEW now \in Nat
    PROVE  Paid(Settle(b, now), now)
<1> DEFINE c == Settle(b, now)
<1>0. b \in Brains /\ b.mark \in Int
  BY BrainParts DEF Charged
<1>1. CASE b.mark # Never /\ now <= b.mark
  BY <1>1 DEF Settle, Paid
<1>2. CASE ~(b.mark # Never /\ now <= b.mark)
  <2> DEFINE weights == [l \in Link |-> Halved(b.weight[l], now - Since(b, l))]
  <2>1. c = [b EXCEPT !.mark = now, !.weight = weights]
    BY <1>2 DEF Settle
  <2>2. b.mark < now
    BY <1>0, <1>2 DEF Charged, Never
  <2>3. ASSUME NEW l \in Link
        PROVE  /\ weights[l] = Halved(b.learned[l], now - b.from[l]) /\ weights[l] \in Nat
               /\ b.from[l] <= now /\ b.at[l] <= now
    <3>1. /\ weights[l] = Halved(b.weight[l], now - Since(b, l))
          /\ b.weight[l] = Halved(b.learned[l], b.mark - b.from[l])
          /\ b.learned[l] \in Nat /\ b.from[l] \in Nat /\ b.at[l] \in Int
      BY <1>0, BrainParts DEF Charged
    <3>2. CASE b.mark = Never
      <4>1. b.from[l] = 0 /\ (b.at[l] = 0 \/ (b.at[l] = Never /\ b.learned[l] = 0))
        BY <3>2 DEF Charged, Untouched
      <4>2. b.mark - b.from[l] <= 0 /\ b.mark - b.from[l] \in Int
        BY <3>2, <4>1 DEF Never
      <4>3. b.weight[l] = b.learned[l]
        BY <3>1, <4>2, HalvedNothing
      <4>4. CASE b.at[l] = 0
        <5>1. now - Since(b, l) = now /\ now - b.from[l] = now
          BY <3>2, <4>1, <4>4 DEF Since, Later, Never
        <5>2. weights[l] = Halved(b.learned[l], now)
          BY <3>1, <4>3, <5>1, Zenon
        <5>3. weights[l] \in Nat
          BY <3>1, <5>2, HalvedAgain
        <5> HIDE DEF weights
        <5> QED
          BY <4>1, <4>4, <5>1, <5>2, <5>3
      <4>5. CASE b.at[l] = Never /\ b.learned[l] = 0
        <5>1. now - Since(b, l) = now + 1 /\ now - b.from[l] = now
          BY <3>2, <4>1, <4>5 DEF Since, Later, Never
        <5>2. Halved(0, now + 1) = 0 /\ Halved(0, now) = 0
          <6>1. now + 1 \in Nat
            OBVIOUS
          <6> QED
            BY <6>1, NothingHalved
        <5> QED
          BY <3>1, <4>1, <4>3, <4>5, <5>1, <5>2 DEF Never
      <4> QED
        BY <4>1, <4>4, <4>5
    <3>3. CASE b.mark # Never
      <4>1. b.mark \in Nat /\ b.from[l] <= b.mark /\ b.at[l] <= b.mark
        BY <3>3 DEF Charged
      <4>2. Since(b, l) = b.mark
        BY <3>1, <4>1 DEF Since, Later
      <4>3. PICK paid \in Nat : paid = b.mark - b.from[l]
        BY <3>1, <4>1
      <4>4. PICK due \in Nat : due = now - b.mark
        BY <2>2, <4>1
      <4>5. Halved(Halved(b.learned[l], paid), due) = Halved(b.learned[l], paid + due)
        BY <3>1, HalvedSum
      <4>6. paid + due = now - b.from[l] /\ paid + due \in Nat
        BY <3>1, <4>1, <4>3, <4>4
      <4>7. weights[l] = Halved(b.learned[l], now - b.from[l])
        BY <3>1, <4>2, <4>3, <4>4, <4>5, <4>6
      <4>8. weights[l] \in Nat
        BY <3>1, <4>6, <4>7, HalvedAgain
      <4>9. b.from[l] <= now /\ b.at[l] <= now
        BY <2>2, <3>1, <4>1
      <4> QED
        BY <4>7, <4>8, <4>9
    <3> QED
      BY <3>2, <3>3
  <2>4. weights \in [Link -> Nat]
    BY <2>3
  <2> HIDE DEF weights, c
  <2>5. /\ c.mark = now /\ c.weight = weights /\ c.at = b.at /\ c.learned = b.learned
        /\ c.from = b.from /\ c.late = b.late
    BY <1>0, <2>1 DEF Brains
  <2>6. c \in Brains
    <3>1. now \in Int
      OBVIOUS
    <3> QED
      BY <1>0, <2>1, <2>4, <3>1 DEF Brains
  <2>7. Charged(c)
    BY <2>3, <2>5, <2>6 DEF Charged, Never
  <2> QED
    BY <2>5, <2>7 DEF Paid, c
<1> QED
  BY <1>1, <1>2

(* A change at a paid time starts a new account for what it touches.       *)
LEMMA ChangePays ==
    ASSUME NEW now \in Nat, NEW b, Paid(b, now), NEW links, NEW new \in [Link -> Nat]
    PROVE  Paid(Change(b, links, new, now), now)
<1> DEFINE c == Change(b, links, new, now)
           weights == [l \in Link |-> IF l \in links THEN new[l] ELSE b.weight[l]]
           times == [l \in Link |-> IF l \in links THEN now ELSE b.at[l]]
           learnt == [l \in Link |-> IF l \in links THEN new[l] ELSE b.learned[l]]
           since == [l \in Link |-> IF l \in links THEN Later(now, b.mark) ELSE b.from[l]]
<1>1. b \in Brains /\ b.mark \in Int /\ now <= b.mark /\ b.mark # Never /\ b.mark \in Nat
  BY BrainParts DEF Paid, Charged, Never
<1>2. (b.late \/ (links # {} /\ b.mark < now)) = FALSE
  BY <1>1 DEF Paid, Charged
<1>3. Later(now, b.mark) = b.mark
  BY <1>1 DEF Later
<1>4. /\ weights \in [Link -> Nat] /\ times \in [Link -> Int]
      /\ learnt \in [Link -> Nat] /\ since \in [Link -> Nat]
  BY <1>1, <1>3, BrainParts
<1>5. ASSUME NEW l \in Link
      PROVE  /\ weights[l] = Halved(learnt[l], b.mark - since[l])
             /\ since[l] <= b.mark /\ times[l] <= b.mark
  <2>1. CASE l \in links
    <3>1. weights[l] = new[l] /\ learnt[l] = new[l] /\ since[l] = b.mark /\ times[l] = now
      BY <1>3, <2>1
    <3>2. b.mark - since[l] = 0
      BY <1>1, <3>1
    <3>3. Halved(learnt[l], 0) = learnt[l]
      BY HalvedNothing
    <3> QED
      BY <1>1, <3>1, <3>2, <3>3
  <2>2. CASE l \notin links
    BY <1>1, <2>2 DEF Paid, Charged
  <2> QED
    BY <2>1, <2>2
<1>6. c = [b EXCEPT !.weight = weights, !.at = times, !.learned = learnt, !.from = since,
                    !.late = b.late \/ (links # {} /\ b.mark < now)]
  BY DEF Change
<1> HIDE DEF weights, times, learnt, since, c
<1>7. c = [b EXCEPT !.weight = weights, !.at = times, !.learned = learnt, !.from = since,
                    !.late = FALSE]
  BY <1>2, <1>6
<1>8. /\ c.weight = weights /\ c.at = times /\ c.learned = learnt /\ c.from = since
      /\ c.late = FALSE /\ c.mark = b.mark /\ c.patterns = b.patterns
      /\ DOMAIN c = DOMAIN b
  BY <1>1, <1>7 DEF Brains
<1>9. c \in Brains
  BY <1>1, <1>4, <1>7 DEF Brains
<1> QED
  BY <1>1, <1>5, <1>8, <1>9 DEF Paid, Charged, c

(* Strengthening, weakening and reinforcing are changes.                   *)
LEMMA LearningPays ==
    ASSUME NEW now \in Nat, NEW b, Paid(b, now), NEW links
    PROVE  /\ Paid(Strengthened(b, links, now), now)
           /\ Paid(Weakened(b, links, now), now)
           /\ Paid(Reinforced(b, links, now), now)
<1> DEFINE up == [l \in Link |-> Lower(b.weight[l] + 1, GTop)]
           down == [l \in Link |-> Later(b.weight[l] - 1, 1)]
           half == [l \in Link |-> IF Connected(b, l) THEN (b.weight[l] + GTop + 1) \div 2 ELSE GTop]
<1>1. GTop \in Nat /\ \A l \in Link : b.weight[l] \in Nat
  BY GAssumption, BrainParts DEF Paid, Charged
<1>2. up \in [Link -> Nat]
  BY <1>1 DEF Lower
<1>3. down \in [Link -> Nat]
  <2>1. \A w \in Nat : Later(w - 1, 1) \in Nat
    BY DEF Later
  <2> QED
    BY <1>1, <2>1
<1>4. half \in [Link -> Nat]
  <2>1. \A w \in Nat : (w + GTop + 1) \div 2 \in Nat
    BY <1>1
  <2> QED
    BY <1>1, <2>1
<1> HIDE DEF up, down, half
<1>5. /\ Paid(Change(b, {l \in links : Connected(b, l)}, up, now), now)
      /\ Paid(Change(b, {l \in links : Connected(b, l)}, down, now), now)
      /\ Paid(Change(b, links, half, now), now)
  BY <1>2, <1>3, <1>4, ChangePays
<1> QED
  BY <1>5 DEF Strengthened, Weakened, Reinforced, up, down, half

(* So is the credit given after a forecast.                                *)
LEMMA FeedbackPays ==
    ASSUME NEW now \in Nat, NEW b, Paid(b, now), NEW source, NEW actual, NEW predicted
    PROVE  Paid(Feedback(b, source, actual, predicted, now), now)
<1>1. Paid(Strengthened(b, Between(source, actual \ predicted), now), now)
  BY LearningPays
<1> QED
  BY <1>1, LearningPays DEF Feedback

(* Activation learns at the time of its event.                             *)
LEMMA ActivationPays ==
    ASSUME NEW s, IsState(s), NEW e, e.at \in Nat, Paid(s.brain, e.at),
           NEW predicted, NEW override
    PROVE  LET t == Activate(s, e, predicted, override) IN IsState(t) /\ Paid(t.brain, e.at)
<1> DEFINE t == Activate(s, e, predicted, override)
<1>1. CASE Empty(e)
  <2>1. IsState(t) /\ t.brain = s.brain
    BY <1>1 DEF Activate, IsState
  <2> QED
    BY <2>1
<1>2. CASE ~Empty(e)
  <2>1. IsState(t) /\ t.brain = ActivateBrain(s.brain, s.mind, e, predicted, override)
    BY <1>2 DEF Activate, IsState
  <2>2. Paid(Coactive(s.brain, e), e.at)
    BY LearningPays DEF Coactive
  <2>3. Paid(Feedback(Coactive(s.brain, e), Boundary(s.mind, e, override).source,
                      Actual(e), predicted, e.at), e.at)
    BY <2>2, FeedbackPays
  <2> HIDE DEF t
  <2> QED
    BY <2>1, <2>2, <2>3 DEF ActivateBrain, t
<1> QED
  BY <1>1, <1>2

(* A transition learns at the time it is observed.                         *)
LEMMA TransitionPays ==
    ASSUME NEW s, IsState(s), NEW now \in Nat, Paid(s.brain, now), NEW pop, NEW episode
    PROVE  LET t == Transition(s, pop, episode, now) IN IsState(t) /\ Paid(t.brain, now)
<1> DEFINE t == Transition(s, pop, episode, now)
<1>1. CASE pop = {}
  <2>1. IsState(t) /\ t.brain = s.brain
    BY <1>1 DEF Transition, IsState
  <2> QED
    BY <2>1
<1>2. CASE pop # {}
  <2>1. IsState(t) /\ t.brain = Reinforced(Settle(s.brain, now), Between(s.mind.prior.pop, pop), now)
    BY <1>2 DEF Transition, IsState
  <2>2. Paid(Settle(s.brain, now), now)
    BY SettlePays DEF Paid
  <2> HIDE DEF t
  <2> QED
    BY <2>1, <2>2, LearningPays DEF t
<1> QED
  BY <1>1, <1>2

-----------------------------------------------------------------------------
(* A taught sequence connects each step to the next.                       *)

Target(p, i) == IF i = Len(p) THEN p[i] ELSE {First(p[i])}
Connecting(p, c, i, now) == Reinforced(c, Between({First(p[i - 1])}, Target(p, i)), now)
Rivals(p) == Between(p[1], GUnit \ p[2])

TaughtBy(f, n, p, b, steps, now) ==
    f = [s \in SUBSET (1 .. n) |->
            IF s = {} THEN b ELSE Connecting(p, f[s \ {Max(s)}], steps[Max(s)], now)]

PaidBrains(now) == {b \in Brains : Paid(b, now)}

(* Connecting the steps of a lesson, one after the other.                  *)
LEMMA ConnectsUnfold ==
    ASSUME NEW now \in Nat, NEW b, Paid(b, now), NEW p, NEW n \in Nat, NEW steps
    PROVE  \A f : f = (CHOOSE g : TaughtBy(g, n, p, b, steps, now)) =>
                      TaughtBy(f, n, p, b, steps, now) /\ Paid(f[1 .. n], now)
<1> DEFINE it == CHOOSE g : TaughtBy(g, n, p, b, steps, now)
           A == PaidBrains(now)
           step == [v \in A \X (1 .. n) |-> Connecting(p, v[1], steps[v[2]], now)]
<1>1. \A c \in A : \A i : Connecting(p, c, i, now) \in A
  <2> SUFFICES ASSUME NEW c \in A, NEW i PROVE Connecting(p, c, i, now) \in A
    OBVIOUS
  <2>1. Paid(c, now)
    BY DEF PaidBrains
  <2>2. Paid(Connecting(p, c, i, now), now)
    BY <2>1, LearningPays DEF Connecting
  <2> QED
    BY <2>2 DEF PaidBrains, Paid, Charged
<1>2. step \in [A \X (1 .. n) -> A]
  <2>1. ASSUME NEW v \in A \X (1 .. n) PROVE Connecting(p, v[1], steps[v[2]], now) \in A
    BY <1>1
  <2> HIDE DEF A
  <2> QED
    BY <2>1
<1>3. \A c \in A, k \in 1 .. n : step[<<c, k>>] = Connecting(p, c, steps[k], now)
  <2> HIDE DEF A
  <2> QED
    OBVIOUS
<1>4. b \in A
  BY DEF PaidBrains, Paid, Charged
<1> HIDE DEF A, step, it
<1>5. PICK g \in [SUBSET (1 .. n) -> A] : Folded(g, n, b, step)
  BY <1>2, <1>4, FoldExists, Zenon
<1>6. TaughtBy(g, n, p, b, steps, now)
  <2>1. ASSUME NEW s \in SUBSET (1 .. n)
        PROVE  g[s] = IF s = {} THEN b ELSE Connecting(p, g[s \ {Max(s)}], steps[Max(s)], now)
    <3>1. CASE s = {}
      BY <1>5, <3>1, Zenon DEF Folded
    <3>2. CASE s # {}
      <4>1. Max(s) \in s /\ s \ {Max(s)} \in SUBSET (1 .. n)
        BY <3>2, MaxIsIn
      <4>2. g[s] = step[<<g[s \ {Max(s)}], Max(s)>>]
        BY <1>5, <3>2, Zenon DEF Folded
      <4>3. g[s \ {Max(s)}] \in A /\ Max(s) \in 1 .. n
        BY <4>1
      <4> QED
        BY <1>3, <3>2, <4>2, <4>3, Zenon
    <3> QED
      BY <3>1, <3>2
  <2>2. g = [s \in SUBSET (1 .. n) |-> g[s]]
    OBVIOUS
  <2> QED
    BY <2>1, <2>2, Zenon DEF TaughtBy
<1>7. TaughtBy(it, n, p, b, steps, now)
  BY <1>6, Zenon DEF it
<1>8. ASSUME NEW s \in SUBSET (1 .. n), s # {}, it[s \ {Max(s)}] = g[s \ {Max(s)}]
      PROVE  it[s] = g[s]
  BY <1>6, <1>7, <1>8, Zenon DEF TaughtBy
<1>9. it[{}] = g[{}]
  <2>1. {} \in SUBSET (1 .. n)
    OBVIOUS
  <2> QED
    BY <1>6, <1>7, <2>1, Zenon DEF TaughtBy
<1>10. it[1 .. n] = g[1 .. n]
  BY <1>8, <1>9, FoldUnique
<1>11. 1 .. n \in SUBSET (1 .. n)
  OBVIOUS
<1>12. Paid(it[1 .. n], now)
  BY <1>10, <1>11 DEF A, PaidBrains
<1> QED
  BY <1>7, <1>12 DEF it

(* A taught lesson is learned at the time it is taught.                    *)
LEMMA TaughtPays ==
    ASSUME NEW now \in Nat, NEW b, Paid(b, now), NEW p \in Seq(SUBSET GUnit)
    PROVE  Paid(Taught(b, p, now), now)
<1>1. CASE p = <<>>
  BY <1>1 DEF Taught
<1>2. CASE p # <<>>
  <2>1. PICK n \in Nat : n = Len(p) - 1
    BY <1>2
  <2> DEFINE first == Weakened(b, Rivals(p), now)
             seq == [i \in 1 .. Len(p) - 1 |-> i + 1]
             it == CHOOSE f : f = [s \in SUBSET DOMAIN seq |->
                       IF s = {} THEN first ELSE Connecting(p, f[s \ {Max(s)}], seq[Max(s)], now)]
             c == it[DOMAIN seq]
  <2>2. Taught(b, p, now) = [c EXCEPT !.patterns = @ \cup {p}]
    BY <1>2, Zenon DEF Taught, FoldLeft, MapThenFoldSet, Connecting, Target, Rivals
  <2>3. DOMAIN seq = 1 .. n
    BY <2>1
  <2>4. it = CHOOSE f : TaughtBy(f, n, p, first, seq, now)
    <3> HIDE DEF seq, first
    <3> QED
      BY <2>3, Zenon DEF TaughtBy
  <2>5. Paid(first, now)
    BY LearningPays
  <2> HIDE DEF first, it, seq
  <2>6. Paid(c, now)
    BY <2>3, <2>4, <2>5, ConnectsUnfold
  <2> HIDE DEF c
  <2> DEFINE t == [c EXCEPT !.patterns = @ \cup {p}]
  <2>7. c \in Brains
    BY <2>6 DEF Paid, Charged
  <2>8. t \in Brains
    BY <2>7 DEF Brains
  <2>9. /\ t.weight = c.weight /\ t.at = c.at /\ t.mark = c.mark /\ t.learned = c.learned
        /\ t.from = c.from /\ t.late = c.late
    BY <2>7 DEF Brains
  <2> HIDE DEF t
  <2>10. Paid(t, now)
    BY <2>6, <2>8, <2>9 DEF Paid, Charged, Untouched
  <2> QED
    BY <2>2, <2>10 DEF t
<1> QED
  BY <1>1, <1>2

-----------------------------------------------------------------------------
(* Commands settle before they learn.                                      *)

(* An observation activates, moves on and is taught, all at its time.      *)
LEMMA ObservedPays ==
    ASSUME NEW s, IsState(s), NEW e, e.at \in Nat, Paid(s.brain, e.at),
           NEW p \in Seq(SUBSET GUnit), NEW predicted, NEW override
    PROVE  LET o == Observed(s, e, p, predicted, override) IN IsState(o) /\ Paid(o.brain, e.at)
<1> DEFINE r == Routed(s, e)
           a == Activate(r, e, predicted, override)
           t == Transition(a, Actual(e), e.episode, e.at)
           o == Observed(s, e, p, predicted, override)
<1>1. IsState(r) /\ r.brain = s.brain
  BY DEF Routed, IsState
<1> HIDE DEF r
<1>2. IsState(a) /\ Paid(a.brain, e.at)
  BY <1>1, ActivationPays
<1> HIDE DEF a
<1>3. IsState(t) /\ Paid(t.brain, e.at)
  BY <1>2, TransitionPays
<1>4. o = [t EXCEPT !.brain = Taught(@, p, e.at)]
  BY Zenon DEF Observed, t, a, r
<1> HIDE DEF t, o
<1>5. IsState(o) /\ o.brain = Taught(t.brain, p, e.at)
  BY <1>3, <1>4 DEF IsState
<1>6. Paid(o.brain, e.at)
  BY <1>3, <1>5, TaughtPays
<1> QED
  BY <1>5, <1>6 DEF o

(* Every command starts from a settled brain.                              *)
LEMMA SettledPays ==
    ASSUME Charged(gBrain), NEW now \in Nat
    PROVE  IsState(Settled(now)) /\ Paid(Settled(now).brain, now)
BY SettlePays DEF Settled, IsState

(* Every exposure of an import learns at the time of the import.           *)
LEMMA ImportPays ==
    ASSUME NEW now \in Nat, NEW s0, IsState(s0), Paid(s0.brain, now), NEW p, NEW predicted,
           NEW n \in Nat, NEW f, ImportedBy(f, n, p, s0, now, predicted)
    PROVE  Paid(f[1 .. n].brain, now)
<1> DEFINE Good(s) == IsState(s) /\ Paid(s.brain, now)
<1>1. ASSUME NEW s, Good(s), NEW pop PROVE Good(Exposed(s, pop, now, predicted))
  <2> DEFINE t == Transition(s, pop, NoEpisode, now)
             e == Exposure(pop, now)
             override == FALSE
             a == Activate(t, e, predicted, override)
  <2>1. IsState(t) /\ Paid(t.brain, now)
    BY <1>1, TransitionPays
  <2>2. e.at = now
    BY DEF Exposure
  <2>3. Exposed(s, pop, now, predicted) = a
    BY DEF Exposed
  <2> HIDE DEF t, e, override
  <2>4. IsState(a) /\ Paid(a.brain, now)
    BY <2>1, <2>2, ActivationPays
  <2> QED
    BY <2>3, <2>4
<1> HIDE DEF Good
<1> DEFINE T == {k \in Nat : \A s \in SUBSET (1 .. n) : s \subseteq 1 .. k => Good(f[s])}
<1>2. 0 \in T
  <2>1. \A s : s \subseteq 1 .. 0 => s = {}
    OBVIOUS
  <2>2. {} \in SUBSET (1 .. n)
    OBVIOUS
  <2>3. f[{}] = s0
    BY <2>2, Zenon DEF ImportedBy
  <2> QED
    BY <2>1, <2>3 DEF Good
<1>3. ASSUME NEW k \in Nat, k \in T PROVE k + 1 \in T
  <2>0. k + 1 \in Nat
    OBVIOUS
  <2> SUFFICES \A s \in SUBSET (1 .. n) : s \subseteq 1 .. k + 1 => Good(f[s])
    BY <2>0, Zenon
  <2> SUFFICES ASSUME NEW s \in SUBSET (1 .. n), s \subseteq 1 .. k + 1 PROVE Good(f[s])
    OBVIOUS
  <2>1. CASE k + 1 \in s
    <3>1. s # {} /\ s \ {Max(s)} \in SUBSET (1 .. k) /\ s \ {Max(s)} \in SUBSET (1 .. n)
      BY <2>1, LastFolded
    <3>2. f[s] = Exposed(f[s \ {Max(s)}], p[Max(s)], now, predicted)
      BY <3>1, Zenon DEF ImportedBy
    <3>3. Good(f[s \ {Max(s)}])
      BY <1>3, <3>1
    <3> QED
      BY <1>1, <3>2, <3>3
  <2>2. CASE k + 1 \notin s
    BY <1>3, <2>2, LastFolded
  <2> QED
    BY <2>1, <2>2
<1>4. n \in T
  <2> HIDE DEF T
  <2>1. Nat \subseteq T
    BY <1>2, <1>3, Induction
  <2> QED
    BY <2>1
<1> QED
  BY <1>4 DEF Good


(* An import reinforces and exposes on a settled brain.                    *)
LEMMA ImportsPay ==
    ASSUME Charged(gBrain), NEW p \in Seq(SUBSET GUnit), NEW states, NEW now \in Nat, NEW predicted,
           ImportKnowledge(p, states, now, predicted)
    PROVE  Charged(gBrain')
<1> DEFINE r == Routed(Settled(now), Exposure({}, now))
           s0 == Prepared(states, now)
<1>1. PICK n \in Nat : DOMAIN p = 1 .. n
  OBVIOUS
<1>2. PICK f : ImportedBy(f, n, p, s0, now, predicted) /\ gBrain' = f[1 .. n].brain
  BY <1>1, ImportUnfolds
<1>3. IsState(r) /\ r.brain = Settled(now).brain
  BY DEF Routed, Settled, IsState
<1>4. IsState(s0) /\ s0.brain = Reinforced(r.brain, states, now)
  <2>1. s0 = [r EXCEPT !.brain = Reinforced(@, states, now)]
    BY DEF Prepared
  <2> HIDE DEF r, s0
  <2> QED
    BY <1>3, <2>1 DEF IsState
<1> HIDE DEF s0, r
<1>5. Paid(s0.brain, now)
  BY <1>3, <1>4, SettledPays, LearningPays
<1>6. Paid(f[1 .. n].brain, now)
  BY <1>2, <1>4, <1>5, ImportPays
<1> QED
  BY <1>2, <1>6 DEF Paid

(* So does the outcome of an inquiry.                                      *)
LEMMA OutcomesPay ==
    ASSUME Charged(gBrain), NEW e, e.at \in Nat, NEW p \in Seq(SUBSET GUnit), NEW q, NEW predicted,
           InquiryOutcome(e, p, q, predicted)
    PROVE  Charged(gBrain')
<1> DEFINE settled == Settled(e.at)
           known == [settled EXCEPT !.brain = Strengthened(@, q.promoted, e.at)]
           s == Observed(known, e, p, predicted, TRUE)
           credited == Feedback(s.brain, q.targets, Actual(e), predicted, e.at)
<1>1. IsState(settled) /\ Paid(settled.brain, e.at)
  BY SettledPays
<1>2. gBrain' = [s EXCEPT !.brain = IF q.good THEN Strengthened(credited, q.eligible, e.at)
                                     ELSE Weakened(credited, q.eligible, e.at)].brain
  BY Zenon DEF InquiryOutcome, Become
<1> HIDE DEF settled
<1>3. IsState(known) /\ Paid(known.brain, e.at)
  <2>1. Paid(Strengthened(settled.brain, q.promoted, e.at), e.at)
    BY <1>1, LearningPays
  <2>2. known.brain = Strengthened(settled.brain, q.promoted, e.at) /\ IsState(known)
    BY <1>1 DEF IsState
  <2> QED
    BY <2>1, <2>2
<1> HIDE DEF known
<1>4. IsState(s) /\ Paid(s.brain, e.at)
  BY <1>3, ObservedPays
<1> HIDE DEF s
<1>5. Paid(credited, e.at)
  BY <1>4, FeedbackPays
<1> HIDE DEF credited
<1>6. Paid(Strengthened(credited, q.eligible, e.at), e.at) /\ Paid(Weakened(credited, q.eligible, e.at), e.at)
  BY <1>5, LearningPays
<1>7. gBrain' = IF q.good THEN Strengthened(credited, q.eligible, e.at)
                ELSE Weakened(credited, q.eligible, e.at)
  BY <1>2, <1>4 DEF IsState
<1> QED
  BY <1>6, <1>7 DEF Paid

(* So does an observation.                                                 *)
LEMMA ObservationsPay ==
    ASSUME Charged(gBrain), NEW e, e.at \in Nat, NEW p \in Seq(SUBSET GUnit), NEW predicted,
           Become(Observed(Settled(e.at), e, p, predicted, FALSE))
    PROVE  Charged(gBrain')
<1> DEFINE s == Settled(e.at)
           o == Observed(s, e, p, predicted, FALSE)
<1>1. IsState(s) /\ Paid(s.brain, e.at)
  BY SettledPays
<1>2. gBrain' = o.brain
  BY DEF Become
<1> HIDE DEF s
<1>3. Paid(o.brain, e.at)
  BY <1>1, ObservedPays
<1> QED
  BY <1>2, <1>3 DEF Paid

(* So does the processing of an input.                                     *)
LEMMA ProcessingPays ==
    ASSUME Charged(gBrain), NEW e, e.at \in Nat, NEW predicted, Process(e, predicted)
    PROVE  Charged(gBrain')
<1> DEFINE s == Settled(e.at)
           r == Routed(s, e)
           a == Activate(r, e, predicted, FALSE)
<1>1. IsState(s) /\ Paid(s.brain, e.at)
  BY SettledPays
<1>2. gBrain' = a.brain
  BY DEF Process, Become
<1> HIDE DEF s
<1>3. IsState(r) /\ r.brain = s.brain
  BY <1>1 DEF Routed, IsState
<1> HIDE DEF r
<1>4. Paid(a.brain, e.at)
  BY <1>1, <1>3, ActivationPays
<1> QED
  BY <1>2, <1>4 DEF Paid

(* The knowledge a brain starts with owes nothing.                         *)
LEMMA RetentionInit == GInit => Charged(gBrain)
<1> SUFFICES ASSUME GInit PROVE Charged(gBrain)
  OBVIOUS
<1> DEFINE w == [l \in Link |-> IF l \in GKnown THEN GTop ELSE 0]
           at == [l \in Link |-> IF l \in GKnown THEN 0 ELSE Never]
           zero == [l \in Link |-> 0]
<1>1. gBrain = [weight |-> w, at |-> at, mark |-> Never, patterns |-> GLesson,
                learned |-> w, from |-> zero, late |-> FALSE]
  BY DEF GInit
<1>2. w \in [Link -> Nat] /\ at \in [Link -> Int] /\ zero \in [Link -> Nat] /\ Never \in Int
  BY GAssumption DEF Never
<1>3. \A l \in Link : zero[l] = 0 /\ (at[l] = 0 \/ (at[l] = Never /\ w[l] = 0))
  OBVIOUS
<1>4. \A l \in Link : w[l] = Halved(w[l], Never - zero[l])
  <2> SUFFICES ASSUME NEW l \in Link PROVE w[l] = Halved(w[l], Never - zero[l])
    OBVIOUS
  <2>1. Never - zero[l] \in Int /\ Never - zero[l] <= 0
    BY <1>3 DEF Never
  <2> QED
    BY <2>1, HalvedNothing
<1> HIDE DEF w, at, zero
<1>5. gBrain \in Brains
  BY <1>1, <1>2, GAssumption DEF Brains
<1> QED
  BY <1>1, <1>3, <1>4, <1>5 DEF Charged, Untouched

(* No step leaves a connection with time it has not paid for.              *)
LEMMA RetentionStep == Charged(gBrain) /\ [GNext]_gVars => Charged(gBrain')
<1> SUFFICES ASSUME Charged(gBrain), [GNext]_gVars PROVE Charged(gBrain')
  OBVIOUS
<1>0. /\ \A now \in GTime : now \in Nat
      /\ \A p \in GLesson \cup {<<>>} : p \in Seq(SUBSET GUnit)
      /\ \A i, now : Stamped(i, now).at = now
  <2>1. \A now \in GTime : now \in Nat
    BY DEF GTime
  <2>2. \A p \in GLesson \cup {<<>>} : p \in Seq(SUBSET GUnit)
    <3>1. <<>> \in Seq(SUBSET GUnit)
      BY EmptySeq
    <3>2. GLesson \subseteq Seq(SUBSET GUnit)
      BY GAssumption
    <3> QED
      BY <3>1, <3>2
  <2>3. \A i, now : Stamped(i, now).at = now
    BY DEF Stamped
  <2> QED
    BY <2>1, <2>2, <2>3
<1>1. ASSUME NEW i \in GInput, NEW now \in GTime, NEW predicted \in GPredicted,
             Process(Stamped(i, now), predicted)
      PROVE  Charged(gBrain')
  BY <1>0, <1>1, ProcessingPays
<1>2. ASSUME NEW i \in GInput, NEW now \in GTime, NEW p \in GLesson \cup {<<>>}, NEW predicted \in GPredicted,
             Become(Observed(Settled(Stamped(i, now).at), Stamped(i, now), p, predicted, FALSE))
      PROVE  Charged(gBrain')
  <2> DEFINE e == Stamped(i, now)
  <2>1. e.at \in Nat /\ p \in Seq(SUBSET GUnit) /\ Become(Observed(Settled(e.at), e, p, predicted, FALSE))
    BY <1>0, <1>2
  <2> HIDE DEF e
  <2> QED
    BY <2>1, ObservationsPay
<1>3. ASSUME NEW i \in GInput, NEW now \in GTime, NEW predicted \in GPredicted,
             Sense(Stamped(i, now), predicted)
      PROVE  Charged(gBrain')
  BY <1>2, <1>3 DEF Sense
<1>4. ASSUME NEW i \in GInput, NEW now \in GTime, NEW predicted \in GPredicted,
             NEW p \in GLesson \cup {<<>>}, Observe(Stamped(i, now), p, predicted)
      PROVE  Charged(gBrain')
  BY <1>2, <1>4 DEF Observe
<1>5. ASSUME NEW i \in GInput, NEW now \in GTime, NEW predicted \in GPredicted,
             NEW p \in GLesson \cup {<<>>}, NEW q \in GInquiry,
             InquiryOutcome(Stamped(i, now), p, q, predicted)
      PROVE  Charged(gBrain')
  BY <1>0, <1>5, OutcomesPay
<1>6. ASSUME NEW now \in GTime, Think(now) PROVE Charged(gBrain')
  <2>1. gBrain' = Settled(now).brain
    BY <1>6 DEF Think, Become
  <2> QED
    BY <1>0, <2>1, SettledPays DEF Paid
<1>7. ASSUME NEW now \in GTime, NEW p \in GLesson, LearnExperience(p, now) PROVE Charged(gBrain')
  <2>1. gBrain' = Taught(Settled(now).brain, p, now)
    BY <1>7 DEF LearnExperience, Become, Settled
  <2> QED
    BY <1>0, <2>1, SettledPays, TaughtPays DEF Paid
<1>8. ASSUME NEW now \in GTime, NEW l \in Link, PromoteSynapse(l, now) PROVE Charged(gBrain')
  <2>1. gBrain' = Strengthened(Settled(now).brain, {l}, now)
    BY <1>8 DEF PromoteSynapse, Become, Settled
  <2> QED
    BY <1>0, <2>1, SettledPays, LearningPays DEF Paid
<1>9. ASSUME NEW now \in GTime, NEW p \in GLesson, NEW predicted \in GPredicted, NEW states,
             ImportKnowledge(p, states, now, predicted)
      PROVE  Charged(gBrain')
  BY <1>0, <1>9, ImportsPay
<1>10. CASE UNCHANGED gVars
  BY <1>10 DEF gVars
<1> QED
  BY <1>1, <1>3, <1>4, <1>5, <1>6, <1>7, <1>8, <1>9, <1>10 DEF GNext

(* Every connection has paid for exactly the time up to the watermark, and *)
(* whatever is learned is learned at a time that is paid for.              *)
THEOREM RetentionInvariance == GSpec => []Charged(gBrain)
<1>1. Charged(gBrain) /\ [GNext]_gVars => Charged(gBrain)'
  BY RetentionStep
<1> QED
  BY <1>1, RetentionInit, PTL DEF GSpec

(* However timestamps repeat, come late or go back, a connection has lost  *)
(* exactly the time since it was last learned, and nothing is learned on   *)
(* a weight that has not paid (settleMemoryTimeLocked,                     *)
(* ApplyMemoryDynamicsWithEncoding).                                       *)
THEOREM RetentionHolds == GSpec => []RetentionExact
<1>1. Charged(gBrain) => RetentionExact
  BY DEF Charged, RetentionExact
<1> QED
  BY <1>1, RetentionInvariance, PTL

-----------------------------------------------------------------------------
(* What the recurrent context remembers: frames within the budgets, in the *)
(* order in which they were observed.                                      *)

Frame == [pop : SUBSET GUnit, at : Nat, ord : Nat]
Sight == [pop : SUBSET GUnit, at : Nat]

(* The frames of one sequence are among those of another, in its order.    *)
Increasing(g) == \A i, j \in DOMAIN g : i < j => g[i] < g[j]
Drawn(a, b) ==
    \E g \in [DOMAIN a -> DOMAIN b] : Increasing(g) /\ \A i \in DOMAIN a : a[i] = b[g[i]]

Budgeted(frames) == Len(frames) <= GFrames /\ MembersOf(frames) <= GMembers
Ordered(frames, ordinal) ==
    /\ \A i \in DOMAIN frames : frames[i].ord <= ordinal
    /\ \A i, j \in DOMAIN frames :
         i < j => frames[i].ord < frames[j].ord /\ frames[i].at <= frames[j].at
(* Each frame was seen, and they were seen in their order.                 *)
Placed(frames, seen, upto) ==
    \E g \in [DOMAIN frames -> 1 .. upto] :
       /\ Increasing(g)
       /\ \A i \in DOMAIN frames : seen[g[i]].pop = frames[i].pop /\ seen[g[i]].at = frames[i].at

MembersBy(f, n, frames) ==
    f = [s \in SUBSET (1 .. n) |->
            IF s = {} THEN 0 ELSE f[s \ {Max(s)}] + Cardinality(frames[Max(s)].pop)]

(* What a frame is made of.                                                *)
LEMMA FrameParts ==
    ASSUME NEW frames \in Seq(Frame), NEW i \in DOMAIN frames
    PROVE  frames[i].pop \in SUBSET GUnit /\ frames[i].at \in Nat /\ frames[i].ord \in Nat
<1>1. frames[i] \in Frame
  OBVIOUS
<1>2. \A frame \in Frame : frame.pop \in SUBSET GUnit /\ frame.at \in Nat /\ frame.ord \in Nat
  BY DEF Frame
<1> QED
  BY <1>1, <1>2

(* Its members can be counted.                                             *)
LEMMA FrameMembers ==
    ASSUME NEW frame \in Frame
    PROVE  Cardinality(frame.pop) \in Nat
<1>1. frame.pop \in SUBSET GUnit
  BY DEF Frame
<1>2. IsFiniteSet(frame.pop)
  BY <1>1, GAssumption, FS_Subset
<1> QED
  BY <1>2, FS_CardinalityType

(* The members of frames, frame by frame.                                  *)
LEMMA MembersUnfold ==
    ASSUME NEW frames \in Seq(Frame), NEW n \in Nat, DOMAIN frames = 1 .. n
    PROVE  \E f \in [SUBSET (1 .. n) -> Nat] : MembersBy(f, n, frames) /\ MembersOf(frames) = f[1 .. n]
<1> DEFINE it == CHOOSE f : f = [s \in SUBSET DOMAIN frames |->
                     IF s = {} THEN 0 ELSE f[s \ {Max(s)}] + Cardinality(frames[Max(s)].pop)]
           step == [v \in Nat \X (1 .. n) |-> v[1] + Cardinality(frames[v[2]].pop)]
<1>1. MembersOf(frames) = it[DOMAIN frames]
  BY Zenon DEF MembersOf, FoldLeft, MapThenFoldSet
<1>2. it = CHOOSE f : MembersBy(f, n, frames)
  BY Zenon DEF MembersBy
<1>3. \A k \in 1 .. n : Cardinality(frames[k].pop) \in Nat
  BY FrameMembers
<1>4. step \in [Nat \X (1 .. n) -> Nat] /\ \A v \in Nat, k \in 1 .. n : step[<<v, k>>] = v + Cardinality(frames[k].pop)
  BY <1>3
<1> HIDE DEF step, it
<1>5. PICK g \in [SUBSET (1 .. n) -> Nat] : Folded(g, n, 0, step)
  BY <1>4, FoldExists, Zenon
<1>6. MembersBy(g, n, frames)
  <2>1. ASSUME NEW s \in SUBSET (1 .. n)
        PROVE  g[s] = IF s = {} THEN 0 ELSE g[s \ {Max(s)}] + Cardinality(frames[Max(s)].pop)
    <3>1. CASE s = {}
      BY <1>5, <3>1, Zenon DEF Folded
    <3>2. CASE s # {}
      <4>1. Max(s) \in 1 .. n /\ s \ {Max(s)} \in SUBSET (1 .. n)
        BY <3>2, MaxIsIn
      <4>2. g[s] = step[<<g[s \ {Max(s)}], Max(s)>>]
        BY <1>5, <3>2, Zenon DEF Folded
      <4>3. g[s \ {Max(s)}] \in Nat
        BY <4>1
      <4> QED
        BY <1>4, <3>2, <4>1, <4>2, <4>3
    <3> QED
      BY <3>1, <3>2
  <2>2. g = [s \in SUBSET (1 .. n) |-> g[s]]
    OBVIOUS
  <2> QED
    BY <2>1, <2>2, Zenon DEF MembersBy
<1>7. MembersBy(it, n, frames)
  BY <1>2, <1>6, Zenon
<1>8. ASSUME NEW s \in SUBSET (1 .. n), s # {}, it[s \ {Max(s)}] = g[s \ {Max(s)}]
      PROVE  it[s] = g[s]
  BY <1>6, <1>7, <1>8, Zenon DEF MembersBy
<1>9. it[{}] = g[{}]
  <2>1. {} \in SUBSET (1 .. n)
    OBVIOUS
  <2> QED
    BY <1>6, <1>7, <2>1, Zenon DEF MembersBy
<1>10. it[1 .. n] = g[1 .. n]
  BY <1>8, <1>9, FoldUnique
<1> QED
  BY <1>1, <1>6, <1>10

(* A further frame adds its members.                                       *)
LEMMA MembersCount ==
    /\ MembersOf(<<>>) = 0
    /\ \A frames \in Seq(Frame) : MembersOf(frames) \in Nat
    /\ \A frames \in Seq(Frame), frame \in Frame :
         MembersOf(Append(frames, frame)) = MembersOf(frames) + Cardinality(frame.pop)
<1>1. ASSUME NEW frames \in Seq(Frame) PROVE MembersOf(frames) \in Nat
  <2>1. PICK n \in Nat : DOMAIN frames = 1 .. n
    OBVIOUS
  <2>2. PICK f \in [SUBSET (1 .. n) -> Nat] : MembersOf(frames) = f[1 .. n]
    BY <2>1, MembersUnfold
  <2> QED
    BY <2>2
<1>2. MembersOf(<<>>) = 0
  <2> DEFINE none == <<>>
  <2>1. none \in Seq(Frame) /\ DOMAIN none = 1 .. 0
    BY EmptySeq
  <2> HIDE DEF none
  <2>2. PICK f \in [SUBSET (1 .. 0) -> Nat] : MembersBy(f, 0, none) /\ MembersOf(none) = f[1 .. 0]
    BY <2>1, MembersUnfold
  <2>3. 1 .. 0 = {} /\ {} \in SUBSET (1 .. 0)
    OBVIOUS
  <2>4. f[{}] = 0
    BY <2>2, <2>3, Zenon DEF MembersBy
  <2> QED
    BY <2>2, <2>3, <2>4 DEF none
<1>3. ASSUME NEW frames \in Seq(Frame), NEW frame \in Frame
      PROVE  MembersOf(Append(frames, frame)) = MembersOf(frames) + Cardinality(frame.pop)
  <2> DEFINE more == Append(frames, frame)
  <2>1. PICK n \in Nat : n = Len(frames) /\ DOMAIN frames = 1 .. n
    OBVIOUS
  <2>2. /\ more \in Seq(Frame) /\ DOMAIN more = 1 .. n + 1 /\ more[n + 1] = frame
        /\ \A i \in 1 .. n : more[i] = frames[i]
    BY <2>1
  <2> HIDE DEF more
  <2>3. PICK f : MembersBy(f, n, frames) /\ MembersOf(frames) = f[1 .. n]
    BY <2>1, MembersUnfold
  <2>4. PICK g : MembersBy(g, n + 1, more) /\ MembersOf(more) = g[1 .. n + 1]
    <3>1. n + 1 \in Nat
      OBVIOUS
    <3> QED
      BY <2>2, <3>1, MembersUnfold
  <2>5. f[{}] = 0 /\ g[{}] = 0
    <3>1. {} \in SUBSET (1 .. n) /\ {} \in SUBSET (1 .. n + 1)
      OBVIOUS
    <3> QED
      BY <2>3, <2>4, <3>1, Zenon DEF MembersBy
  <2>6. ASSUME NEW s \in SUBSET (1 .. n), s # {}, f[s \ {Max(s)}] = g[s \ {Max(s)}]
        PROVE  f[s] = g[s]
    <3>1. s \in SUBSET (1 .. n + 1) /\ Max(s) \in 1 .. n
      <4>1. Max(s) \in s
        BY <2>6, MaxIsIn
      <4>2. 1 .. n \subseteq 1 .. n + 1
        OBVIOUS
      <4> QED
        BY <4>1, <4>2
    <3>2. f[s] = f[s \ {Max(s)}] + Cardinality(frames[Max(s)].pop)
      BY <2>3, <2>6, Zenon DEF MembersBy
    <3>3. g[s] = g[s \ {Max(s)}] + Cardinality(more[Max(s)].pop)
      BY <2>4, <2>6, <3>1, Zenon DEF MembersBy
    <3>4. more[Max(s)] = frames[Max(s)]
      BY <2>2, <3>1
    <3> QED
      BY <2>6, <3>2, <3>3, <3>4
  <2>7. f[1 .. n] = g[1 .. n]
    BY <2>5, <2>6, FoldUnique
  <2>8. /\ Max(1 .. n + 1) = n + 1 /\ (1 .. n + 1) \ {n + 1} = 1 .. n
        /\ 1 .. n + 1 \in SUBSET (1 .. n + 1) /\ 1 .. n + 1 # {}
    <3>1. n + 1 \in 1 .. n + 1
      OBVIOUS
    <3>2. 1 .. n + 1 \in SUBSET (1 .. n + 1)
      OBVIOUS
    <3>3. Max(1 .. n + 1) = n + 1
      BY <3>1, <3>2, LastFolded
    <3> QED
      BY <3>1, <3>2, <3>3
  <2>9. g[1 .. n + 1] = g[1 .. n] + Cardinality(frame.pop)
    <3>1. g[1 .. n + 1] = g[(1 .. n + 1) \ {Max(1 .. n + 1)}] + Cardinality(more[Max(1 .. n + 1)].pop)
      BY <2>4, <2>8, Zenon DEF MembersBy
    <3> QED
      BY <2>2, <2>8, <3>1
  <2> QED
    BY <2>3, <2>4, <2>7, <2>9 DEF more
<1> QED
  BY <1>1, <1>2, <1>3

(* Leaving out the oldest frames until the rest fits always ends.          *)
LEMMA TrimmedFits ==
    ASSUME NEW frames \in Seq(Frame)
    PROVE  \E k \in 0 .. Len(frames) :
              /\ Trimmed(frames) = SubSeq(frames, k + 1, Len(frames))
              /\ Len(frames) - k <= GFrames
              /\ MembersOf(SubSeq(frames, k + 1, Len(frames))) <= GMembers
<1> DEFINE fits(k) == /\ Len(frames) - k <= GFrames
                      /\ MembersOf(SubSeq(frames, k + 1, Len(frames))) <= GMembers
           T == {k \in 0 .. Len(frames) : fits(k)}
           least == CHOOSE i \in 0 .. Len(frames) : fits(i) /\ \A j \in 0 .. i - 1 : ~fits(j)
<1>1. GFrames \in Nat /\ GMembers \in Nat
  BY GAssumption
<1>2. Len(frames) \in Nat
  OBVIOUS
<1>3. fits(Len(frames))
  <2>1. SubSeq(frames, Len(frames) + 1, Len(frames)) = <<>>
    OBVIOUS
  <2>2. Len(frames) - Len(frames) = 0
    BY <1>2
  <2>3. MembersOf(SubSeq(frames, Len(frames) + 1, Len(frames))) = 0
    BY <2>1, MembersCount, Zenon
  <2>4. 0 <= GFrames /\ 0 <= GMembers
    BY <1>1
  <2> QED
    BY <2>2, <2>3, <2>4
<1>4. Trimmed(frames) = SubSeq(frames, least + 1, Len(frames))
  BY Zenon DEF Trimmed
<1> HIDE DEF fits
<1>5. T \subseteq Nat /\ T # {}
  BY <1>2, <1>3
<1>6. PICK i \in T : \A j \in T : i <= j
  BY <1>5, LeastOf
<1>7. i \in 0 .. Len(frames) /\ fits(i) /\ \A j \in 0 .. i - 1 : ~fits(j)
  BY <1>2, <1>6
<1>8. least \in 0 .. Len(frames) /\ fits(least)
  <2> HIDE DEF T
  <2> QED
    BY <1>7, Zenon
<1> QED
  BY <1>4, <1>8 DEF fits

(* What is drawn from frames keeps their order and their places.           *)
LEMMA DrawnKeeps ==
    ASSUME NEW a \in Seq(Frame), NEW b \in Seq(Frame), Drawn(a, b),
           NEW ordinal, NEW seen, NEW upto
    PROVE  /\ Ordered(b, ordinal) => Ordered(a, ordinal)
           /\ Placed(b, seen, upto) => Placed(a, seen, upto)
           /\ \A i \in DOMAIN a : \E j \in DOMAIN b : a[i] = b[j]
<1>1. PICK g \in [DOMAIN a -> DOMAIN b] : Increasing(g) /\ \A i \in DOMAIN a : a[i] = b[g[i]]
  BY DEF Drawn
<1>2. Ordered(b, ordinal) => Ordered(a, ordinal)
  BY <1>1 DEF Ordered, Increasing
<1>3. ASSUME Placed(b, seen, upto) PROVE Placed(a, seen, upto)
  <2>1. PICK h \in [DOMAIN b -> 1 .. upto] :
           /\ Increasing(h)
           /\ \A i \in DOMAIN b : seen[h[i]].pop = b[i].pop /\ seen[h[i]].at = b[i].at
    BY <1>3 DEF Placed
  <2> DEFINE both == [i \in DOMAIN a |-> h[g[i]]]
  <2>2. both \in [DOMAIN a -> 1 .. upto]
    BY <1>1, <2>1
  <2>3. Increasing(both)
    BY <1>1, <2>1 DEF Increasing
  <2>4. \A i \in DOMAIN a : seen[both[i]].pop = a[i].pop /\ seen[both[i]].at = a[i].at
    BY <1>1, <2>1
  <2> HIDE DEF both
  <2> QED
    BY <2>2, <2>3, <2>4 DEF Placed
<1> QED
  BY <1>1, <1>2, <1>3

(* What trimming leaves fits the budgets.                                  *)
LEMMA SuffixDrawn ==
    ASSUME NEW frames \in Seq(Frame)
    PROVE  /\ Trimmed(frames) \in Seq(Frame) /\ Drawn(Trimmed(frames), frames)
           /\ Budgeted(Trimmed(frames))
<1>1. PICK k \in 0 .. Len(frames) :
         /\ Trimmed(frames) = SubSeq(frames, k + 1, Len(frames))
         /\ Len(frames) - k <= GFrames
         /\ MembersOf(SubSeq(frames, k + 1, Len(frames))) <= GMembers
  BY TrimmedFits
<1>2. PICK n \in Nat : n = Len(frames) /\ DOMAIN frames = 1 .. n
  OBVIOUS
<1> DEFINE a == SubSeq(frames, k + 1, Len(frames))
           g == [i \in 1 .. n - k |-> i + k]
<1>3. /\ a \in Seq(Frame) /\ Len(a) = n - k /\ DOMAIN a = 1 .. n - k
      /\ \A i \in 1 .. n - k : a[i] = frames[i + k]
  BY <1>2
<1>4. g \in [1 .. n - k -> 1 .. n] /\ Increasing(g)
  BY <1>2 DEF Increasing
<1>5. \A i \in DOMAIN a : a[i] = frames[g[i]]
  BY <1>3
<1> HIDE DEF a, g
<1>6. Drawn(a, frames)
  BY <1>2, <1>3, <1>4, <1>5 DEF Drawn
<1>7. Budgeted(a)
  BY <1>1, <1>2, <1>3 DEF Budgeted, a
<1> QED
  BY <1>1, <1>3, <1>6, <1>7 DEF a

Kept(kept, f, now) == IF now - f.at \in 0 .. GAge THEN Append(kept, f) ELSE kept
RecentBy(f, n, frames, now) ==
    f = [s \in SUBSET (1 .. n) |->
            IF s = {} THEN <<>> ELSE Kept(f[s \ {Max(s)}], frames[Max(s)], now)]

(* The recent frames, frame by frame.                                      *)
LEMMA RecentUnfolds ==
    ASSUME NEW frames \in Seq(Frame), NEW n \in Nat, DOMAIN frames = 1 .. n, NEW now
    PROVE  \E f \in [SUBSET (1 .. n) -> Seq(Frame)] :
              RecentBy(f, n, frames, now) /\ Recent(frames, now) = f[1 .. n]
<1> DEFINE it == CHOOSE f : f = [s \in SUBSET DOMAIN frames |->
                     IF s = {} THEN <<>> ELSE Kept(f[s \ {Max(s)}], frames[Max(s)], now)]
           A == Seq(Frame)
           step == [v \in A \X (1 .. n) |-> Kept(v[1], frames[v[2]], now)]
<1>1. Recent(frames, now) = it[DOMAIN frames]
  BY Zenon DEF Recent, FoldLeft, MapThenFoldSet, Kept
<1>2. it = CHOOSE f : RecentBy(f, n, frames, now)
  BY Zenon DEF RecentBy
<1>3. \A kept \in A, k \in 1 .. n : Kept(kept, frames[k], now) \in A
  BY DEF Kept
<1>4. <<>> \in A
  BY EmptySeq
<1> HIDE DEF A
<1>5. step \in [A \X (1 .. n) -> A] /\ \A v \in A, k \in 1 .. n : step[<<v, k>>] = Kept(v, frames[k], now)
  BY <1>3
<1> HIDE DEF step, it
<1>6. PICK g \in [SUBSET (1 .. n) -> A] : Folded(g, n, <<>>, step)
  BY <1>4, <1>5, FoldExists, Zenon
<1>7. RecentBy(g, n, frames, now)
  <2>1. ASSUME NEW s \in SUBSET (1 .. n)
        PROVE  g[s] = IF s = {} THEN <<>> ELSE Kept(g[s \ {Max(s)}], frames[Max(s)], now)
    <3>1. CASE s = {}
      BY <1>6, <3>1, Zenon DEF Folded
    <3>2. CASE s # {}
      <4>1. Max(s) \in s /\ s \ {Max(s)} \in SUBSET (1 .. n)
        BY <3>2, MaxIsIn
      <4>2. g[s] = step[<<g[s \ {Max(s)}], Max(s)>>]
        BY <1>6, <3>2, Zenon DEF Folded
      <4>3. g[s \ {Max(s)}] \in A /\ Max(s) \in 1 .. n
        BY <4>1
      <4> QED
        BY <1>5, <3>2, <4>2, <4>3, Zenon
    <3> QED
      BY <3>1, <3>2
  <2>2. g = [s \in SUBSET (1 .. n) |-> g[s]]
    OBVIOUS
  <2> QED
    BY <2>1, <2>2, Zenon DEF RecentBy
<1>8. RecentBy(it, n, frames, now)
  BY <1>2, <1>7, Zenon
<1>9. ASSUME NEW s \in SUBSET (1 .. n), s # {}, it[s \ {Max(s)}] = g[s \ {Max(s)}]
      PROVE  it[s] = g[s]
  BY <1>7, <1>8, <1>9, Zenon DEF RecentBy
<1>10. it[{}] = g[{}]
  <2>1. {} \in SUBSET (1 .. n)
    OBVIOUS
  <2> QED
    BY <1>7, <1>8, <2>1, Zenon DEF RecentBy
<1>11. it[1 .. n] = g[1 .. n]
  BY <1>9, <1>10, FoldUnique
<1> QED
  BY <1>1, <1>7, <1>11 DEF A

(* The recent frames are some of the frames, in their order.               *)
LEMMA RecentDrawn ==
    ASSUME NEW frames \in Seq(Frame), NEW now \in Int
    PROVE  /\ Recent(frames, now) \in Seq(Frame) /\ Drawn(Recent(frames, now), frames)
           /\ Len(Recent(frames, now)) <= Len(frames)
           /\ MembersOf(Recent(frames, now)) <= MembersOf(frames)
           /\ \A i \in DOMAIN Recent(frames, now) : now - Recent(frames, now)[i].at \in 0 .. GAge
<1>1. PICK n \in Nat : n = Len(frames) /\ DOMAIN frames = 1 .. n
  OBVIOUS
<1>2. PICK f \in [SUBSET (1 .. n) -> Seq(Frame)] :
         RecentBy(f, n, frames, now) /\ Recent(frames, now) = f[1 .. n]
  BY <1>1, RecentUnfolds
<1>3. PICK c \in [SUBSET (1 .. n) -> Nat] : MembersBy(c, n, frames) /\ MembersOf(frames) = c[1 .. n]
  BY <1>1, MembersUnfold
<1> DEFINE Good(r, k) ==
             /\ r \in Seq(Frame) /\ Len(r) <= k /\ MembersOf(r) <= c[1 .. k]
             /\ \A i \in DOMAIN r : now - r[i].at \in 0 .. GAge
             /\ \E g \in [DOMAIN r -> 1 .. k] : Increasing(g) /\ \A i \in DOMAIN r : r[i] = frames[g[i]]
           T == {k \in Nat : k <= n => Good(f[1 .. k], k)}
<1>4. 0 \in T
  <2>1. 1 .. 0 = {} /\ {} \in SUBSET (1 .. n)
    OBVIOUS
  <2>2. f[{}] = <<>> /\ c[{}] = 0
    BY <1>2, <1>3, <2>1, Zenon DEF RecentBy, MembersBy
  <2> DEFINE none == <<>>
             g == [i \in {} |-> 0]
  <2>3. none \in Seq(Frame) /\ Len(none) = 0 /\ DOMAIN none = {}
    BY EmptySeq
  <2>4. MembersOf(none) = 0
    BY MembersCount
  <2>5. g \in [DOMAIN none -> 1 .. 0] /\ Increasing(g)
    BY <2>3 DEF Increasing
  <2> HIDE DEF none, g
  <2>6. Good(none, 0)
    BY <2>1, <2>2, <2>3, <2>4, <2>5
  <2> QED
    BY <2>1, <2>2, <2>6 DEF none
<1>5. ASSUME NEW k \in Nat, k \in T PROVE k + 1 \in T
  <2>0. k + 1 \in Nat
    OBVIOUS
  <2> SUFFICES ASSUME k + 1 <= n PROVE Good(f[1 .. k + 1], k + 1)
    BY <2>0, Zenon
  <2>1. k < n /\ k <= n /\ k + 1 \in 1 .. n /\ Good(f[1 .. k], k)
    BY <1>5
  <2>2. /\ 1 .. k \in SUBSET (1 .. n) /\ 1 .. k + 1 \in SUBSET (1 .. n) /\ 1 .. k + 1 # {}
        /\ Max(1 .. k + 1) = k + 1 /\ (1 .. k + 1) \ {Max(1 .. k + 1)} = 1 .. k
    BY <2>1, PrefixFolded
  <2>3. PICK r : r = f[1 .. k]
    OBVIOUS
  <2>4. PICK frame : frame = frames[k + 1]
    OBVIOUS
  <2>5. f[1 .. k + 1] = Kept(r, frame, now)
    BY <1>2, <2>2, <2>3, <2>4, Zenon DEF RecentBy
  <2>6. c[1 .. k + 1] = c[1 .. k] + Cardinality(frame.pop)
    BY <1>3, <2>2, <2>4, Zenon DEF MembersBy
  <2>7. frame \in Frame /\ Cardinality(frame.pop) \in Nat /\ c[1 .. k] \in Nat
    <3>1. frame \in Frame
      BY <1>1, <2>1, <2>4
    <3>2. Cardinality(frame.pop) \in Nat
      BY <3>1, FrameMembers
    <3>3. c[1 .. k] \in Nat
      BY <1>3, <2>2
    <3> QED
      BY <3>1, <3>2, <3>3
  <2>8. Good(r, k)
    BY <2>1, <2>3
  <2>9. PICK g \in [DOMAIN r -> 1 .. k] : Increasing(g) /\ \A i \in DOMAIN r : r[i] = frames[g[i]]
    BY <2>8
  <2>10. r \in Seq(Frame) /\ MembersOf(r) \in Nat
    BY <2>8, MembersCount
  <2>11. CASE now - frame.at \in 0 .. GAge
    <3>1. f[1 .. k + 1] = Append(r, frame)
      BY <2>5, <2>11 DEF Kept
    <3>2. PICK m \in Nat : m = Len(r) /\ DOMAIN r = 1 .. m
      BY <2>10
    <3>3. PICK t : t = Append(r, frame)
      OBVIOUS
    <3>4. /\ t \in Seq(Frame) /\ Len(t) = m + 1 /\ DOMAIN t = 1 .. m + 1 /\ t[m + 1] = frame
          /\ \A i \in 1 .. m : t[i] = r[i]
      BY <2>7, <2>10, <3>2, <3>3
    <3>5. MembersOf(t) = MembersOf(r) + Cardinality(frame.pop)
      BY <2>7, <2>10, <3>3, MembersCount
    <3> DEFINE h == [i \in 1 .. m + 1 |-> IF i = m + 1 THEN k + 1 ELSE g[i]]
    <3>6. h \in [DOMAIN t -> 1 .. k + 1] /\ Increasing(h)
      <4>1. \A i \in 1 .. m : g[i] \in 1 .. k
        BY <2>9, <3>2
      <4>2. h \in [1 .. m + 1 -> 1 .. k + 1]
        BY <4>1
      <4>3. \A i, j \in 1 .. m + 1 : i < j => i \in 1 .. m /\ (j = m + 1 \/ j \in 1 .. m)
        OBVIOUS
      <4>4. DOMAIN h = 1 .. m + 1 /\ h[m + 1] = k + 1 /\ \A i \in 1 .. m : h[i] = g[i]
        OBVIOUS
      <4>5. \A i, j \in 1 .. m : i < j => g[i] < g[j]
        BY <2>9, <3>2 DEF Increasing
      <4> HIDE DEF h
      <4>6. ASSUME NEW i \in 1 .. m + 1, NEW j \in 1 .. m + 1, i < j PROVE h[i] < h[j]
        <5>1. i \in 1 .. m /\ (j = m + 1 \/ j \in 1 .. m)
          BY <4>3, <4>6
        <5>2. CASE j = m + 1
          <6>1. h[i] \in 1 .. k
            BY <4>1, <4>4, <5>1
          <6> QED
            BY <4>4, <5>2, <6>1
        <5>3. CASE j \in 1 .. m
          BY <4>4, <4>5, <4>6, <5>1, <5>3
        <5> QED
          BY <5>1, <5>2, <5>3
      <4>7. Increasing(h)
        BY <4>4, <4>6 DEF Increasing
      <4> QED
        BY <3>4, <4>2, <4>7
    <3>7. \A i \in DOMAIN t : t[i] = frames[h[i]]
      <4>1. \A i \in 1 .. m + 1 : i = m + 1 \/ i \in 1 .. m
        OBVIOUS
      <4> QED
        BY <2>4, <2>9, <3>2, <3>4, <4>1
    <3>8. \A i \in DOMAIN t : now - t[i].at \in 0 .. GAge
      <4>1. \A i \in 1 .. m + 1 : i = m + 1 \/ i \in 1 .. m
        OBVIOUS
      <4> QED
        BY <2>8, <2>11, <3>2, <3>4, <4>1
    <3>9. Len(t) <= k + 1
      BY <2>8, <3>2, <3>4
    <3>10. MembersOf(t) <= c[1 .. k + 1]
      BY <2>6, <2>7, <2>8, <2>10, <3>5
    <3> HIDE DEF h
    <3>11. Good(t, k + 1)
      BY <3>4, <3>6, <3>7, <3>8, <3>9, <3>10
    <3>12. f[1 .. k + 1] = t
      BY <3>1, <3>3
    <3> HIDE DEF Good
    <3> QED
      BY <3>11, <3>12, Zenon
  <2>12. CASE now - frame.at \notin 0 .. GAge
    <3>1. f[1 .. k + 1] = r
      BY <2>5, <2>12 DEF Kept
    <3>2. g \in [DOMAIN r -> 1 .. k + 1]
      BY <2>9
    <3>3. Len(r) <= k + 1 /\ MembersOf(r) <= c[1 .. k + 1]
      BY <2>6, <2>7, <2>8, <2>10
    <3> QED
      BY <2>8, <2>9, <3>1, <3>2, <3>3
  <2> QED
    BY <2>11, <2>12
<1> HIDE DEF T
<1>6. Nat \subseteq T
  BY <1>4, <1>5, Induction
<1> HIDE DEF Good
<1>7. Good(f[1 .. n], n)
  BY <1>6 DEF T
<1> QED
  BY <1>1, <1>2, <1>3, <1>7 DEF Good, Drawn

-----------------------------------------------------------------------------
(* Observing.                                                              *)

IsMemory(c) ==
    /\ IsContext(c) /\ c.frames \in Seq(Frame) /\ Budgeted(c.frames)
    /\ c.ordinal \in Nat /\ c.cue \in Nat /\ c.cue <= c.ordinal + 1
    /\ c.frames # <<>> => c.cue > 0
    /\ Ordered(c.frames, c.ordinal)

(* Nothing is remembered from later than now, and the cue is from now.     *)
Present(c, now) ==
    \A i \in DOMAIN c.frames :
       c.frames[i].at <= now /\ (c.frames[i].ord >= c.cue => c.frames[i].at = now)

Extended(t, frames, frame, ordinal, seen, upto) ==
    /\ t \in Seq(Frame) /\ Ordered(t, ordinal + 1) /\ Placed(t, seen, upto + 1)
    /\ \A i \in DOMAIN t : t[i] = frame \/ \E j \in DOMAIN frames : t[i] = frames[j]

(* A frame of now may follow frames that are not later.                    *)
LEMMA AppendHolds ==
    ASSUME NEW frames \in Seq(Frame), NEW ordinal \in Nat, Ordered(frames, ordinal),
           NEW now \in Nat, \A i \in DOMAIN frames : frames[i].at <= now,
           NEW pop \in SUBSET GUnit, NEW seen, NEW upto \in Nat, Placed(frames, seen, upto),
           seen[upto + 1].pop = pop, seen[upto + 1].at = now,
           NEW frame \in Frame, frame.pop = pop, frame.at = now, frame.ord = ordinal + 1
    PROVE  Extended(Append(frames, frame), frames, frame, ordinal, seen, upto)
<1>1. /\ frame \in Frame /\ frame.ord = ordinal + 1 /\ frame.at = now /\ frame.pop = pop
  OBVIOUS
<1>2. PICK m \in Nat : m = Len(frames) /\ DOMAIN frames = 1 .. m
  OBVIOUS
<1>3. PICK t : t = Append(frames, frame)
  OBVIOUS
<1>4. /\ t \in Seq(Frame) /\ DOMAIN t = 1 .. m + 1 /\ t[m + 1] = frame
      /\ \A i \in 1 .. m : t[i] = frames[i]
  BY <1>1, <1>2, <1>3
<1>5. \A i \in 1 .. m + 1 : i = m + 1 \/ i \in 1 .. m
  OBVIOUS
<1>6. \A i \in 1 .. m : frames[i].ord \in Nat /\ frames[i].at \in Nat
  BY <1>2, FrameParts
<1>7. \A i, j \in 1 .. m + 1 : i < j => i \in 1 .. m /\ (j = m + 1 \/ j \in 1 .. m)
  OBVIOUS
<1>8. Ordered(t, ordinal + 1)
  <2>1. ASSUME NEW i \in 1 .. m + 1 PROVE t[i].ord <= ordinal + 1
    <3>1. CASE i = m + 1
      BY <1>1, <1>4, <3>1
    <3>2. CASE i \in 1 .. m
      <4>1. t[i] = frames[i] /\ frames[i].ord <= ordinal /\ frames[i].ord \in Nat
        BY <1>2, <1>4, <1>6, <3>2 DEF Ordered
      <4> QED
        BY <4>1
    <3> QED
      BY <1>5, <3>1, <3>2
  <2>2. ASSUME NEW i \in 1 .. m + 1, NEW j \in 1 .. m + 1, i < j
        PROVE  t[i].ord < t[j].ord /\ t[i].at <= t[j].at
    <3>1. i \in 1 .. m /\ (j = m + 1 \/ j \in 1 .. m)
      BY <1>7, <2>2
    <3>2. CASE j = m + 1
      <4>1. frames[i].ord <= ordinal /\ frames[i].at <= now
        BY <1>2, <3>1 DEF Ordered
      <4>2. t[i] = frames[i] /\ t[j] = frame
        BY <1>4, <3>1, <3>2
      <4> QED
        BY <1>1, <1>6, <3>1, <4>1, <4>2
    <3>3. CASE j \in 1 .. m
      BY <1>2, <1>4, <2>2, <3>1, <3>3 DEF Ordered
    <3> QED
      BY <3>1, <3>2, <3>3
  <2> QED
    BY <1>4, <2>1, <2>2 DEF Ordered
<1>9. Placed(t, seen, upto + 1)
  <2>1. PICK g \in [DOMAIN frames -> 1 .. upto] :
           /\ Increasing(g)
           /\ \A i \in DOMAIN frames : seen[g[i]].pop = frames[i].pop /\ seen[g[i]].at = frames[i].at
    BY DEF Placed
  <2> DEFINE h == [i \in 1 .. m + 1 |-> IF i = m + 1 THEN upto + 1 ELSE g[i]]
  <2>2. \A i \in 1 .. m : g[i] \in 1 .. upto
    BY <1>2, <2>1
  <2>3. DOMAIN h = 1 .. m + 1 /\ h[m + 1] = upto + 1 /\ \A i \in 1 .. m : h[i] = g[i]
    OBVIOUS
  <2>4. h \in [1 .. m + 1 -> 1 .. upto + 1]
    BY <2>2
  <2> HIDE DEF h
  <2>5. ASSUME NEW i \in 1 .. m + 1, NEW j \in 1 .. m + 1, i < j PROVE h[i] < h[j]
    <3>1. i \in 1 .. m /\ (j = m + 1 \/ j \in 1 .. m)
      BY <1>7, <2>5
    <3>2. CASE j = m + 1
      <4>1. h[i] \in 1 .. upto
        BY <2>2, <2>3, <3>1
      <4> QED
        BY <2>3, <3>2, <4>1
    <3>3. CASE j \in 1 .. m
      BY <1>2, <2>1, <2>3, <2>5, <3>1, <3>3 DEF Increasing
    <3> QED
      BY <3>1, <3>2, <3>3
  <2>6. Increasing(h)
    BY <2>3, <2>5 DEF Increasing
  <2>7. ASSUME NEW i \in 1 .. m + 1 PROVE seen[h[i]].pop = t[i].pop /\ seen[h[i]].at = t[i].at
    <3>1. CASE i = m + 1
      BY <1>1, <1>4, <2>3, <3>1
    <3>2. CASE i \in 1 .. m
      BY <1>2, <1>4, <2>1, <2>3, <3>2
    <3> QED
      BY <1>5, <3>1, <3>2
  <2>8. h \in [DOMAIN t -> 1 .. upto + 1]
    BY <1>4, <2>4
  <2>9. \A i \in DOMAIN t : seen[h[i]].pop = t[i].pop /\ seen[h[i]].at = t[i].at
    BY <1>4, <2>7
  <2> QED
    BY <2>6, <2>8, <2>9, Zenon DEF Placed
<1>10. \A i \in DOMAIN t : t[i] = frame \/ \E j \in DOMAIN frames : t[i] = frames[j]
  BY <1>2, <1>4, <1>5
<1> QED
  BY <1>3, <1>4, <1>8, <1>9, <1>10 DEF Extended

(* One more population, whether it fits the budget or not.                 *)
LEMMA AddedHolds ==
    ASSUME NEW e, e.at \in Nat, NEW d, IsMemory(d), d.cue > 0, Present(d, e.at),
           NEW pop \in SUBSET GUnit, NEW seen, NEW upto \in Nat, Placed(d.frames, seen, upto),
           seen[upto + 1].pop = pop, seen[upto + 1].at = e.at
    PROVE  LET t == Added(e, d, pop) IN
           /\ IsMemory(t) /\ t.cue > 0 /\ Present(t, e.at)
           /\ Placed(t.frames, seen, upto + 1)
<1> DEFINE t == Added(e, d, pop)
           frame == [pop |-> pop, at |-> e.at, ord |-> d.ordinal + 1]
           more == Append(d.frames, frame)
<1>0. /\ DOMAIN d = {"episode", "ordinal", "cue", "frames", "open"} /\ d.frames \in Seq(Frame)
      /\ d.ordinal \in Nat /\ d.cue \in Nat /\ d.cue <= d.ordinal + 1
      /\ Ordered(d.frames, d.ordinal) /\ Budgeted(d.frames)
  BY DEF IsMemory, IsContext
<1>1. CASE Cardinality(pop) > GMembers
  <2>1. t = [d EXCEPT !.ordinal = @ + 1]
    BY <1>1 DEF Added
  <2> HIDE DEF t
  <2>2. t.frames = d.frames /\ t.ordinal = d.ordinal + 1 /\ t.cue = d.cue /\ IsContext(t)
    BY <1>0, <2>1 DEF IsContext
  <2>3. Ordered(d.frames, d.ordinal + 1)
    <3>1. \A i \in DOMAIN d.frames : d.frames[i].ord \in Nat
      BY <1>0, FrameParts
    <3>2. \A i \in DOMAIN d.frames : d.frames[i].ord <= d.ordinal + 1
      BY <1>0, <3>1 DEF Ordered
    <3> QED
      BY <1>0, <3>2 DEF Ordered
  <2>4. IsMemory(t)
    <3>1. d.ordinal + 1 \in Nat /\ d.cue <= d.ordinal + 1 + 1
      BY <1>0
    <3> QED
      BY <1>0, <2>2, <2>3, <3>1 DEF IsMemory
  <2>5. Placed(t.frames, seen, upto + 1)
    <3>1. PICK g \in [DOMAIN d.frames -> 1 .. upto] :
             /\ Increasing(g)
             /\ \A i \in DOMAIN d.frames : seen[g[i]].pop = d.frames[i].pop /\ seen[g[i]].at = d.frames[i].at
      BY DEF Placed
    <3>2. g \in [DOMAIN d.frames -> 1 .. upto + 1]
      BY <3>1
    <3> QED
      BY <2>2, <3>1, <3>2 DEF Placed
  <2>6. Present(t, e.at)
    BY <2>2 DEF Present
  <2> QED
    BY <2>2, <2>4, <2>5, <2>6 DEF t
<1>2. CASE ~(Cardinality(pop) > GMembers)
  <2>1. t = [d EXCEPT !.ordinal = @ + 1, !.frames = Trimmed(more)]
    BY <1>2 DEF Added
  <2> HIDE DEF t
  <2>2. t.frames = Trimmed(more) /\ t.ordinal = d.ordinal + 1 /\ t.cue = d.cue /\ IsContext(t)
    BY <1>0, <2>1 DEF IsContext
  <2> HIDE DEF more
  <2>3. /\ frame \in Frame /\ more \in Seq(Frame)
        /\ Ordered(more, d.ordinal + 1)
        /\ Placed(more, seen, upto + 1)
        /\ \A i \in DOMAIN more : more[i] = frame \/ \E j \in DOMAIN d.frames : more[i] = d.frames[j]
    <3>1. \A i \in DOMAIN d.frames : d.frames[i].at <= e.at
      BY DEF Present
    <3>2. PICK f, frames, ordinal, now :
             f = frame /\ frames = d.frames /\ ordinal = d.ordinal /\ now = e.at
      OBVIOUS
    <3>3. f \in Frame /\ f.pop = pop /\ f.at = now /\ f.ord = ordinal + 1
      BY <1>0, <3>2 DEF Frame
    <3> HIDE DEF frame
    <3>4. /\ frames \in Seq(Frame) /\ ordinal \in Nat /\ Ordered(frames, ordinal) /\ now \in Nat
          /\ \A i \in DOMAIN frames : frames[i].at <= now
          /\ Placed(frames, seen, upto) /\ seen[upto + 1].pop = pop /\ seen[upto + 1].at = now
      BY <1>0, <3>1, <3>2
    <3>5. Extended(Append(frames, f), frames, f, ordinal, seen, upto)
      BY <3>3, <3>4, AppendHolds
    <3>6. Append(frames, f) = more
      BY <3>2 DEF more, frame
    <3>7. Extended(more, frames, f, ordinal, seen, upto)
      BY <3>5, <3>6, Zenon
    <3> QED
      BY <3>2, <3>3, <3>7 DEF Extended
  <2>4. Trimmed(more) \in Seq(Frame) /\ Drawn(Trimmed(more), more) /\ Budgeted(Trimmed(more))
    BY <2>3, SuffixDrawn
  <2>5. /\ Ordered(Trimmed(more), d.ordinal + 1) /\ Placed(Trimmed(more), seen, upto + 1)
        /\ \A i \in DOMAIN Trimmed(more) : \E j \in DOMAIN more : Trimmed(more)[i] = more[j]
    BY <2>3, <2>4, DrawnKeeps
  <2>6. IsMemory(t)
    <3>1. d.ordinal + 1 \in Nat /\ d.cue <= d.ordinal + 1 + 1
      BY <1>0
    <3> QED
      BY <1>0, <2>2, <2>4, <2>5, <3>1 DEF IsMemory
  <2>7. Present(t, e.at)
    <3> SUFFICES ASSUME NEW i \in DOMAIN t.frames
                 PROVE  t.frames[i].at <= e.at /\ (t.frames[i].ord >= t.cue => t.frames[i].at = e.at)
      BY DEF Present
    <3>1. PICK j \in DOMAIN more : t.frames[i] = more[j]
      BY <2>2, <2>5
    <3>2. CASE more[j] = frame
      BY <3>1, <3>2
    <3>3. CASE \E x \in DOMAIN d.frames : more[j] = d.frames[x]
      BY <2>2, <3>1, <3>3 DEF Present
    <3> QED
      BY <2>3, <3>2, <3>3
  <2> QED
    BY <2>2, <2>5, <2>6, <2>7 DEF t
<1> QED
  BY <1>1, <1>2

(* A whole stimulus.                                                       *)
LEMMA RememberHolds ==
    ASSUME NEW e, e.at \in Nat, e.stimulus \in Seq(SUBSET GUnit), NEW c, IsMemory(c),
           \A i \in DOMAIN c.frames : c.frames[i].at <= e.at,
           NEW base \in Nat, NEW seen, Placed(c.frames, seen, base),
           \A i \in DOMAIN e.stimulus : seen[base + i].pop = e.stimulus[i] /\ seen[base + i].at = e.at
    PROVE  /\ IsMemory(Remember(c, e)) /\ Present(Remember(c, e), e.at)
           /\ Placed(Remember(c, e).frames, seen, base + Len(e.stimulus))
<1>1. PICK n \in Nat : n = Len(e.stimulus) /\ DOMAIN e.stimulus = 1 .. n
  OBVIOUS
<1>2. PICK f : RememberedBy(f, n, e, Cued(c)) /\ Remember(c, e) = f[1 .. n]
  BY <1>1, RememberUnfolds
<1> DEFINE Good(d, k) == IsMemory(d) /\ d.cue > 0 /\ Present(d, e.at) /\ Placed(d.frames, seen, base + k)
           T == {k \in Nat : k <= n => Good(f[1 .. k], k)}
<1>3. Good(Cued(c), 0)
  <2>1. /\ DOMAIN c = {"episode", "ordinal", "cue", "frames", "open"} /\ c.frames \in Seq(Frame)
        /\ c.ordinal \in Nat /\ Ordered(c.frames, c.ordinal) /\ Budgeted(c.frames)
    BY DEF IsMemory, IsContext
  <2>2. PICK d : d = Cued(c)
    OBVIOUS
  <2>3. d.frames = c.frames /\ d.ordinal = c.ordinal /\ d.cue = c.ordinal + 1 /\ IsContext(d)
    BY <2>1, <2>2 DEF Cued, IsContext
  <2>4. c.ordinal + 1 \in Nat /\ c.ordinal + 1 > 0
    BY <2>1
  <2>5. IsMemory(d)
    BY <2>1, <2>3, <2>4 DEF IsMemory
  <2>6. Present(d, e.at)
    <3>1. \A i \in DOMAIN c.frames : c.frames[i].ord \in Nat /\ c.frames[i].ord <= c.ordinal
      BY <2>1, FrameParts DEF Ordered
    <3>2. \A i \in DOMAIN c.frames : ~(c.frames[i].ord >= c.ordinal + 1)
      BY <2>1, <3>1
    <3> QED
      BY <2>3, <3>2 DEF Present
  <2>7. Placed(d.frames, seen, base + 0)
    BY <2>3
  <2> QED
    BY <2>2, <2>3, <2>4, <2>5, <2>6, <2>7
<1> HIDE DEF Good
<1>4. 0 \in T
  <2>1. 1 .. 0 = {} /\ {} \in SUBSET (1 .. n)
    OBVIOUS
  <2>2. f[{}] = Cued(c)
    BY <1>2, <2>1, Zenon DEF RememberedBy
  <2> QED
    BY <1>3, <2>1, <2>2
<1>5. ASSUME NEW k \in Nat, k \in T PROVE k + 1 \in T
  <2>0. k + 1 \in Nat
    OBVIOUS
  <2> SUFFICES ASSUME k + 1 <= n PROVE Good(f[1 .. k + 1], k + 1)
    BY <2>0, Zenon
  <2>1. k < n /\ k <= n /\ k + 1 \in 1 .. n /\ Good(f[1 .. k], k)
    BY <1>5
  <2>2. /\ 1 .. k \in SUBSET (1 .. n) /\ 1 .. k + 1 \in SUBSET (1 .. n) /\ 1 .. k + 1 # {}
        /\ Max(1 .. k + 1) = k + 1 /\ (1 .. k + 1) \ {Max(1 .. k + 1)} = 1 .. k
    BY <2>1, PrefixFolded
  <2>3. PICK d : d = f[1 .. k]
    OBVIOUS
  <2>4. PICK pop : pop = e.stimulus[k + 1]
    OBVIOUS
  <2>5. f[1 .. k + 1] = Added(e, d, pop)
    BY <1>2, <2>2, <2>3, <2>4, Zenon DEF RememberedBy
  <2>6. pop \in SUBSET GUnit
    BY <1>1, <2>1, <2>4
  <2>7. PICK upto \in Nat : upto = base + k
    OBVIOUS
  <2>8. upto + 1 = base + (k + 1)
    BY <2>7
  <2>9. seen[upto + 1].pop = pop /\ seen[upto + 1].at = e.at
    BY <1>1, <2>1, <2>4, <2>8
  <2>10. IsMemory(d) /\ d.cue > 0 /\ Present(d, e.at) /\ Placed(d.frames, seen, upto)
    BY <2>1, <2>3, <2>7 DEF Good
  <2>11. PICK t : t = Added(e, d, pop)
    OBVIOUS
  <2>12. IsMemory(t) /\ t.cue > 0 /\ Present(t, e.at) /\ Placed(t.frames, seen, upto + 1)
    BY <2>6, <2>9, <2>10, <2>11, AddedHolds
  <2> QED
    BY <2>5, <2>8, <2>11, <2>12 DEF Good
<1> HIDE DEF T
<1>6. Nat \subseteq T
  BY <1>4, <1>5, Induction
<1>7. Good(f[1 .. n], n)
  BY <1>6 DEF T
<1> QED
  BY <1>1, <1>2, <1>7 DEF Good

-----------------------------------------------------------------------------
(* What a forecast rests on.                                               *)

Supported(p, seen, now) ==
    \E at \in [1 .. Len(p) - 1 -> DOMAIN seen] :
       /\ \A i, j \in DOMAIN at : i < j => at[i] < at[j]
       /\ \A i \in DOMAIN at : p[i] \subseteq seen[at[i]].pop /\ now - seen[at[i]].at \in 0 .. GAge

(* A trace ends its stimulus with an empty population.                     *)
Marked(trace, source) ==
    /\ trace # <<>>
    /\ \E k \in DOMAIN trace : trace[k] = {} /\ UNION Range(SubSeq(trace, 1, k - 1)) = source

Recalls(m, patterns) ==
    /\ IsMemory(m.context)
    /\ m.seen \in Seq(Sight) /\ Placed(m.context.frames, m.seen, Len(m.seen))
    /\ m.context.open => m.context.episode = m.last
    /\ m.forecast # NoForecast =>
         /\ m.forecast.at \in Nat
         /\ Marked(m.trace, m.forecast.source)
         /\ Present(m.context, m.forecast.at)
         /\ m.forecast.credit \subseteq patterns
         /\ \A p \in m.forecast.credit : Supported(p, m.seen, m.forecast.at)

IsEvent(e) ==
    /\ e.at \in Nat
    /\ e.stimulus \in Seq(SUBSET GUnit) /\ e.context \in Seq(SUBSET GUnit)

(* What has been seen of the episode of an event before it, and with it.   *)
Before(m, e) == IF e.reset \/ e.episode # m.last THEN <<>> ELSE m.seen
SeenWith(m, e) ==
    Before(m, e) \o [i \in DOMAIN e.stimulus |-> [pop |-> e.stimulus[i], at |-> e.at]]

Grown(base, seen, e) ==
    /\ base \in Seq(Sight) /\ seen \in Seq(Sight)
    /\ Len(seen) = Len(base) + Len(e.stimulus)
    /\ \A i \in DOMAIN e.stimulus :
         seen[Len(base) + i].pop = e.stimulus[i] /\ seen[Len(base) + i].at = e.at
    /\ \A i \in 1 .. Len(base) : seen[i] = base[i]

(* What an event adds to what was seen.                                    *)
LEMMA SeenGrows ==
    ASSUME NEW m, m.seen \in Seq(Sight), NEW e, IsEvent(e)
    PROVE  Grown(Before(m, e), SeenWith(m, e), e)
<1>1. Before(m, e) \in Seq(Sight)
  BY EmptySeq DEF Before
<1>2. PICK n \in Nat : n = Len(e.stimulus) /\ DOMAIN e.stimulus = 1 .. n
  BY DEF IsEvent
<1> DEFINE tail == [i \in DOMAIN e.stimulus |-> [pop |-> e.stimulus[i], at |-> e.at]]
<1>3. \A i \in 1 .. n : tail[i] \in Sight /\ tail[i].pop = e.stimulus[i] /\ tail[i].at = e.at
  BY <1>2 DEF IsEvent, Sight
<1>4. DOMAIN tail = 1 .. n
  BY <1>2
<1>5. tail = [i \in 1 .. n |-> tail[i]]
  BY <1>4
<1> HIDE DEF tail
<1>6. tail \in Seq(Sight) /\ Len(tail) = n
  BY <1>3, <1>5
<1>7. PICK base \in Seq(Sight) : base = Before(m, e)
  BY <1>1
<1>8. /\ base \o tail \in Seq(Sight) /\ Len(base \o tail) = Len(base) + n
      /\ \A i \in 1 .. n : (base \o tail)[Len(base) + i] = tail[i]
      /\ \A i \in 1 .. Len(base) : (base \o tail)[i] = base[i]
  BY <1>6, SMTT(30)
<1> QED
  BY <1>2, <1>3, <1>7, <1>8 DEF SeenWith, tail, Grown

(* A credited pattern was seen whole: its end in this event, the rest in   *)
(* the frames the context remembers.                                       *)
LEMMA CreditedSeen ==
    ASSUME NEW p \in Seq(SUBSET GUnit), Len(p) > 1, NEW e, IsEvent(e),
           NEW frames \in Seq(Frame), Quality(p, e, frames),
           \A i \in DOMAIN frames : e.at - frames[i].at \in 0 .. GAge,
           NEW base \in Nat, NEW seen \in Seq(Sight), Placed(frames, seen, base),
           Len(seen) = base + Len(e.stimulus),
           \A i \in DOMAIN e.stimulus : seen[base + i].pop = e.stimulus[i] /\ seen[base + i].at = e.at
    PROVE  Supported(p, seen, e.at)
<1>1. PICK len \in Nat : len = Len(e.stimulus) /\ DOMAIN e.stimulus = 1 .. len
  BY DEF IsEvent
<1>2. PICK l \in Nat : l = Len(p) - 1
  OBVIOUS
<1>3. PICK n \in Nat : n = Taken(p, e) /\ n <= l /\ n <= len
  <2>1. Taken(p, e) = Lower(l, len)
    BY <1>1, <1>2 DEF Taken
  <2>2. Lower(l, len) \in Nat /\ Lower(l, len) <= l /\ Lower(l, len) <= len
    BY DEF Lower
  <2> QED
    BY <2>1, <2>2
<1>4. /\ n > 0
      /\ \A i \in 1 .. n : p[l - n + i] \subseteq e.stimulus[len - n + i]
  <2>1. n > 0 /\ \A i \in 1 .. n : Stem(p)[Len(p) - 1 - n + i] \subseteq e.stimulus[Len(e.stimulus) - n + i]
    BY <1>3, Zenon DEF Quality, SuffixMatches
  <2>2. \A i \in 1 .. l : Stem(p)[i] = p[i]
    BY <1>2 DEF Stem
  <2>3. \A i \in 1 .. n : l - n + i \in 1 .. l
    BY <1>3
  <2> QED
    BY <1>1, <1>2, <2>1, <2>2, <2>3
<1> DEFINE missing == SubSeq(p, 1, Len(p) - 1 - Taken(p, e))
<1>5. DOMAIN missing = 1 .. l - n /\ \A i \in 1 .. l - n : missing[i] = p[i]
  BY <1>2, <1>3
<1> HIDE DEF missing
<1>6. PICK at \in [DOMAIN missing -> DOMAIN frames] :
         /\ \A i, j \in DOMAIN missing : i < j => at[i] < at[j]
         /\ \A i \in DOMAIN missing : missing[i] \subseteq frames[at[i]].pop
  BY Zenon DEF Quality, HistoryMatches, missing
<1>7. PICK g \in [DOMAIN frames -> 1 .. base] :
         /\ Increasing(g)
         /\ \A i \in DOMAIN frames : seen[g[i]].pop = frames[i].pop /\ seen[g[i]].at = frames[i].at
  BY DEF Placed
<1> DEFINE w == [i \in 1 .. l |-> IF i <= l - n THEN g[at[i]] ELSE base + (len - l + i)]
<1>8. DOMAIN w = 1 .. l
  OBVIOUS
<1>9. ASSUME NEW i \in 1 .. l, i <= l - n
      PROVE  /\ i \in 1 .. l - n /\ w[i] = g[at[i]] /\ w[i] \in 1 .. base
             /\ p[i] \subseteq seen[w[i]].pop /\ e.at - seen[w[i]].at \in 0 .. GAge
  <2>1. i \in 1 .. l - n /\ w[i] = g[at[i]]
    BY <1>9
  <2>2. at[i] \in DOMAIN frames /\ p[i] \subseteq frames[at[i]].pop
    BY <1>5, <1>6, <2>1
  <2> QED
    BY <1>7, <2>1, <2>2
<1>10. ASSUME NEW i \in 1 .. l, ~(i <= l - n)
       PROVE  /\ w[i] = base + (len - l + i) /\ len - l + i \in 1 .. len
              /\ p[i] \subseteq seen[w[i]].pop /\ e.at - seen[w[i]].at \in 0 .. GAge
  <2>1. PICK k : k = i - (l - n) /\ k \in 1 .. n
    BY <1>3, <1>10
  <2>2. l - n + k = i /\ len - n + k = len - l + i /\ len - l + i \in 1 .. len
    BY <1>3, <2>1, SMTT(30)
  <2>3. w[i] = base + (len - l + i)
    BY <1>10
  <2> HIDE DEF w
  <2>4. p[i] \subseteq e.stimulus[len - l + i]
    BY <1>4, <2>1, <2>2
  <2>5. seen[w[i]].pop = e.stimulus[len - l + i] /\ seen[w[i]].at = e.at
    BY <1>1, <2>2, <2>3
  <2>6. e.at - e.at \in 0 .. GAge
    BY GAssumption DEF IsEvent
  <2> QED
    BY <2>2, <2>3, <2>4, <2>5, <2>6
<1> HIDE DEF w
<1>11. DOMAIN seen = 1 .. base + len
  BY <1>1
<1>12. \A i \in 1 .. l : w[i] \in 1 .. base + len
  <2> SUFFICES ASSUME NEW i \in 1 .. l PROVE w[i] \in 1 .. base + len
    OBVIOUS
  <2>1. CASE i <= l - n
    <3>1. w[i] \in 1 .. base
      BY <1>9, <2>1
    <3> QED
      BY <3>1
  <2>2. CASE ~(i <= l - n)
    <3>1. PICK k \in 1 .. len : w[i] = base + k
      BY <1>10, <2>2
    <3> QED
      BY <3>1
  <2> QED
    BY <2>1, <2>2
<1>13. ASSUME NEW i \in 1 .. l, NEW j \in 1 .. l, i < j PROVE w[i] < w[j]
  <2>1. CASE j <= l - n
    <3>1. i <= l - n
      BY <1>3, <1>13, <2>1
    <3>2. /\ i \in 1 .. l - n /\ w[i] = g[at[i]]
          /\ j \in 1 .. l - n /\ w[j] = g[at[j]]
      BY <1>9, <2>1, <3>1
    <3>3. at[i] < at[j] /\ at[i] \in DOMAIN frames /\ at[j] \in DOMAIN frames
      BY <1>5, <1>6, <1>13, <3>2
    <3> QED
      BY <1>7, <3>2, <3>3 DEF Increasing
  <2>2. CASE i <= l - n /\ ~(j <= l - n)
    <3>1. w[i] \in 1 .. base
      BY <1>9, <2>2
    <3>2. PICK k \in 1 .. len : w[j] = base + k
      BY <1>10, <2>2
    <3> QED
      BY <3>1, <3>2
  <2>3. CASE ~(i <= l - n) /\ ~(j <= l - n)
    <3>1. w[i] = base + (len - l + i) /\ w[j] = base + (len - l + j)
      BY <1>10, <2>3
    <3> QED
      BY <1>13, <3>1
  <2> QED
    BY <2>1, <2>2, <2>3
<1>14. \A i \in 1 .. l : p[i] \subseteq seen[w[i]].pop /\ e.at - seen[w[i]].at \in 0 .. GAge
  BY <1>9, <1>10
<1>15. w \in [1 .. l -> DOMAIN seen]
  <2>1. w = [i \in 1 .. l |-> w[i]]
    BY DEF w
  <2> QED
    BY <1>11, <1>12, <2>1
<1> QED
  BY <1>2, <1>8, <1>13, <1>14, <1>15 DEF Supported

(* The context an event carries on.                                        *)
LEMMA CarriedHolds ==
    ASSUME NEW m, NEW patterns, Recalls(m, patterns), NEW e, IsEvent(e)
    PROVE  LET c == Carried(m, e) IN
           /\ IsMemory(c)
           /\ \A i \in DOMAIN c.frames : e.at - c.frames[i].at \in 0 .. GAge
           /\ Placed(c.frames, Before(m, e), Len(Before(m, e)))
           /\ m.context.open /\ ~Discontinuous(m, e) =>
                /\ Before(m, e) = m.seen
                /\ \A now : Present(m.context, now) => Present(c, now)
<1> DEFINE c == Carried(m, e)
<1>1. CASE ~m.context.open \/ Discontinuous(m, e)
  <2>1. c = [NoContext EXCEPT !.episode = e.episode, !.open = TRUE]
    BY <1>1 DEF Carried
  <2> HIDE DEF c
  <2> DEFINE none == <<>>
             g == [i \in {} |-> 0]
  <2>2. c.frames = none /\ c.ordinal = 0 /\ c.cue = 0 /\ IsContext(c)
    BY <2>1 DEF NoContext, IsContext
  <2>3. none \in Seq(Frame) /\ Len(none) = 0 /\ DOMAIN none = {}
    BY EmptySeq
  <2>4. Budgeted(none)
    <3>1. 0 <= GFrames /\ 0 <= GMembers
      BY GAssumption
    <3> QED
      BY <2>3, <3>1, MembersCount DEF Budgeted
  <2>5. Ordered(none, 0)
    BY <2>3 DEF Ordered
  <2>6. g \in [DOMAIN none -> 1 .. Len(Before(m, e))] /\ Increasing(g)
    BY <2>3 DEF Increasing
  <2>7. c.frames # <<>> => c.cue > 0
    BY <2>2
  <2> HIDE DEF none, g
  <2>8. IsMemory(c)
    BY <2>2, <2>3, <2>4, <2>5, <2>7 DEF IsMemory
  <2>9. Placed(c.frames, Before(m, e), Len(Before(m, e)))
    BY <2>2, <2>3, <2>6 DEF Placed
  <2> QED
    BY <1>1, <2>2, <2>3, <2>8, <2>9 DEF c
<1>2. CASE m.context.open /\ ~Discontinuous(m, e)
  <2> DEFINE old == m.context.frames
             recent == Recent(old, e.at)
  <2>1. c = [m.context EXCEPT !.frames = recent]
    BY <1>2 DEF Carried
  <2>2. /\ IsContext(m.context) /\ old \in Seq(Frame) /\ Budgeted(old)
        /\ m.context.ordinal \in Nat /\ m.context.cue \in Nat /\ m.context.cue <= m.context.ordinal + 1
        /\ (old # <<>> => m.context.cue > 0) /\ Ordered(old, m.context.ordinal)
    BY DEF Recalls, IsMemory
  <2>3. Before(m, e) = m.seen
    <3>1. ~e.reset /\ m.context.episode = e.episode /\ m.context.episode = m.last
      BY <1>2 DEF Discontinuous, Recalls
    <3> QED
      BY <3>1 DEF Before
  <2>4. /\ recent \in Seq(Frame) /\ Drawn(recent, old)
        /\ Len(recent) <= Len(old) /\ MembersOf(recent) <= MembersOf(old)
        /\ \A i \in DOMAIN recent : e.at - recent[i].at \in 0 .. GAge
    <3>1. e.at \in Int
      BY DEF IsEvent
    <3> QED
      BY <2>2, <3>1, RecentDrawn
  <2> HIDE DEF c, recent
  <2>5. /\ c.frames = recent /\ c.ordinal = m.context.ordinal /\ c.cue = m.context.cue
        /\ IsContext(c)
    BY <2>1, <2>2 DEF IsContext
  <2>6. /\ Ordered(recent, m.context.ordinal) /\ Placed(recent, m.seen, Len(m.seen))
        /\ \A i \in DOMAIN recent : \E j \in DOMAIN old : recent[i] = old[j]
    <3>1. Placed(old, m.seen, Len(m.seen))
      BY DEF Recalls
    <3>2. PICK ordinal, seen, upto : ordinal = m.context.ordinal /\ seen = m.seen /\ upto = Len(m.seen)
      OBVIOUS
    <3> HIDE DEF old
    <3>3. Ordered(old, ordinal) /\ Placed(old, seen, upto)
      BY <2>2, <3>1, <3>2
    <3>4. /\ Ordered(recent, ordinal) /\ Placed(recent, seen, upto)
          /\ \A i \in DOMAIN recent : \E j \in DOMAIN old : recent[i] = old[j]
      BY <2>2, <2>4, <3>3, DrawnKeeps
    <3> QED
      BY <3>2, <3>4
  <2>7. Budgeted(recent)
    <3>1. /\ Len(recent) \in Nat /\ Len(old) \in Nat /\ MembersOf(recent) \in Nat /\ MembersOf(old) \in Nat
          /\ GFrames \in Nat /\ GMembers \in Nat
      BY <2>2, <2>4, MembersCount, GAssumption
    <3>2. Len(old) <= GFrames /\ MembersOf(old) <= GMembers
      BY <2>2 DEF Budgeted
    <3>3. Len(recent) <= GFrames /\ MembersOf(recent) <= GMembers
      BY <2>4, <3>1, <3>2
    <3> QED
      BY <3>3 DEF Budgeted
  <2>8. recent # <<>> => m.context.cue > 0
    <3>1. old = <<>> => Len(recent) <= 0
      BY <2>4
    <3>2. Len(recent) <= 0 => recent = <<>>
      BY <2>4
    <3> QED
      BY <2>2, <3>1, <3>2
  <2>9. IsMemory(c)
    BY <2>2, <2>4, <2>5, <2>6, <2>7, <2>8 DEF IsMemory
  <2>10. ASSUME NEW now, Present(m.context, now) PROVE Present(c, now)
    BY <2>5, <2>6, <2>10 DEF Present
  <2> QED
    BY <1>2, <2>3, <2>4, <2>5, <2>6, <2>9, <2>10 DEF c
<1> QED
  BY <1>1, <1>2

(* The trace of an event has its stimulus before the mark.                 *)
LEMMA TraceMarked ==
    ASSUME NEW a \in Seq(SUBSET GUnit), NEW b \in Seq(SUBSET GUnit)
    PROVE  Marked(a \o <<{}>> \o b, UNION Range(a))
<1> DEFINE mark == <<{}>>
           trace == a \o mark \o b
<1>1. PICK k \in Nat : k = Len(a) /\ DOMAIN a = 1 .. k
  OBVIOUS
<1>2. mark \in Seq(SUBSET GUnit) /\ Len(mark) = 1 /\ mark[1] = {}
  OBVIOUS
<1> HIDE DEF mark
<1>3. PICK t \in Seq(SUBSET GUnit) : t = a \o mark
  BY <1>2, ConcatProperties, Zenon
<1>4. Len(t) = k + 1 /\ t[k + 1] = {} /\ \A i \in 1 .. k : t[i] = a[i]
  <2>1. /\ Len(a \o mark) = Len(a) + Len(mark)
        /\ \A i \in 1 .. Len(a) + Len(mark) : (a \o mark)[i] = IF i <= Len(a) THEN a[i] ELSE mark[i - Len(a)]
    BY <1>2, ConcatProperties, Zenon
  <2>2. \A i \in 1 .. k + 1 : t[i] = IF i <= k THEN a[i] ELSE mark[i - k]
    BY <1>1, <1>2, <1>3, <2>1
  <2>3. k + 1 - k = 1 /\ k + 1 \in 1 .. k + 1 /\ ~(k + 1 <= k) /\ \A i \in 1 .. k : i \in 1 .. k + 1 /\ i <= k
    OBVIOUS
  <2> QED
    BY <1>1, <1>2, <1>3, <2>1, <2>2, <2>3
<1>5. PICK u \in Seq(SUBSET GUnit) : u = t \o b
  BY ConcatProperties, Zenon
<1>6. Len(u) = k + 1 + Len(b) /\ \A i \in 1 .. k + 1 : u[i] = t[i]
  <2>1. /\ Len(t \o b) = Len(t) + Len(b)
        /\ \A i \in 1 .. Len(t) + Len(b) : (t \o b)[i] = IF i <= Len(t) THEN t[i] ELSE b[i - Len(t)]
    BY ConcatProperties, Zenon
  <2>2. \A i \in 1 .. k + 1 : i \in 1 .. Len(t) + Len(b) /\ i <= Len(t)
    BY <1>4
  <2>3. (\A i \in 1 .. k + 1 : u[i] = t[i]) /\ Len(u) = Len(t) + Len(b)
    BY <1>5, <2>1, <2>2
  <2> QED
    BY <1>4, <2>3
<1>7. k + 1 \in DOMAIN u /\ u[k + 1] = {} /\ \A i \in 1 .. k : u[i] = a[i]
  BY <1>4, <1>6
<1>8. SubSeq(u, 1, k + 1 - 1) = a
  <2>1. SubSeq(u, 1, k) \in Seq(SUBSET GUnit) /\ Len(SubSeq(u, 1, k)) = k
    BY <1>6
  <2>2. \A i \in 1 .. k : SubSeq(u, 1, k)[i] = a[i]
    BY <1>6, <1>7
  <2>3. SubSeq(u, 1, k) = a
    BY <1>1, <2>1, <2>2
  <2>4. k + 1 - 1 = k
    OBVIOUS
  <2> QED
    BY <2>3, <2>4
<1>9. u # <<>>
  BY <1>7
<1>10. Marked(u, UNION Range(a))
  <2>1. PICK j : j = k + 1
    OBVIOUS
  <2>2. j \in DOMAIN u /\ u[j] = {} /\ SubSeq(u, 1, j - 1) = a
    BY <1>7, <1>8, <2>1
  <2>3. UNION Range(SubSeq(u, 1, j - 1)) = UNION Range(a)
    BY <2>2, Zenon
  <2> QED
    BY <1>9, <2>2, <2>3, Zenon DEF Marked
<1> QED
  BY <1>3, <1>5, <1>10 DEF mark

(* An event leaves a continuation that is within its bounds and a forecast *)
(* that rests on what was seen.                                            *)
LEMMA ActivationRecalls ==
    ASSUME NEW s, IsState(s), Judged(s.mind), NEW patterns \in SUBSET Seq(SUBSET GUnit),
           Recalls(s.mind, patterns), s.brain.patterns = patterns,
           NEW e, IsEvent(e), NEW predicted, NEW override \in BOOLEAN
    PROVE  Recalls(Activate(s, e, predicted, override).mind, patterns)
<1> DEFINE m == s.mind
           c == Carried(m, e)
           t == Activate(s, e, predicted, override).mind
           base == Before(m, e)
           seen == SeenWith(m, e)
           tail == [i \in DOMAIN e.stimulus |-> [pop |-> e.stimulus[i], at |-> e.at]]
<1>1. /\ IsMemory(c)
      /\ \A i \in DOMAIN c.frames : e.at - c.frames[i].at \in 0 .. GAge
      /\ Placed(c.frames, base, Len(base))
      /\ m.context.open /\ ~Discontinuous(m, e) =>
           base = m.seen /\ \A now : Present(m.context, now) => Present(c, now)
  BY CarriedHolds
<1>2. m.seen \in Seq(Sight) /\ IsMind(m)
  BY DEF Recalls, Judged
<1>3. /\ base \in Seq(Sight) /\ seen \in Seq(Sight)
      /\ Len(seen) = Len(base) + Len(e.stimulus)
      /\ \A i \in DOMAIN e.stimulus : seen[Len(base) + i].pop = e.stimulus[i] /\ seen[Len(base) + i].at = e.at
      /\ \A i \in 1 .. Len(base) : seen[i] = base[i]
  <2>1. Grown(base, seen, e)
    BY <1>2, SeenGrows, Zenon
  <2> HIDE DEF base, seen
  <2> QED
    BY <2>1 DEF Grown
<1>4. c.open /\ c.episode = e.episode
  BY CarriedContext
<1>5. e.at \in Nat /\ e.stimulus \in Seq(SUBSET GUnit) /\ e.context \in Seq(SUBSET GUnit)
  BY DEF IsEvent
<1>6. Watch(m, e) = [m EXCEPT !.last = e.episode, !.seen = seen]
  BY DEF Watch, SeenWith, Before
<1>7. Len(base) \in Nat
  BY <1>3
<1>8. \A i \in DOMAIN c.frames : c.frames[i].at \in Nat
  BY <1>1, FrameParts DEF IsMemory
<1>9. Placed(c.frames, seen, Len(base))
  <2> HIDE DEF c, base, seen
  <2>1. PICK g \in [DOMAIN c.frames -> 1 .. Len(base)] :
           /\ Increasing(g)
           /\ \A i \in DOMAIN c.frames : base[g[i]].pop = c.frames[i].pop /\ base[g[i]].at = c.frames[i].at
    BY <1>1 DEF Placed
  <2>2. \A i \in DOMAIN c.frames : seen[g[i]] = base[g[i]]
    BY <1>3, <2>1
  <2> QED
    BY <2>1, <2>2 DEF Placed
<1>10. CASE Empty(e)
  <2>1. t = Idle(m, e)
    BY <1>10 DEF Activate, IsState
  <2> HIDE DEF t, c, seen, base
  <2>2. /\ t.context = c /\ t.seen = seen /\ t.last = e.episode
        /\ t.forecast = IF Discontinuous(m, e) THEN NoForecast ELSE m.forecast
        /\ t.trace = TraceAfterEmpty(m, e)
    BY <1>2, <1>6, <2>1 DEF Idle, IsMind, c
  <2>3. Len(e.stimulus) = 0
    BY <1>10 DEF Empty
  <2>4. Len(seen) = Len(base) /\ seen = base
    BY <1>3, <1>7, <2>3
  <2>5. Placed(t.context.frames, t.seen, Len(t.seen))
    BY <1>9, <2>2, <2>4
  <2>6. ASSUME t.forecast # NoForecast
        PROVE  /\ t.forecast.at \in Nat
               /\ Marked(t.trace, t.forecast.source)
               /\ Present(t.context, t.forecast.at)
               /\ t.forecast.credit \subseteq patterns
               /\ \A p \in t.forecast.credit : Supported(p, t.seen, t.forecast.at)
    <3>1. ~Discontinuous(m, e) /\ t.forecast = m.forecast /\ m.forecast # NoForecast /\ t.trace = m.trace
      BY <2>2, <2>6 DEF TraceAfterEmpty
    <3>2. m.context.open
      BY <3>1 DEF Judged
    <3>3. base = m.seen /\ \A now : Present(m.context, now) => Present(c, now)
      BY <1>1, <3>1, <3>2
    <3> QED
      BY <2>2, <2>4, <3>1, <3>3 DEF Recalls
  <2>7. Recalls(t, patterns)
    BY <1>1, <1>3, <1>4, <2>2, <2>5, <2>6 DEF Recalls
  <2> QED
    BY <2>7 DEF t
<1>11. CASE ~Empty(e)
  <2>1. t = ActivateMind(s.brain, m, e, override)
    BY <1>11 DEF Activate, IsState
  <2> HIDE DEF t, c, seen, base
  <2>2. /\ t.context = Remember(c, e) /\ t.seen = seen /\ t.last = e.episode
        /\ t.forecast = Forecast(s.brain, m, e, override)
        /\ t.trace = e.stimulus \o <<{}>> \o e.context
    BY <1>2, <1>6, <2>1 DEF ActivateMind, IsMind, c
  <2>3. /\ IsMemory(Remember(c, e)) /\ Present(Remember(c, e), e.at)
        /\ Placed(Remember(c, e).frames, seen, Len(base) + Len(e.stimulus))
    <3>1. \A i \in DOMAIN c.frames : c.frames[i].at <= e.at
      BY <1>1, <1>5, <1>8
    <3> QED
      BY <1>1, <1>3, <1>5, <1>7, <1>9, <3>1, RememberHolds
  <2>4. Remember(c, e).episode = e.episode
    <3>1. PICK n \in Nat : DOMAIN e.stimulus = 1 .. n
      BY <1>5
    <3> QED
      BY <1>1, <1>4, <3>1, RememberKeeps DEF IsMemory
  <2>5. ASSUME t.forecast # NoForecast
        PROVE  /\ t.forecast.at \in Nat
               /\ Marked(t.trace, t.forecast.source)
               /\ Present(t.context, t.forecast.at)
               /\ t.forecast.credit \subseteq patterns
               /\ \A p \in t.forecast.credit : Supported(p, t.seen, t.forecast.at)
    <3>1. t.forecast.at = e.at /\ t.forecast.source = Actual(e) /\ t.forecast.credit = Credit(s.brain, e, c.frames)
      BY <2>2, <2>5 DEF Forecast, c
    <3>2. Marked(t.trace, t.forecast.source)
      BY <1>5, <2>2, <3>1, TraceMarked DEF Actual
    <3>3. t.forecast.credit \subseteq patterns
      BY <3>1 DEF Credit
    <3>4. ASSUME NEW p \in t.forecast.credit PROVE Supported(p, seen, e.at)
      <4>1. p \in Seq(SUBSET GUnit) /\ Len(p) > 1 /\ Quality(p, e, c.frames)
        BY <3>1, <3>3, <3>4 DEF Credit
      <4>2. c.frames \in Seq(Frame)
        BY <1>1 DEF IsMemory
      <4> QED
        BY <1>1, <1>3, <1>7, <1>9, <4>1, <4>2, CreditedSeen
    <3> QED
      BY <1>5, <2>2, <2>3, <3>1, <3>2, <3>3, <3>4
  <2>6. Recalls(t, patterns)
    BY <1>3, <2>2, <2>3, <2>4, <2>5 DEF Recalls
  <2> QED
    BY <2>6 DEF t
<1> QED
  BY <1>10, <1>11

-----------------------------------------------------------------------------
(* Patterns are only ever added.                                           *)

Knows(b, patterns) == "patterns" \in DOMAIN b /\ b.patterns = patterns

(* Changing connections leaves the patterns alone.                         *)
LEMMA LearningKeeps ==
    ASSUME NEW b, NEW patterns, Knows(b, patterns), NEW links, NEW now
    PROVE  /\ Knows(Strengthened(b, links, now), patterns)
           /\ Knows(Weakened(b, links, now), patterns)
           /\ Knows(Reinforced(b, links, now), patterns)
           /\ Knows(Settle(b, now), patterns)
<1>1. \A changed, new : Knows(Change(b, changed, new, now), patterns)
  BY DEF Knows, Change
<1> QED
  BY <1>1 DEF Strengthened, Weakened, Reinforced, Settle, Knows

(* So does an activation.                                                  *)
LEMMA ActivationKeeps ==
    ASSUME NEW s, IsState(s), NEW patterns, Knows(s.brain, patterns),
           NEW e, NEW predicted, NEW override
    PROVE  Knows(Activate(s, e, predicted, override).brain, patterns)
<1>1. CASE Empty(e)
  <2>1. Activate(s, e, predicted, override).brain = s.brain
    BY <1>1 DEF Activate, IsState
  <2> QED
    BY <2>1
<1>2. CASE ~Empty(e)
  <2>1. Activate(s, e, predicted, override).brain = ActivateBrain(s.brain, s.mind, e, predicted, override)
    BY <1>2 DEF Activate, IsState
  <2>2. Knows(Coactive(s.brain, e), patterns)
    BY LearningKeeps DEF Coactive
  <2>3. \A source, actual : Knows(Feedback(Coactive(s.brain, e), source, actual, predicted, e.at), patterns)
    BY <2>2, LearningKeeps DEF Feedback
  <2> QED
    BY <2>1, <2>2, <2>3 DEF ActivateBrain
<1> QED
  BY <1>1, <1>2

(* So does a transition.                                                   *)
LEMMA TransitionKeeps ==
    ASSUME NEW s, IsState(s), NEW patterns, Knows(s.brain, patterns),
           NEW pop, NEW episode, NEW now
    PROVE  Knows(Transition(s, pop, episode, now).brain, patterns)
<1>1. CASE pop = {}
  <2>1. Transition(s, pop, episode, now).brain = s.brain
    BY <1>1 DEF Transition, IsState
  <2> QED
    BY <2>1
<1>2. CASE pop # {}
  <2>1. Transition(s, pop, episode, now).brain
          = Reinforced(Settle(s.brain, now), Between(s.mind.prior.pop, pop), now)
    BY <1>2 DEF Transition
  <2>2. Knows(Settle(s.brain, now), patterns)
    BY LearningKeeps
  <2> QED
    BY <2>1, <2>2, LearningKeeps
<1> QED
  BY <1>1, <1>2

(* So does connecting the steps of a lesson.                               *)
LEMMA ConnectsKeep ==
    ASSUME NEW patterns, NEW b, Knows(b, patterns), NEW now, NEW p, NEW n \in Nat, NEW steps,
           NEW f, TaughtBy(f, n, p, b, steps, now)
    PROVE  Knows(f[1 .. n], patterns)
<1>1. ASSUME NEW c, Knows(c, patterns), NEW i PROVE Knows(Connecting(p, c, i, now), patterns)
  BY <1>1, LearningKeeps DEF Connecting
<1> DEFINE T == {k \in Nat : k <= n => Knows(f[1 .. k], patterns)}
<1>2. 0 \in T
  <2>1. 1 .. 0 = {} /\ {} \in SUBSET (1 .. n)
    OBVIOUS
  <2>2. f[{}] = b
    BY <2>1, Zenon DEF TaughtBy
  <2> QED
    BY <2>1, <2>2
<1>3. ASSUME NEW k \in Nat, k \in T PROVE k + 1 \in T
  <2>0. k + 1 \in Nat
    OBVIOUS
  <2> SUFFICES ASSUME k + 1 <= n PROVE Knows(f[1 .. k + 1], patterns)
    BY <2>0, Zenon
  <2>1. k < n /\ k <= n
    OBVIOUS
  <2>2. /\ 1 .. k + 1 \in SUBSET (1 .. n) /\ 1 .. k + 1 # {}
        /\ (1 .. k + 1) \ {Max(1 .. k + 1)} = 1 .. k
    BY <2>1, PrefixFolded
  <2>3. f[1 .. k + 1] = Connecting(p, f[1 .. k], steps[Max(1 .. k + 1)], now)
    BY <2>2, Zenon DEF TaughtBy
  <2>4. Knows(f[1 .. k], patterns)
    BY <1>3, <2>1
  <2> QED
    BY <1>1, <2>3, <2>4
<1> HIDE DEF T
<1>4. Nat \subseteq T
  BY <1>2, <1>3, Induction
<1> QED
  BY <1>4 DEF T

(* A lesson adds its pattern.                                              *)
LEMMA TaughtKeeps ==
    ASSUME NEW now \in Nat, NEW b, Paid(b, now), NEW p \in Seq(SUBSET GUnit)
    PROVE  b.patterns \subseteq Taught(b, p, now).patterns
<1>1. CASE p = <<>>
  BY <1>1 DEF Taught
<1>2. CASE p # <<>>
  <2>1. PICK n \in Nat : n = Len(p) - 1
    BY <1>2
  <2> DEFINE first == Weakened(b, Rivals(p), now)
             seq == [i \in 1 .. Len(p) - 1 |-> i + 1]
             it == CHOOSE f : f = [s \in SUBSET DOMAIN seq |->
                       IF s = {} THEN first ELSE Connecting(p, f[s \ {Max(s)}], seq[Max(s)], now)]
             c == it[DOMAIN seq]
  <2>2. Taught(b, p, now) = [c EXCEPT !.patterns = @ \cup {p}]
    BY <1>2, Zenon DEF Taught, FoldLeft, MapThenFoldSet, Connecting, Target, Rivals
  <2>3. DOMAIN seq = 1 .. n
    BY <2>1
  <2>4. it = CHOOSE f : TaughtBy(f, n, p, first, seq, now)
    <3> HIDE DEF seq, first
    <3> QED
      BY <2>3, Zenon DEF TaughtBy
  <2>5. Knows(b, b.patterns)
    BY BrainParts DEF Paid, Charged, Knows
  <2>6. Paid(first, now) /\ Knows(first, b.patterns)
    BY <2>5, LearningPays, LearningKeeps
  <2> HIDE DEF first, it, seq
  <2>7. TaughtBy(it, n, p, first, seq, now)
    BY <2>4, <2>6, ConnectsUnfold
  <2>8. Knows(c, b.patterns)
    BY <2>3, <2>6, <2>7, ConnectsKeep
  <2> HIDE DEF c
  <2> QED
    BY <2>2, <2>8 DEF Knows
<1> QED
  BY <1>1, <1>2

-----------------------------------------------------------------------------
(* Every state an event passes through recalls what it needs.              *)

(* The mind has all that the brain's patterns were credited with.          *)
Minded(s, now) ==
    IsState(s) /\ Judged(s.mind) /\ Paid(s.brain, now) /\ Recalls(s.mind, s.brain.patterns)

(* Recalling needs only the context, the forecast and what was seen.       *)
LEMMA RecallsOn ==
    ASSUME NEW m, NEW patterns, Recalls(m, patterns), NEW n, NEW more, patterns \subseteq more,
           n.context = m.context, n.forecast = m.forecast, n.trace = m.trace,
           n.seen = m.seen, n.last = m.last
    PROVE  Recalls(n, more)
BY DEF Recalls

(* A paid brain has its patterns.                                          *)
LEMMA PaidKnows ==
    ASSUME NEW b, NEW now, Paid(b, now)
    PROVE  Knows(b, b.patterns) /\ b.patterns \in SUBSET Seq(SUBSET GUnit)
BY BrainParts DEF Paid, Charged, Knows

(* An activation.                                                          *)
LEMMA ActivationMinded ==
    ASSUME NEW e, IsEvent(e), NEW s, Minded(s, e.at), NEW predicted, NEW override \in BOOLEAN
    PROVE  /\ Minded(Activate(s, e, predicted, override), e.at)
           /\ Activate(s, e, predicted, override).mind.prior = s.mind.prior
           /\ Activate(s, e, predicted, override).mind.context.open
           /\ Activate(s, e, predicted, override).mind.context.episode = e.episode
<1>1. PICK patterns : patterns = s.brain.patterns
  OBVIOUS
<1>2. Knows(s.brain, patterns) /\ patterns \in SUBSET Seq(SUBSET GUnit)
  BY <1>1, PaidKnows DEF Minded
<1>3. PICK n \in Nat : DOMAIN e.stimulus = 1 .. n
  BY DEF IsEvent
<1>4. PICK t : t = Activate(s, e, predicted, override)
  OBVIOUS
<1>5. /\ IsState(t) /\ Judged(t.mind) /\ t.mind.prior = s.mind.prior
      /\ t.mind.context.open /\ t.mind.context.episode = e.episode
  BY <1>3, <1>4, ActivationJudges DEF Minded
<1>6. Recalls(t.mind, patterns)
  BY <1>1, <1>2, <1>4, ActivationRecalls DEF Minded
<1>7. Paid(t.brain, e.at)
  BY <1>4, ActivationPays DEF Minded, IsEvent
<1>8. t.brain.patterns = patterns
  BY <1>2, <1>4, ActivationKeeps DEF Minded, Knows
<1> QED
  BY <1>4, <1>5, <1>6, <1>7, <1>8 DEF Minded

(* A transition.                                                           *)
LEMMA TransitionMinded ==
    ASSUME NEW now \in Nat, NEW s, Minded(s, now), NEW pop, NEW episode, Follows(s.mind, episode, now)
    PROVE  /\ Minded(Transition(s, pop, episode, now), now)
           /\ Follows(Transition(s, pop, episode, now).mind, episode, now)
           /\ Transition(s, pop, episode, now).mind.context = s.mind.context
<1>1. PICK patterns : patterns = s.brain.patterns
  OBVIOUS
<1>2. Knows(s.brain, patterns)
  BY <1>1, PaidKnows DEF Minded
<1>3. PICK t : t = Transition(s, pop, episode, now)
  OBVIOUS
<1>4. IsState(t) /\ Judged(t.mind) /\ Follows(t.mind, episode, now) /\ t.mind.context = s.mind.context
  <2>1. now \in Int
    OBVIOUS
  <2> QED
    BY <1>3, <2>1, TransitionFollows DEF Minded
<1>5. Paid(t.brain, now)
  BY <1>3, TransitionPays DEF Minded
<1>6. t.brain.patterns = patterns
  BY <1>2, <1>3, TransitionKeeps DEF Minded, Knows
<1>7. /\ t.mind.forecast = s.mind.forecast /\ t.mind.trace = s.mind.trace
      /\ t.mind.seen = s.mind.seen /\ t.mind.last = s.mind.last
  <2>1. IsMind(s.mind)
    BY DEF Minded, Judged
  <2>2. CASE pop = {}
    <3>1. t.mind = [s.mind EXCEPT !.prior = NoPrior]
      BY <1>3, <2>2 DEF Transition, Minded, IsState
    <3> QED
      BY <2>1, <3>1 DEF IsMind
  <2>3. CASE pop # {}
    <3>1. \E prior, crossed : t.mind = [s.mind EXCEPT !.prior = prior, !.crossed = crossed]
      BY <1>3, <2>3, Zenon DEF Transition
    <3> QED
      BY <2>1, <3>1 DEF IsMind
  <2> QED
    BY <2>2, <2>3
<1>8. Recalls(t.mind, patterns)
  BY <1>1, <1>4, <1>7, RecallsOn DEF Minded
<1> QED
  BY <1>3, <1>4, <1>5, <1>6, <1>8 DEF Minded

(* Forgetting the predecessor.                                             *)
LEMMA RoutedMinded ==
    ASSUME NEW s, NEW now, Minded(s, now), MindInd(s.mind), NEW e
    PROVE  /\ Minded(Routed(s, e), now) /\ MindInd(Routed(s, e).mind)
           /\ Follows(Routed(s, e).mind, e.episode, e.at)
<1>1. PICK r : r = Routed(s, e)
  OBVIOUS
<1>2. IsState(r) /\ r.brain = s.brain /\ r.mind = ForgetPrior(s.mind, e)
  BY <1>1 DEF Routed, Minded, IsState
<1>3. MindInd(r.mind) /\ Follows(r.mind, e.episode, e.at)
  BY <1>2, ForgettingFollows
<1>4. r.mind = [s.mind EXCEPT !.prior = NoPrior] \/ r.mind = s.mind
  BY <1>2 DEF ForgetPrior
<1>5. /\ r.mind.context = s.mind.context /\ r.mind.forecast = s.mind.forecast
      /\ r.mind.trace = s.mind.trace /\ r.mind.seen = s.mind.seen /\ r.mind.last = s.mind.last
  BY <1>4 DEF MindInd, Judged, IsMind
<1>6. Recalls(r.mind, s.brain.patterns)
  BY <1>5, RecallsOn DEF Minded
<1> QED
  BY <1>1, <1>2, <1>3, <1>6 DEF Minded, MindInd

(* A whole observation.                                                    *)
LEMMA ObservedMinded ==
    ASSUME NEW e, IsEvent(e), NEW s, Minded(s, e.at), MindInd(s.mind),
           NEW p \in Seq(SUBSET GUnit), NEW predicted, NEW override \in BOOLEAN
    PROVE  Minded(Observed(s, e, p, predicted, override), e.at)
<1>1. PICK r : r = Routed(s, e)
  OBVIOUS
<1>2. Minded(r, e.at) /\ Follows(r.mind, e.episode, e.at)
  BY <1>1, RoutedMinded
<1>3. PICK a : a = Activate(r, e, predicted, override)
  OBVIOUS
<1>4. Minded(a, e.at) /\ Follows(a.mind, e.episode, e.at)
  BY <1>2, <1>3, ActivationMinded DEF Follows
<1>5. PICK t : t = Transition(a, Actual(e), e.episode, e.at)
  OBVIOUS
<1>6. Minded(t, e.at)
  <2>1. e.at \in Nat
    BY DEF IsEvent
  <2> QED
    BY <1>4, <1>5, <2>1, TransitionMinded
<1>7. PICK o : o = Observed(s, e, p, predicted, override)
  OBVIOUS
<1>8. o = [t EXCEPT !.brain = Taught(@, p, e.at)]
  BY <1>1, <1>3, <1>5, <1>7, Zenon DEF Observed
<1>9. IsState(o) /\ o.mind = t.mind /\ o.brain = Taught(t.brain, p, e.at)
  BY <1>6, <1>8 DEF Minded, IsState
<1>10. Paid(o.brain, e.at) /\ t.brain.patterns \subseteq o.brain.patterns
  BY <1>6, <1>9, TaughtPays, TaughtKeeps DEF Minded, IsEvent
<1>11. Recalls(o.mind, o.brain.patterns)
  BY <1>6, <1>9, <1>10, RecallsOn DEF Minded
<1> QED
  BY <1>6, <1>7, <1>9, <1>10, <1>11 DEF Minded

(* An exposure of an import.                                               *)
LEMMA ExposedMinded ==
    ASSUME NEW now \in Nat, NEW s, Minded(s, now), Ready(s, now),
           NEW pop \in SUBSET GUnit, NEW predicted
    PROVE  Minded(Exposed(s, pop, now, predicted), now)
<1>1. PICK t : t = Transition(s, pop, NoEpisode, now)
  OBVIOUS
<1>2. Minded(t, now)
  BY <1>1, TransitionMinded DEF Ready
<1>3. PICK e : e = Exposure(pop, now)
  OBVIOUS
<1>4. IsEvent(e) /\ e.at = now
  <2>1. e.at = now /\ e.stimulus = <<pop>> /\ e.context = <<>>
    BY <1>3 DEF Exposure
  <2>2. <<>> \in Seq(SUBSET GUnit)
    BY EmptySeq
  <2>3. <<pop>> \in Seq(SUBSET GUnit)
    OBVIOUS
  <2> QED
    BY <2>1, <2>2, <2>3 DEF IsEvent
<1>5. PICK override : override = FALSE
  OBVIOUS
<1>6. Minded(Activate(t, e, predicted, override), now)
  BY <1>2, <1>4, <1>5, ActivationMinded
<1>7. Exposed(s, pop, now, predicted) = Activate(t, e, predicted, override)
  BY <1>1, <1>3, <1>5 DEF Exposed
<1> QED
  BY <1>6, <1>7

(* All exposures of an import.                                             *)
LEMMA ImportMinded ==
    ASSUME NEW now \in Nat, NEW s0, Minded(s0, now), Ready(s0, now), NEW p \in Seq(SUBSET GUnit),
           NEW predicted, NEW n \in Nat, DOMAIN p = 1 .. n,
           NEW f, ImportedBy(f, n, p, s0, now, predicted)
    PROVE  Minded(f[1 .. n], now)
<1> DEFINE Good(s) == Minded(s, now) /\ Ready(s, now)
           T == {k \in Nat : k <= n => Good(f[1 .. k])}
<1>1. ASSUME NEW s, Good(s), NEW pop \in SUBSET GUnit PROVE Good(Exposed(s, pop, now, predicted))
  <2>1. now \in Int
    OBVIOUS
  <2> QED
    BY <1>1, <2>1, ExposedMinded, ExposedReady
<1> HIDE DEF Good
<1>2. 0 \in T
  <2>1. 1 .. 0 = {} /\ {} \in SUBSET (1 .. n)
    OBVIOUS
  <2>2. f[{}] = s0
    BY <2>1, Zenon DEF ImportedBy
  <2> QED
    BY <2>1, <2>2 DEF Good
<1>3. ASSUME NEW k \in Nat, k \in T PROVE k + 1 \in T
  <2>0. k + 1 \in Nat
    OBVIOUS
  <2> SUFFICES ASSUME k + 1 <= n PROVE Good(f[1 .. k + 1])
    BY <2>0, Zenon
  <2>1. k < n /\ k <= n /\ k + 1 \in 1 .. n
    OBVIOUS
  <2>2. /\ 1 .. k + 1 \in SUBSET (1 .. n) /\ 1 .. k + 1 # {}
        /\ Max(1 .. k + 1) = k + 1 /\ (1 .. k + 1) \ {Max(1 .. k + 1)} = 1 .. k
    BY <2>1, PrefixFolded
  <2>3. f[1 .. k + 1] = Exposed(f[1 .. k], p[k + 1], now, predicted)
    BY <2>2, Zenon DEF ImportedBy
  <2>4. Good(f[1 .. k])
    BY <1>3, <2>1
  <2>5. p[k + 1] \in SUBSET GUnit
    BY <2>1
  <2> QED
    BY <1>1, <2>3, <2>4, <2>5
<1> HIDE DEF T
<1>4. Nat \subseteq T
  BY <1>2, <1>3, Induction
<1>5. Good(f[1 .. n])
  BY <1>4 DEF T
<1> QED
  BY <1>5 DEF Good

(* What every step keeps: the continuation, the weights and the memory.    *)
Continues == MindInd(gMind) /\ Charged(gBrain) /\ Recalls(gMind, gBrain.patterns)

(* Every command starts from a settled state that recalls.                 *)
LEMMA SettledMinded ==
    ASSUME Continues, NEW now \in Nat
    PROVE  Minded(Settled(now), now) /\ Settled(now).mind = gMind
<1>1. IsState(Settled(now)) /\ Settled(now).mind = gMind /\ Settled(now).brain = Settle(gBrain, now)
  BY DEF Settled, IsState
<1>2. Paid(Settled(now).brain, now)
  BY SettledPays DEF Continues
<1>3. Knows(gBrain, gBrain.patterns)
  BY BrainParts DEF Continues, Charged, Knows
<1>4. Settled(now).brain.patterns = gBrain.patterns
  BY <1>1, <1>3, LearningKeeps DEF Knows
<1> QED
  BY <1>1, <1>2, <1>4 DEF Minded, Continues, MindInd

(* The processing of an input.                                             *)
LEMMA ProcessingRecalls ==
    ASSUME Continues, NEW e, IsEvent(e), NEW predicted, Process(e, predicted)
    PROVE  Recalls(gMind', gBrain'.patterns)
<1>1. PICK override : override = FALSE
  OBVIOUS
<1>2. PICK r : r = Routed(Settled(e.at), e)
  OBVIOUS
<1>3. Minded(r, e.at)
  <2>1. e.at \in Nat
    BY DEF IsEvent
  <2>2. MindInd(Settled(e.at).mind) /\ Minded(Settled(e.at), e.at)
    BY <2>1, SettledMinded DEF Continues
  <2> QED
    BY <1>2, <2>2, RoutedMinded
<1>4. PICK a : a = Activate(r, e, predicted, override)
  OBVIOUS
<1>5. Minded(a, e.at)
  BY <1>1, <1>3, <1>4, ActivationMinded
<1>6. gBrain' = a.brain /\ gMind' = a.mind
  BY <1>1, <1>2, <1>4 DEF Process, Become
<1> QED
  BY <1>5, <1>6 DEF Minded

(* An observation.                                                         *)
LEMMA ObservationsRecall ==
    ASSUME Continues, NEW e, IsEvent(e), NEW p \in Seq(SUBSET GUnit), NEW predicted,
           Become(Observed(Settled(e.at), e, p, predicted, FALSE))
    PROVE  Recalls(gMind', gBrain'.patterns)
<1>1. PICK override : override = FALSE
  OBVIOUS
<1>2. PICK s : s = Settled(e.at)
  OBVIOUS
<1>3. Minded(s, e.at) /\ MindInd(s.mind)
  BY <1>2, SettledMinded DEF Continues, IsEvent
<1>4. PICK o : o = Observed(s, e, p, predicted, override)
  OBVIOUS
<1>5. Minded(o, e.at)
  BY <1>1, <1>3, <1>4, ObservedMinded
<1>6. gBrain' = o.brain /\ gMind' = o.mind
  BY <1>1, <1>2, <1>4 DEF Become
<1> QED
  BY <1>5, <1>6 DEF Minded

(* The outcome of an inquiry.                                              *)
LEMMA OutcomesRecall ==
    ASSUME Continues, NEW e, IsEvent(e), NEW p \in Seq(SUBSET GUnit), NEW q, NEW predicted,
           InquiryOutcome(e, p, q, predicted)
    PROVE  Recalls(gMind', gBrain'.patterns)
<1>1. PICK override : override = TRUE
  OBVIOUS
<1>2. PICK settled : settled = Settled(e.at)
  OBVIOUS
<1>3. PICK known : known = [settled EXCEPT !.brain = Strengthened(@, q.promoted, e.at)]
  OBVIOUS
<1>4. PICK s : s = Observed(known, e, p, predicted, override)
  OBVIOUS
<1>5. PICK credited : credited = Feedback(s.brain, q.targets, Actual(e), predicted, e.at)
  OBVIOUS
<1>6. PICK brain : brain = IF q.good THEN Strengthened(credited, q.eligible, e.at)
                           ELSE Weakened(credited, q.eligible, e.at)
  OBVIOUS
<1>7. Become([s EXCEPT !.brain = brain])
  BY <1>1, <1>2, <1>3, <1>4, <1>5, <1>6, Zenon DEF InquiryOutcome
<1>8. Minded(settled, e.at) /\ settled.mind = gMind
  BY <1>2, SettledMinded DEF IsEvent
<1>9. e.at \in Nat
  BY DEF IsEvent
<1>10. Minded(known, e.at) /\ MindInd(known.mind)
  <2>1. IsState(known) /\ known.mind = gMind /\ known.brain = Strengthened(settled.brain, q.promoted, e.at)
    BY <1>3, <1>8 DEF Minded, IsState
  <2>2. Knows(settled.brain, settled.brain.patterns)
    BY <1>8, PaidKnows DEF Minded
  <2>3. Paid(known.brain, e.at) /\ known.brain.patterns = settled.brain.patterns
    BY <1>8, <1>9, <2>1, <2>2, LearningPays, LearningKeeps DEF Minded, Knows
  <2> QED
    BY <1>8, <2>1, <2>3 DEF Minded, Continues
<1>11. Minded(s, e.at)
  BY <1>1, <1>4, <1>10, ObservedMinded
<1>12. brain.patterns = s.brain.patterns
  <2>1. Knows(s.brain, s.brain.patterns)
    BY <1>11, PaidKnows DEF Minded
  <2>2. Knows(credited, s.brain.patterns)
    BY <1>5, <2>1, LearningKeeps DEF Feedback
  <2> QED
    BY <1>6, <2>2, LearningKeeps DEF Knows
<1>13. gBrain' = brain /\ gMind' = s.mind
  BY <1>7, <1>11 DEF Become, Minded, IsState
<1> QED
  BY <1>11, <1>12, <1>13 DEF Minded

(* An import.                                                              *)
LEMMA ImportsRecall ==
    ASSUME Continues, NEW p \in Seq(SUBSET GUnit), NEW states, NEW now \in Nat, NEW predicted,
           ImportKnowledge(p, states, now, predicted)
    PROVE  Recalls(gMind', gBrain'.patterns)
<1>1. PICK n \in Nat : DOMAIN p = 1 .. n
  OBVIOUS
<1>2. PICK s0 : s0 = Prepared(states, now)
  OBVIOUS
<1>3. PICK f : ImportedBy(f, n, p, s0, now, predicted) /\ gBrain' = f[1 .. n].brain /\ gMind' = f[1 .. n].mind
  BY <1>1, <1>2, ImportUnfolds
<1>4. PICK e : e = Exposure({}, now)
  OBVIOUS
<1>5. PICK r : r = Routed(Settled(now), e)
  OBVIOUS
<1>6. Minded(r, now) /\ MindInd(r.mind) /\ Follows(r.mind, e.episode, e.at)
  <2>1. Minded(Settled(now), now) /\ MindInd(Settled(now).mind)
    BY SettledMinded DEF Continues
  <2> QED
    BY <1>5, <2>1, RoutedMinded
<1>7. Follows(r.mind, NoEpisode, now)
  BY <1>4, <1>6 DEF Exposure
<1>8. s0 = [r EXCEPT !.brain = Reinforced(@, states, now)]
  BY <1>2, <1>4, <1>5 DEF Prepared
<1>9. Minded(s0, now) /\ Ready(s0, now)
  <2>1. IsState(s0) /\ s0.mind = r.mind /\ s0.brain = Reinforced(r.brain, states, now)
    BY <1>6, <1>8 DEF Minded, IsState
  <2>2. Knows(r.brain, r.brain.patterns)
    BY <1>6, PaidKnows DEF Minded
  <2>3. Paid(s0.brain, now) /\ s0.brain.patterns = r.brain.patterns
    BY <1>6, <2>1, <2>2, LearningPays, LearningKeeps DEF Minded, Knows
  <2> QED
    BY <1>6, <1>7, <2>1, <2>3 DEF Minded, Ready
<1>10. Minded(f[1 .. n], now)
  BY <1>1, <1>3, <1>9, ImportMinded
<1> QED
  BY <1>3, <1>10 DEF Minded

(* Nothing is remembered at first.                                         *)
LEMMA RecallInit == GInit => Recalls(gMind, gBrain.patterns)
<1> SUFFICES ASSUME GInit PROVE Recalls(gMind, gBrain.patterns)
  OBVIOUS
<1> DEFINE m == gMind
           none == <<>>
           g == [i \in {} |-> 0]
<1>1. /\ m.context.frames = none /\ m.context.ordinal = 0 /\ m.context.cue = 0
      /\ m.context.open = FALSE /\ m.forecast = NoForecast /\ m.seen = none
  BY DEF GInit, NoContext
<1>2. IsContext(m.context)
  BY DEF GInit, NoContext, IsContext
<1>3. none \in Seq(Frame) /\ none \in Seq(Sight) /\ Len(none) = 0 /\ DOMAIN none = {}
  BY EmptySeq
<1>4. Budgeted(none)
  <2>1. 0 <= GFrames /\ 0 <= GMembers
    BY GAssumption
  <2> QED
    BY <1>3, <2>1, MembersCount DEF Budgeted
<1>5. g \in [DOMAIN none -> 1 .. Len(none)] /\ Increasing(g)
  BY <1>3 DEF Increasing
<1> HIDE DEF m, none, g
<1>6. Ordered(none, 0) /\ Placed(none, none, Len(none))
  BY <1>3, <1>5 DEF Ordered, Placed
<1>7. m.context.frames # <<>> => m.context.cue > 0
  BY <1>1 DEF none
<1>8. IsMemory(m.context)
  BY <1>1, <1>2, <1>3, <1>4, <1>6, <1>7 DEF IsMemory
<1>9. Recalls(m, gBrain.patterns)
  BY <1>1, <1>3, <1>6, <1>8 DEF Recalls
<1> QED
  BY <1>9 DEF m

(* No step leaves something remembered that was not seen.                  *)
LEMMA RecallStep == Continues /\ [GNext]_gVars => Recalls(gMind', gBrain'.patterns)
<1> SUFFICES ASSUME Continues, [GNext]_gVars PROVE Recalls(gMind', gBrain'.patterns)
  OBVIOUS
<1>0. /\ \A now \in GTime : now \in Nat
      /\ \A p \in GLesson \cup {<<>>} : p \in Seq(SUBSET GUnit)
  <2>1. <<>> \in Seq(SUBSET GUnit)
    BY EmptySeq
  <2>2. GLesson \subseteq Seq(SUBSET GUnit)
    BY GAssumption
  <2>3. \A now \in GTime : now \in Nat
    BY DEF GTime
  <2> QED
    BY <2>1, <2>2, <2>3
<1>1. \A i \in GInput, now \in GTime : IsEvent(Stamped(i, now))
  <2> SUFFICES ASSUME NEW i \in GInput, NEW now \in GTime PROVE IsEvent(Stamped(i, now))
    OBVIOUS
  <2>1. i.stimulus \in Seq((SUBSET GUnit) \ {{}}) /\ i.context \in Seq((SUBSET GUnit) \ {{}})
    BY GAssumption
  <2>2. \A s \in Seq((SUBSET GUnit) \ {{}}) : s \in Seq(SUBSET GUnit)
    OBVIOUS
  <2>3. i.stimulus \in Seq(SUBSET GUnit) /\ i.context \in Seq(SUBSET GUnit)
    BY <2>1, <2>2
  <2> QED
    BY <1>0, <2>3 DEF IsEvent, Stamped
<1>2. ASSUME NEW i \in GInput, NEW now \in GTime, NEW predicted \in GPredicted,
             Process(Stamped(i, now), predicted)
      PROVE  Recalls(gMind', gBrain'.patterns)
  BY <1>1, <1>2, ProcessingRecalls
<1>3. ASSUME NEW i \in GInput, NEW now \in GTime, NEW p \in GLesson \cup {<<>>}, NEW predicted \in GPredicted,
             Become(Observed(Settled(Stamped(i, now).at), Stamped(i, now), p, predicted, FALSE))
      PROVE  Recalls(gMind', gBrain'.patterns)
  <2>1. PICK e : e = Stamped(i, now)
    OBVIOUS
  <2>2. IsEvent(e) /\ p \in Seq(SUBSET GUnit) /\ Become(Observed(Settled(e.at), e, p, predicted, FALSE))
    BY <1>0, <1>1, <1>3, <2>1
  <2> QED
    BY <2>2, ObservationsRecall
<1>4. ASSUME NEW i \in GInput, NEW now \in GTime, NEW predicted \in GPredicted,
             Sense(Stamped(i, now), predicted)
      PROVE  Recalls(gMind', gBrain'.patterns)
  BY <1>3, <1>4 DEF Sense
<1>5. ASSUME NEW i \in GInput, NEW now \in GTime, NEW predicted \in GPredicted,
             NEW p \in GLesson \cup {<<>>}, Observe(Stamped(i, now), p, predicted)
      PROVE  Recalls(gMind', gBrain'.patterns)
  BY <1>3, <1>5 DEF Observe
<1>6. ASSUME NEW i \in GInput, NEW now \in GTime, NEW predicted \in GPredicted,
             NEW p \in GLesson \cup {<<>>}, NEW q \in GInquiry,
             InquiryOutcome(Stamped(i, now), p, q, predicted)
      PROVE  Recalls(gMind', gBrain'.patterns)
  BY <1>0, <1>1, <1>6, OutcomesRecall
<1>7. ASSUME NEW now \in GTime, Think(now) PROVE Recalls(gMind', gBrain'.patterns)
  <2>1. gBrain' = Settled(now).brain /\ gMind' = Settled(now).mind
    BY <1>7 DEF Think, Become
  <2> QED
    BY <1>0, <2>1, SettledMinded DEF Minded
<1>8. ASSUME NEW now \in GTime, NEW p \in GLesson, LearnExperience(p, now)
      PROVE  Recalls(gMind', gBrain'.patterns)
  <2>1. gBrain' = Taught(Settled(now).brain, p, now) /\ gMind' = gMind
    BY <1>8 DEF LearnExperience, Become, Settled
  <2>2. Minded(Settled(now), now) /\ Settled(now).mind = gMind
    BY <1>0, SettledMinded
  <2>3. Settled(now).brain.patterns \subseteq gBrain'.patterns
    BY <1>0, <2>1, <2>2, TaughtKeeps DEF Minded
  <2> QED
    BY <2>1, <2>2, <2>3, RecallsOn DEF Minded
<1>9. ASSUME NEW now \in GTime, NEW l \in Link, PromoteSynapse(l, now)
      PROVE  Recalls(gMind', gBrain'.patterns)
  <2>1. gBrain' = Strengthened(Settled(now).brain, {l}, now) /\ gMind' = gMind
    BY <1>9 DEF PromoteSynapse, Become, Settled
  <2>2. Minded(Settled(now), now) /\ Settled(now).mind = gMind
    BY <1>0, SettledMinded
  <2>3. gBrain'.patterns = Settled(now).brain.patterns
    BY <2>1, <2>2, PaidKnows, LearningKeeps DEF Minded, Knows
  <2> QED
    BY <2>1, <2>2, <2>3 DEF Minded
<1>10. ASSUME NEW now \in GTime, NEW p \in GLesson, NEW predicted \in GPredicted, NEW states,
             ImportKnowledge(p, states, now, predicted)
      PROVE  Recalls(gMind', gBrain'.patterns)
  BY <1>0, <1>10, ImportsRecall
<1>11. CASE UNCHANGED gVars
  BY <1>11 DEF gVars, Continues
<1> QED
  BY <1>2, <1>4, <1>5, <1>6, <1>7, <1>8, <1>9, <1>10, <1>11 DEF GNext

(* The continuation stays within its budgets and in its order, and what it *)
(* remembers was seen in this episode, however events, episodes and        *)
(* timestamps follow each other.                                           *)
THEOREM RecallInvariance == GSpec => []Continues
<1>1. GInit => Continues
  BY MindInit, RetentionInit, RecallInit DEF Continues
<1>2. Continues /\ [GNext]_gVars => Continues'
  BY MindStep, RetentionStep, RecallStep DEF Continues
<1> QED
  BY <1>1, <1>2, PTL DEF GSpec

(* No pattern is credited in a forecast on part of its cue, out of order,  *)
(* across episodes or on frames older than ContextMaxAge: its end is in    *)
(* the observation, the rest in frames the context still holds, which were *)
(* seen in that order (contextMatch, PredictRecurrent).                    *)
THEOREM CreditsSupported == GSpec => []CreditSupported
<1>1. Continues => CreditSupported
  <2> SUFFICES ASSUME Continues PROVE CreditSupported
    OBVIOUS
  <2>1. ASSUME NEW p \in gMind.forecast.credit PROVE Supported(p, gMind.seen, gMind.forecast.at)
    <3>1. gMind.forecast # NoForecast
      <4>1. NoForecast = [episode |-> NoEpisode, at |-> Never, source |-> {}, credit |-> {}, of |-> 0]
        BY Zenon DEF NoForecast, NoEpisode
      <4>2. NoForecast.credit = {}
        BY <4>1
      <4> QED
        BY <2>1, <4>2, Zenon
    <3> QED
      BY <2>1, <3>1 DEF Continues, Recalls
  <2> QED
    BY <2>1, Zenon DEF CreditSupported, Supported
<1> QED
  BY <1>1, RecallInvariance, PTL

(* A checkpoint of any reachable continuation passes what a restore        *)
(* requires of it: budgets, ordinals, times, the cue and the forecast      *)
(* (ContextState.Validate, validateObservationPrediction).                 *)
THEOREM ContinuationsRestore == GSpec => []ContinuationRestores
<1>1. Continues => ContinuationRestores
  <2> SUFFICES ASSUME Continues PROVE ContinuationRestores
    OBVIOUS
  <2> DEFINE c == gMind.context
             f == gMind.forecast
             n == Len(c.frames)
  <2>1. /\ IsMemory(c) /\ Recalls(gMind, gBrain.patterns) /\ Judged(gMind)
    BY DEF Continues, Recalls, MindInd
  <2>2. /\ c.frames \in Seq(Frame) /\ Budgeted(c.frames) /\ c.cue <= c.ordinal + 1
        /\ (c.frames # <<>> => c.cue > 0) /\ Ordered(c.frames, c.ordinal)
    BY <2>1 DEF IsMemory
  <2>3. n \in Nat /\ DOMAIN c.frames = 1 .. n /\ (n > 0 => c.frames # <<>>) /\ (c.frames # <<>> => n \in 1 .. n)
    BY <2>2
  <2>4. ASSUME NEW i \in 2 .. n
        PROVE  c.frames[i - 1].ord < c.frames[i].ord /\ c.frames[i - 1].at <= c.frames[i].at
    <3>1. i - 1 \in 1 .. n /\ i \in 1 .. n /\ i - 1 < i
      BY <2>3
    <3> QED
      BY <2>2, <2>3, <3>1 DEF Ordered
  <2>5. ASSUME f # NoForecast
        PROVE  /\ Marked(gMind.trace, f.source)
               /\ c.open /\ c.episode = f.episode
               /\ LastAt(c) <= f.at
               /\ n > 0 /\ c.frames[n].ord >= c.cue => c.frames[n].at = f.at
               /\ f.credit \subseteq gBrain.patterns
    <3>1. /\ f.at \in Nat /\ Marked(gMind.trace, f.source) /\ Present(c, f.at)
          /\ f.credit \subseteq gBrain.patterns
      BY <2>1, <2>5 DEF Recalls
    <3>2. c.open /\ c.episode = f.episode
      BY <2>1, <2>5 DEF Judged
    <3>3. LastAt(c) <= f.at
      <4>1. CASE c.frames = <<>>
        BY <3>1, <4>1 DEF LastAt, Never
      <4>2. CASE c.frames # <<>>
        BY <2>3, <3>1, <4>2 DEF LastAt, Present
      <4> QED
        BY <4>1, <4>2
    <3>4. n > 0 /\ c.frames[n].ord >= c.cue => c.frames[n].at = f.at
      BY <2>3, <3>1 DEF Present
    <3> QED
      BY <3>1, <3>2, <3>3, <3>4
  <2>6. n <= GFrames /\ MembersOf(c.frames) <= GMembers
    BY <2>2 DEF Budgeted
  <2>7. \A i \in 1 .. n : c.frames[i].ord <= c.ordinal
    BY <2>2, <2>3 DEF Ordered
  <2>8. n > 0 => c.cue > 0
    BY <2>2, <2>3
  <2>9. f # NoForecast => Marked(gMind.trace, f.source)
    BY <2>5
  <2> HIDE DEF c, f, n
  <2> QED
    BY <2>2, <2>4, <2>5, <2>6, <2>7, <2>8, Zenon DEF ContinuationRestores, Marked, c, f, n
<1> QED
  BY <1>1, RecallInvariance, PTL

-----------------------------------------------------------------------------
(* Thinking: the ranking has what was ranked.                              *)

Pick(s) == CHOOSE x \in s : TRUE
UpTo(S, k) == {s \in SUBSET S : Cardinality(s) <= k}

RankedBy(f, D) ==
    f = [s \in D |-> IF s = {} THEN <<>> ELSE Append(f[s \ {Pick(s)}], Pick(s))]

LEMMA PickedFrom ==
    ASSUME NEW S, IsFiniteSet(S), NEW s \in SUBSET S
    PROVE  /\ Cardinality(s) \in Nat
           /\ s # {} => /\ Pick(s) \in s /\ s \ {Pick(s)} \in SUBSET S
                        /\ Cardinality(s \ {Pick(s)}) = Cardinality(s) - 1
           /\ Cardinality(s) = 0 => s = {}
<1>1. IsFiniteSet(s)
  BY FS_Subset
<1>2. s # {} => Pick(s) \in s
  BY Zenon DEF Pick
<1>3. s # {} => Cardinality(s \ {Pick(s)}) = Cardinality(s) - 1
  BY <1>1, <1>2, FS_RemoveElement, Zenon
<1>4. Cardinality(s) \in Nat /\ (Cardinality(s) = 0 => s = {})
  BY <1>1, FS_CardinalityType, FS_EmptySet, Zenon
<1>5. s \ {Pick(s)} \in SUBSET S
  OBVIOUS
<1> QED
  BY <1>2, <1>3, <1>4, <1>5

LEMMA NoneUpTo ==
    ASSUME NEW S, IsFiniteSet(S)
    PROVE  \A s \in UpTo(S, 0) : s = {}
<1> SUFFICES ASSUME NEW s \in UpTo(S, 0) PROVE s = {}
  OBVIOUS
<1>1. s \in SUBSET S /\ Cardinality(s) <= 0
  BY DEF UpTo
<1>2. Cardinality(s) \in Nat /\ (Cardinality(s) = 0 => s = {})
  BY <1>1, PickedFrom
<1> QED
  BY <1>1, <1>2

LEMMA RankedExists ==
    ASSUME NEW S, IsFiniteSet(S)
    PROVE  \E f : RankedBy(f, SUBSET S)
<1> DEFINE T == {k \in Nat : \E f : RankedBy(f, UpTo(S, k))}
<1>1. 0 \in T
  <2> DEFINE g == [s \in UpTo(S, 0) |-> <<>>]
  <2>1. \A s \in UpTo(S, 0) : s = {}
    BY NoneUpTo
  <2>2. RankedBy(g, UpTo(S, 0))
    BY <2>1 DEF RankedBy
  <2> QED
    BY <2>2
<1>2. ASSUME NEW k \in Nat, k \in T PROVE k + 1 \in T
  <2>1. PICK f : RankedBy(f, UpTo(S, k))
    BY <1>2
  <2> DEFINE g == [s \in UpTo(S, k + 1) |->
                      IF Cardinality(s) <= k THEN f[s] ELSE Append(f[s \ {Pick(s)}], Pick(s))]
  <2>2. ASSUME NEW s \in UpTo(S, k + 1)
        PROVE  g[s] = IF s = {} THEN <<>> ELSE Append(g[s \ {Pick(s)}], Pick(s))
    <3>1. /\ s \in SUBSET S /\ Cardinality(s) \in Nat /\ Cardinality(s) <= k + 1
          /\ s # {} => /\ s \ {Pick(s)} \in SUBSET S
                       /\ Cardinality(s \ {Pick(s)}) = Cardinality(s) - 1
      BY PickedFrom DEF UpTo
    <3>2. s # {} => g[s \ {Pick(s)}] = f[s \ {Pick(s)}] /\ s \ {Pick(s)} \in UpTo(S, k)
      BY <3>1 DEF UpTo
    <3>3. CASE Cardinality(s) <= k
      <4>1. s \in UpTo(S, k) /\ g[s] = f[s]
        BY <3>1, <3>3 DEF UpTo
      <4>2. f[s] = IF s = {} THEN <<>> ELSE Append(f[s \ {Pick(s)}], Pick(s))
        BY <2>1, <4>1, Zenon DEF RankedBy
      <4> QED
        BY <3>2, <4>1, <4>2
    <3>4. CASE ~(Cardinality(s) <= k)
      <4>1. g[s] = Append(f[s \ {Pick(s)}], Pick(s))
        BY <3>4
      <4>2. s # {}
        BY <3>1, <3>4, FS_EmptySet
      <4> QED
        BY <3>2, <4>1, <4>2
    <3> QED
      BY <3>3, <3>4
  <2> HIDE DEF g
  <2>3. g = [s \in UpTo(S, k + 1) |-> g[s]]
    BY DEF g
  <2>4. RankedBy(g, UpTo(S, k + 1))
    BY <2>2, <2>3, Zenon DEF RankedBy
  <2> QED
    BY <2>4
<1> HIDE DEF T
<1>3. Nat \subseteq T
  BY <1>1, <1>2, Induction
<1>4. Cardinality(S) \in T
  BY <1>3, FS_CardinalityType
<1>5. UpTo(S, Cardinality(S)) = SUBSET S
  BY FS_Subset DEF UpTo
<1> QED
  BY <1>4, <1>5 DEF T

LEMMA RankedHas ==
    ASSUME NEW S, IsFiniteSet(S), S # {}
    PROVE  /\ Ranked(S) \in Seq(S) /\ Ranked(S) # <<>>
<1> DEFINE it == CHOOSE f : f = [s \in SUBSET S |->
                     IF s = {} THEN <<>> ELSE Append(f[s \ {Pick(s)}], Pick(s))]
<1>1. Ranked(S) = it[S]
  BY Zenon DEF Ranked, FoldSet, MapThenFoldSet, Pick
<1>2. it = CHOOSE f : RankedBy(f, SUBSET S)
  BY Zenon DEF RankedBy
<1> HIDE DEF it
<1>3. RankedBy(it, SUBSET S)
  BY <1>2, RankedExists, Zenon
<1> DEFINE T == {k \in Nat : \A s \in UpTo(S, k) : it[s] \in Seq(S)}
<1>4. ASSUME NEW s \in SUBSET S
      PROVE  it[s] = IF s = {} THEN <<>> ELSE Append(it[s \ {Pick(s)}], Pick(s))
  BY <1>3, Zenon DEF RankedBy
<1>5. 0 \in T
  <2>1. \A s \in UpTo(S, 0) : s = {}
    BY NoneUpTo
  <2>2. it[{}] = <<>>
    BY <1>4
  <2>3. <<>> \in Seq(S)
    BY EmptySeq, Zenon
  <2> QED
    BY <2>1, <2>2, <2>3
<1>6. ASSUME NEW k \in Nat, k \in T PROVE k + 1 \in T
  <2> SUFFICES \A s \in UpTo(S, k + 1) : it[s] \in Seq(S)
    OBVIOUS
  <2> SUFFICES ASSUME NEW s \in UpTo(S, k + 1) PROVE it[s] \in Seq(S)
    OBVIOUS
  <2>1. /\ s \in SUBSET S /\ Cardinality(s) \in Nat /\ Cardinality(s) <= k + 1
        /\ s # {} => /\ Pick(s) \in s /\ s \ {Pick(s)} \in SUBSET S
                     /\ Cardinality(s \ {Pick(s)}) = Cardinality(s) - 1
    BY PickedFrom DEF UpTo
  <2>2. CASE s = {}
    <3>1. it[s] = <<>>
      BY <1>4, <2>1, <2>2
    <3> QED
      BY <3>1, EmptySeq, Zenon
  <2>3. CASE s # {}
    <3>1. s \ {Pick(s)} \in UpTo(S, k) /\ Pick(s) \in S
      BY <2>1, <2>3 DEF UpTo
    <3>2. it[s \ {Pick(s)}] \in Seq(S)
      BY <1>6, <3>1
    <3>3. it[s] = Append(it[s \ {Pick(s)}], Pick(s))
      BY <1>4, <2>1, <2>3
    <3> QED
      BY <3>1, <3>2, <3>3, AppendProperties
  <2> QED
    BY <2>2, <2>3
<1> HIDE DEF T
<1>7. Nat \subseteq T
  BY <1>5, <1>6, Induction
<1>8. \A k \in Nat : \A s \in UpTo(S, k) : it[s] \in Seq(S)
  BY <1>7 DEF T
<1>9. \A s \in SUBSET S : it[s] \in Seq(S)
  <2> SUFFICES ASSUME NEW s \in SUBSET S PROVE it[s] \in Seq(S)
    OBVIOUS
  <2>1. Cardinality(s) \in Nat
    BY PickedFrom
  <2>2. s \in UpTo(S, Cardinality(s))
    BY <2>1 DEF UpTo
  <2> QED
    BY <1>8, <2>1, <2>2
<1>10. it[S] = Append(it[S \ {Pick(S)}], Pick(S)) /\ it[S \ {Pick(S)}] \in Seq(S)
  BY <1>4, <1>9
<1>11. it[S] # <<>>
  BY <1>10, AppendProperties, PickedFrom
<1> QED
  BY <1>1, <1>9, <1>11

-----------------------------------------------------------------------------
(* What is active is known, and interpretations are made of it.            *)

KnownBrain == tBrain \in TBrain /\ tQuestion \in TQuestion

LEMMA NearbyKnown ==
    ASSUME KnownBrain
    PROVE  Nearby \subseteq TNode
<1>1. tQuestion.words \in Seq(TNode) /\ tQuestion.context \subseteq TNode
  BY TAssumption DEF KnownBrain
<1>2. Asked \subseteq TNode
  BY <1>1, ElementOfSeq DEF Asked, ToSet
<1> QED
  BY <1>1, <1>2 DEF Nearby, Touching, Seeds

LEMMA ActiveKnown ==
    ASSUME KnownBrain, NEW e \in Active
    PROVE  /\ e.from \in TNode /\ e.to \in TNode
           /\ \E s \in ToSet(tBrain[<<e.from, e.to>>]) :
                 s \in [kind : STRING, inh : BOOLEAN] /\ s.kind = e.kind /\ s.inh = e.inh
<1>1. PICK p \in Nearby \X Nearby : tBrain[p] # <<>> /\ e = Edge(p[1], p[2], Head(tBrain[p]))
  BY DEF Active
<1>2. p \in TNode \X TNode /\ p = <<p[1], p[2]>>
  BY NearbyKnown
<1>3. tBrain[p] \in Seq([kind : STRING, inh : BOOLEAN])
  BY <1>2, TAssumption DEF KnownBrain
<1>4. Head(tBrain[p]) \in ToSet(tBrain[p]) /\ Head(tBrain[p]) \in [kind : STRING, inh : BOOLEAN]
  <2>1. Len(tBrain[p]) \in Nat /\ Len(tBrain[p]) # 0 /\ DOMAIN tBrain[p] = 1 .. Len(tBrain[p])
    BY <1>1, <1>3, EmptySeq
  <2>2. 1 \in DOMAIN tBrain[p] /\ Head(tBrain[p]) = tBrain[p][1]
    BY <1>1, <1>3, <2>1
  <2>3. tBrain[p][1] \in [kind : STRING, inh : BOOLEAN]
    BY <1>3, <2>1, <2>2, ElementOfSeq
  <2>4. tBrain[p][1] \in ToSet(tBrain[p])
    BY <2>2, Zenon DEF ToSet
  <2> QED
    BY <2>2, <2>3, <2>4
<1>5. e.from = p[1] /\ e.to = p[2] /\ e.kind = Head(tBrain[p]).kind /\ e.inh = Head(tBrain[p]).inh
  BY <1>1 DEF Edge
<1> QED
  BY <1>2, <1>4, <1>5

LEMMA AnchoredActive ==
    ASSUME NEW n, NEW r \in BOOLEAN
    PROVE  Anchored(n, r).relations \subseteq Active
<1>1. ASSUME NEW c, c.relations \subseteq Active PROVE Grow(c, r).relations \subseteq Active
  <2> DEFINE out == {e \in Active : e.from \in c.frontier}
             seen == c.nodes \cup {e.to : e \in {x \in out : ~x.inh}}
             back == {e \in Active :
                        /\ r /\ e.to \in c.frontier
                        /\ \/ e.from \in seen
                           \/ \E f \in Active : f.from = e.from /\ f.to \in seen \ {e.to}}
  <2>1. Grow(c, r).relations = c.relations \cup out \cup back
    BY DEF Grow
  <2> QED
    BY <1>1, <2>1
<1>2. Seeded(n).relations \subseteq Active
  BY DEF Seeded
<1> QED
  BY <1>1, <1>2 DEF Anchored

LEMMA InterpretationsActive ==
    ASSUME KnownBrain, NEW seeds \in SeedSets
    PROVE  LET S == BuildInterpretations(seeds) IN
           /\ IsFiniteSet(S) /\ S # {}
           /\ \A c \in S : c.relations \subseteq Active
<1> DEFINE whole == [nodes |-> Nearby, relations |-> Active]
           image(r) == {Interpretation(Anchored(n, r)) : n \in seeds}
           S == BuildInterpretations(seeds)
<1>1. IsFiniteSet(seeds)
  <2>1. seeds \subseteq Nearby
    BY DEF SeedSets
  <2>2. seeds \subseteq TNode
    BY <2>1, NearbyKnown
  <2> QED
    BY <2>2, FS_Subset, TAssumption
<1>2. ASSUME NEW r \in BOOLEAN PROVE IsFiniteSet(image(r))
  <2> DEFINE f == [n \in seeds |-> Interpretation(Anchored(n, r))]
  <2>1. f \in Surjection(seeds, image(r))
    BY DEF Surjection
  <2> HIDE DEF f, image
  <2> QED
    BY <1>1, <2>1, FS_Surjection
<1>3. S \subseteq image(TRUE) \cup image(FALSE) \cup {whole}
  <2> SUFFICES ASSUME NEW c \in S PROVE c \in image(TRUE) \cup image(FALSE) \cup {whole}
    OBVIOUS
  <2>1. CASE c = whole
    BY <2>1
  <2>2. CASE c # whole
    <3>1. PICK n \in seeds, r \in BOOLEAN : c = Interpretation(Anchored(n, r))
      BY <2>2 DEF BuildInterpretations
    <3>2. CASE r = TRUE
      BY <3>1, <3>2
    <3>3. CASE r = FALSE
      BY <3>1, <3>3
    <3> QED
      BY <3>2, <3>3
  <2> QED
    BY <2>1, <2>2
<1>4. IsFiniteSet(S)
  <2> HIDE DEF image, whole, S
  <2>1. IsFiniteSet(image(TRUE)) /\ IsFiniteSet(image(FALSE))
    BY <1>2
  <2>2. IsFiniteSet(image(TRUE) \cup image(FALSE))
    BY <2>1, FS_Union
  <2>3. IsFiniteSet(image(TRUE) \cup image(FALSE) \cup {whole})
    BY <2>2, FS_AddElement
  <2> QED
    BY <1>3, <2>3, FS_Subset
<1>5. ASSUME NEW c \in S PROVE c.relations \subseteq Active
  <2>1. CASE c = whole
    BY <2>1
  <2>2. CASE c # whole
    <3>1. PICK n \in seeds, r \in BOOLEAN : c = Interpretation(Anchored(n, r))
      BY <2>2 DEF BuildInterpretations
    <3>2. c.relations = Anchored(n, r).relations
      BY <3>1 DEF Interpretation
    <3> QED
      BY <3>2, AnchoredActive
  <2> QED
    BY <2>1, <2>2
<1>6. S # {}
  <2>1. whole \in S
    BY DEF BuildInterpretations
  <2> HIDE DEF S
  <2> QED
    BY <2>1
<1> QED
  BY <1>4, <1>5, <1>6

-----------------------------------------------------------------------------
(* A verdict and what it rests on.                                         *)

Genuine(path) == \E a, b : path \in Direct(a, b, Active) \cup TwoSteps(a, b, Active)

(* A search keeps some of the paths there are.                             *)
LEMMA PathsKept ==
    ASSUME NEW a, NEW b, NEW edges, NEW found \in EvidencePaths(a, b, edges)
    PROVE  found \subseteq Direct(a, b, edges) \cup TwoSteps(a, b, edges)
<1> DEFINE ways == TwoSteps(a, b, edges)
<1>1. PICK n, kept : kept \in kSubset(n, ways) /\ found = Direct(a, b, edges) \cup kept
  <2> HIDE DEF ways
  <2> QED
    BY DEF EvidencePaths, ways
<1>2. kept \subseteq ways
  <2> HIDE DEF ways
  <2> QED
    BY <1>1 DEF kSubset
<1> QED
  BY <1>1, <1>2

Grounded(claim, verdict, constraints) ==
    LET synapses == ToSet(tBrain[<<claim.from, claim.to>>])
        stated   == [kind |-> claim.kind, inh |-> FALSE] \in synapses
        denied   == \E s \in synapses : s.inh
    IN /\ verdict = "SUPPORTED" =>
            /\ ~denied
            /\ stated \/ (claim.kind = "can_do" /\ Leads(claim) \ constraints # {})
       /\ verdict = "CONTRADICTED" => ~stated
       /\ verdict = "UNKNOWN" => ~stated /\ ~denied

LEMMA SupportLeads ==
    ASSUME KnownBrain, NEW claim, NEW path, Genuine(path), Supports(claim, path), ~Stated(claim)
    PROVE  /\ claim.kind = "can_do"
           /\ \E m \in Leads(claim) : path.nodes = <<claim.from, m, claim.to>>
<1>1. PICK a, b : path \in Direct(a, b, Active) \cup TwoSteps(a, b, Active)
  BY DEF Genuine
<1>2. CASE \E e \in Active : ~e.inh /\ e.from = a /\ e.to = b
                             /\ path = [nodes |-> <<a, b>>, kinds |-> <<e.kind>>]
  <2>1. PICK e \in Active : ~e.inh /\ e.from = a /\ e.to = b
                            /\ path = [nodes |-> <<a, b>>, kinds |-> <<e.kind>>]
    BY <1>2
  <2>2. claim.from = a /\ claim.to = b /\ claim.kind = e.kind
    BY <2>1 DEF Supports, Last
  <2>3. PICK s \in ToSet(tBrain[<<a, b>>]) :
           s \in [kind : STRING, inh : BOOLEAN] /\ s.kind = e.kind /\ s.inh = e.inh
    BY <2>1, ActiveKnown
  <2>4. s = [kind |-> claim.kind, inh |-> FALSE]
    BY <2>1, <2>2, <2>3
  <2> QED
    BY <2>2, <2>3, <2>4 DEF Stated
<1>3. CASE \E e, f \in Active :
              /\ ~e.inh /\ ~f.inh /\ Typed(e) /\ Typed(f) /\ e.from = a /\ f.from = e.to /\ f.to = b
              /\ path = [nodes |-> <<a, e.to, b>>, kinds |-> <<e.kind, f.kind>>]
  <2>1. PICK e \in Active, f \in Active :
              /\ ~e.inh /\ ~f.inh /\ Typed(e) /\ Typed(f) /\ e.from = a /\ f.from = e.to /\ f.to = b
              /\ path = [nodes |-> <<a, e.to, b>>, kinds |-> <<e.kind, f.kind>>]
    BY <1>3
  <2>2. claim.from = a /\ claim.to = b /\ claim.kind = "can_do"
    BY <2>1 DEF Supports, Last
  <2>3. e.to \in TNode
    BY ActiveKnown
  <2>4. \E s \in ToSet(tBrain[<<a, e.to>>]) : ~s.inh /\ Typed(s)
    <3>1. PICK s \in ToSet(tBrain[<<a, e.to>>]) : s.kind = e.kind /\ s.inh = e.inh
      BY <2>1, ActiveKnown
    <3> QED
      BY <2>1, <3>1 DEF Typed
  <2>5. \E s \in ToSet(tBrain[<<e.to, b>>]) : ~s.inh /\ Typed(s)
    <3>1. PICK s \in ToSet(tBrain[<<e.to, b>>]) : s.kind = f.kind /\ s.inh = f.inh
      BY <2>1, ActiveKnown
    <3> QED
      BY <2>1, <3>1 DEF Typed
  <2>6. e.to \in Leads(claim)
    BY <2>2, <2>3, <2>4, <2>5 DEF Leads
  <2> QED
    BY <2>1, <2>2, <2>6
<1> QED
  BY <1>1, <1>2, <1>3 DEF Direct, TwoSteps

LEMMA VerdictsGrounded ==
    ASSUME KnownBrain, NEW claim, NEW paths, \A p \in paths : Genuine(p), NEW constraints
    PROVE  Grounded(claim, Verdict(claim, paths, constraints), constraints)
<1> DEFINE support == Stated(claim) \/ \E p \in paths : Supports(claim, p)
           against == Inhibited(claim) \/ \E p \in paths : Blocked(claim, p, constraints)
           v == Verdict(claim, paths, constraints)
<1>1. /\ v = "SUPPORTED" => support /\ ~against
      /\ v = "CONTRADICTED" => ~support
      /\ v = "UNKNOWN" => ~support /\ ~against
  <2>1. v = CASE support /\ ~against -> "SUPPORTED" [] against /\ ~support -> "CONTRADICTED"
              [] support /\ against -> "CONFLICTED" [] OTHER -> "UNKNOWN"
    BY DEF Verdict
  <2> HIDE DEF support, against, v
  <2>2. CASE support /\ ~against
    BY <2>1, <2>2
  <2>3. CASE support /\ against
    BY <2>1, <2>3
  <2>4. CASE ~support /\ against
    BY <2>1, <2>4
  <2>5. CASE ~support /\ ~against
    BY <2>1, <2>5
  <2> QED
    BY <2>2, <2>3, <2>4, <2>5
<1>2. ASSUME support, ~against, ~Stated(claim)
      PROVE  claim.kind = "can_do" /\ Leads(claim) \ constraints # {}
  <2>1. PICK p \in paths : Supports(claim, p)
    BY <1>2
  <2>2. PICK m \in Leads(claim) : p.nodes = <<claim.from, m, claim.to>> /\ claim.kind = "can_do"
    BY <1>2, <2>1, SupportLeads
  <2>3. ~Blocked(claim, p, constraints)
    BY <1>2, <2>1
  <2>4. m \notin constraints
    BY <2>2, <2>3 DEF Blocked
  <2> QED
    BY <2>2, <2>4
<1> HIDE DEF v
<1>3. /\ v = "SUPPORTED" => ~Inhibited(claim) /\ (Stated(claim) \/
             (claim.kind = "can_do" /\ Leads(claim) \ constraints # {}))
      /\ v = "CONTRADICTED" => ~Stated(claim)
      /\ v = "UNKNOWN" => ~Stated(claim) /\ ~Inhibited(claim)
  BY <1>1, <1>2
<1> QED
  BY <1>3 DEF v, Grounded, Stated, Inhibited

-----------------------------------------------------------------------------
(* The audits.                                                             *)

(* The inventory names candidates that exist.                              *)
FormedOf(candidates, inventory) ==
    /\ \E n \in Nat \ {0} : Len(candidates) = n /\ DOMAIN candidates = 1 .. n
    /\ \A i \in DOMAIN candidates : candidates[i].relations \subseteq Active
    /\ \A it \in inventory : it.cand \in 0 .. Len(candidates)

LEMMA FormationOf ==
    ASSUME NEW candidates, NEW it \in Formation(candidates)
    PROVE  it.cand = 0 \/ it.cand \in DOMAIN candidates
BY DEF Formation, Item

LEMMA InterpretForms ==
    ASSUME KnownBrain, NEW seeds \in SeedSets
    PROVE  LET candidates == Ranked(BuildInterpretations(seeds)) IN
           /\ FormedOf(candidates, Preserve(Formation(candidates)))
           /\ AuditPreservation(Formation(candidates), Preserve(Formation(candidates))) = TRUE
<1> DEFINE S == BuildInterpretations(seeds)
           candidates == Ranked(S)
           after == Preserve(Formation(candidates))
<1>1. IsFiniteSet(S) /\ S # {} /\ \A c \in S : c.relations \subseteq Active
  BY InterpretationsActive
<1>2. AuditPreservation(Formation(candidates), after) = TRUE
  BY DEF AuditPreservation, Preserve
<1>3. \A it \in after : it.cand = 0 \/ it.cand \in DOMAIN candidates
  BY FormationOf DEF Preserve
<1> HIDE DEF S, after
<1>4. candidates \in Seq(S) /\ candidates # <<>>
  BY <1>1, RankedHas
<1> HIDE DEF candidates
<1>5. /\ Len(candidates) \in Nat \ {0} /\ DOMAIN candidates = 1 .. Len(candidates)
      /\ \A i \in DOMAIN candidates : candidates[i] \in S
  BY <1>4, EmptySeq, LenProperties, ElementOfSeq
<1>6. FormedOf(candidates, after)
  <2>1. \A it \in after : it.cand \in 0 .. Len(candidates)
    BY <1>3, <1>5
  <2>2. \A i \in DOMAIN candidates : candidates[i].relations \subseteq Active
    BY <1>1, <1>5
  <2> QED
    BY <1>5, <2>1, <2>2, Zenon DEF FormedOf
<1> QED
  BY <1>2, <1>6 DEF S, candidates, after

(* The adapter's own projection passes the audit.                          *)
LEMMA OwnProjection ==
    ASSUME FormedOf(tCandidates, tPreserved)
    PROVE  AuditConsumer(Project) = TRUE
<1> DEFINE n == Len(tCandidates)
           h == Project
<1>1. n \in Nat \ {0} /\ DOMAIN tCandidates = 1 .. n
  BY DEF FormedOf
<1>2. /\ DOMAIN h.structure = 1 .. n
      /\ \A i \in 1 .. n : h.structure[i] = [it \in Children(i) |-> Child(it)]
      /\ \A i \in 1 .. n : h.evidence[i] = {Digest(it) : it \in {x \in tPreserved : x.kind = "evidence"}}
      /\ DOMAIN h.mappings = {Digest(it) : it \in tPreserved}
  BY DEF Project
<1>3. ASSUME NEW it \in tPreserved
      PROVE  h.mappings[Digest(it)] = [cand |-> IF it.cand = 0 THEN n ELSE it.cand,
                                       kind |-> TargetKind(it), at |-> it]
  <2> DEFINE last(d) == CHOOSE x \in tPreserved :
                           /\ Digest(x) = d
                           /\ \A y \in tPreserved : Digest(y) = d => y.cand <= x.cand
  <2>1. it.cand \in Int
    BY <1>1 DEF FormedOf
  <2>2. last(Digest(it)) = it
    <3>1. \A y \in tPreserved : Digest(y) = Digest(it) => y.cand <= it.cand
      BY <2>1 DEF Digest
    <3>2. \E x \in tPreserved : /\ Digest(x) = Digest(it)
                                /\ \A y \in tPreserved : Digest(y) = Digest(it) => y.cand <= x.cand
      BY <3>1
    <3>3. Digest(last(Digest(it))) = Digest(it)
      BY <3>2, Zenon
    <3> QED
      BY <3>3 DEF Digest
  <2>3. h.mappings = [d \in {Digest(x) : x \in tPreserved} |->
            [cand |-> IF last(d).cand = 0 THEN n ELSE last(d).cand,
             kind |-> TargetKind(last(d)), at |-> last(d)]]
    BY DEF Project
  <2>4. Digest(it) \in {Digest(x) : x \in tPreserved}
    OBVIOUS
  <2> HIDE DEF last, h, n
  <2> QED
    BY <2>2, <2>3, <2>4
<1> HIDE DEF h, n
<1>4. ASSUME NEW it \in tPreserved
      PROVE  Digest(it) \in DOMAIN h.mappings /\ VerifyProjection(it, h.mappings[Digest(it)], h)
  <2> DEFINE m == h.mappings[Digest(it)]
  <2>1. /\ m.cand = (IF it.cand = 0 THEN n ELSE it.cand)
        /\ m.kind = TargetKind(it) /\ m.at = it
    <3> DEFINE target == TargetKind(it)
    <3> HIDE DEF target, m
    <3>1. m = [cand |-> IF it.cand = 0 THEN n ELSE it.cand, kind |-> target, at |-> it]
      BY <1>3 DEF m, target
    <3>2. m.cand = (IF it.cand = 0 THEN n ELSE it.cand) /\ m.kind = target /\ m.at = it
      BY <3>1
    <3> QED
      BY <3>2 DEF target
  <2>2. it.cand \in 0 .. n
    BY DEF FormedOf, n
  <2> HIDE DEF m
  <2>3. m.cand \in 1 .. n /\ (it.cand # 0 => it.cand = m.cand) /\ it.cand \in {0, m.cand}
    BY <1>1, <2>1, <2>2
  <2>4. it.kind = "evidence" => Digest(it) \in h.evidence[m.cand]
    BY <1>2, <2>3
  <2>5. it.kind # "evidence" => /\ m.at \in DOMAIN h.structure[m.cand]
                                /\ Represents(it, h.structure[m.cand][m.at])
    <3> SUFFICES ASSUME it.kind # "evidence"
                 PROVE  /\ m.at \in DOMAIN h.structure[m.cand]
                        /\ Represents(it, h.structure[m.cand][m.at])
      OBVIOUS
    <3>1. h.structure[m.cand] = [x \in Children(m.cand) |-> Child(x)]
      BY <1>2, <2>3
    <3>2. it \in Children(m.cand)
      BY <2>3 DEF Children
    <3>3. Child(it).inh = it.inh /\ Child(it).parts = it.parts
      BY DEF Child
    <3>4. Represents(it, Child(it))
      BY <3>3 DEF Represents
    <3> QED
      BY <2>1, <3>1, <3>2, <3>4
  <2> QED
    BY <1>2, <2>1, <2>3, <2>4, <2>5 DEF VerifyProjection, m
<1>5. AuditConsumer(h)
  BY <1>1, <1>2, <1>4 DEF AuditConsumer
<1> QED
  BY <1>5 DEF h

(* What the audit of the consumer accepts represents every item.           *)
LEMMA AuditSound ==
    ASSUME AuditConsumer(tHFCC), NEW it \in tPreserved
    PROVE  Represented(it)
<1> DEFINE m == tHFCC.mappings[Digest(it)]
<1>1. VerifyProjection(it, m, tHFCC)
  BY DEF AuditConsumer
<1> HIDE DEF m
<1>2. m.cand \in DOMAIN tHFCC.structure /\ it.cand \in {0, m.cand}
  BY <1>1 DEF VerifyProjection
<1>3. CASE it.kind = "evidence"
  BY <1>1, <1>2, <1>3 DEF VerifyProjection, Represented, Digest
<1>4. CASE it.kind # "evidence"
  BY <1>1, <1>2, <1>4 DEF VerifyProjection, Represented, Represents
<1> QED
  BY <1>3, <1>4

-----------------------------------------------------------------------------
(* Thinking: its inductive invariant.                                      *)

Interpreted == tStage \in {"preserved", "projected", "decided"}

Audited ==
    /\ tStage = "preserved" => tPass = <<TRUE, TRUE>>
    /\ tStage = "projected" => /\ ~tForeign => tPass = <<TRUE, TRUE>>
                               /\ tPass[2] => AuditConsumer(tHFCC)

ThinkInd ==
    /\ KnownBrain
    /\ tStage # "asked" => \A p \in tState.paths : Genuine(p)
    /\ Interpreted => FormedOf(tCandidates, tPreserved)
    /\ Audited
    /\ tStage = "decided" /\ tClaim # NoClaim => Grounded(tClaim, tVerdict, tState.constraints)

LEMMA SameGraph ==
    ASSUME UNCHANGED <<tBrain, tQuestion>>
    PROVE  /\ KnownBrain' <=> KnownBrain
           /\ Active' = Active
           /\ \A p : Genuine(p)' <=> Genuine(p)
           /\ \A c, i : FormedOf(c, i)' <=> FormedOf(c, i)
<1>1. Active' = Active
  BY DEF Active, Nearby, Touching, Seeds, Asked
<1> QED
  BY <1>1 DEF KnownBrain, Genuine, Direct, TwoSteps, FormedOf

(* What a state gathers was found for a request or a fact.                 *)
LEMMA GatheredFound ==
    ASSUME NEW requested, NEW facts, NEW found, NEW x \in Gathered(requested, facts, found)
    PROVE  \E p \in ToSet(requested) \cup facts : x \in WaysOf(p.from, p.to, found)
<1> DEFINE of(p) == WaysOf(p.from, p.to, found)
           open(i) == Cardinality({q \in (1 .. i - 1) \X found : q[2] \in of(requested[q[1]])})
                          < MaxPaths
           asked == {j \in DOMAIN requested : open(j)}
           forRequests == {of(requested[i]) : i \in asked}
           forFacts == {of(f) : f \in facts}
<1>1. Gathered(requested, facts, found) = UNION (forRequests \cup forFacts)
  BY DEF Gathered
<1>2. \A S \in forRequests : \E p \in ToSet(requested) : S = of(p)
  <2> HIDE DEF of, open
  <2>1. \A i \in asked : requested[i] \in ToSet(requested)
    BY Zenon DEF ToSet
  <2> QED
    BY <2>1
<1>3. \A S \in forFacts : \E p \in facts : S = of(p)
  OBVIOUS
<1> HIDE DEF forRequests, forFacts
<1>4. PICK S \in forRequests \cup forFacts : x \in S
  BY <1>1
<1> QED
  BY <1>2, <1>3, <1>4

LEMMA FunctionalStateInd ==
    ASSUME ThinkInd, BuildFunctionalState
    PROVE  ThinkInd'
<1>1. /\ tStage' = "stated"
      /\ UNCHANGED <<tBrain, tQuestion>>
  BY DEF BuildFunctionalState
<1>2. PICK claims, found :
         /\ \A p \in claims :
               WaysOf(p.from, p.to, found) \in EvidencePaths(p.from, p.to, Active)
         /\ \A x \in tState'.paths : \E p \in claims : x \in WaysOf(p.from, p.to, found)
  <2> DEFINE links == LinksAmong(Content, Asked)
  <2>1. PICK seen \in SetToSeqs(links \cap Active), other \in SetToSeqs(links \ Active),
             content \in SetToSeqs(Content), framing \in SetToSeqs(Asked \ Content),
             primary \in Primary :
           LET requested == Requested(seen, other, content, framing, primary) IN
           \E facts \in SetToSeqs(Facts(primary, requested)) :
               LET able == {f \in ToSet(facts) : f.kind = "can_do"}
                   searched == ToSet(requested) \cup able
               IN
               \E found \in SUBSET UNION {UNION EvidencePaths(p.from, p.to, Active) : p \in searched} :
                  /\ \A p \in searched :
                        WaysOf(p.from, p.to, found) \in EvidencePaths(p.from, p.to, Active)
                  /\ tState' =
                       [requested   |-> requested, facts |-> facts,
                        describe    |-> Len(content) = 1 /\ requested = <<>>,
                        paths       |-> Gathered(requested, able, found),
                        constraints |-> Constraints]
    BY DEF BuildFunctionalState
  <2> DEFINE requested == Requested(seen, other, content, framing, primary)
  <2>2. PICK facts \in SetToSeqs(Facts(primary, requested)) :
               LET able == {f \in ToSet(facts) : f.kind = "can_do"}
                   searched == ToSet(requested) \cup able
               IN
               \E found \in SUBSET UNION {UNION EvidencePaths(p.from, p.to, Active) : p \in searched} :
                  /\ \A p \in searched :
                        WaysOf(p.from, p.to, found) \in EvidencePaths(p.from, p.to, Active)
                  /\ tState' =
                       [requested   |-> requested, facts |-> facts,
                        describe    |-> Len(content) = 1 /\ requested = <<>>,
                        paths       |-> Gathered(requested, able, found),
                        constraints |-> Constraints]
    BY <2>1
  <2> HIDE DEF requested
  <2> DEFINE able == {f \in ToSet(facts) : f.kind = "can_do"}
             claims == ToSet(requested) \cup able
  <2>3. PICK found :
           /\ \A p \in claims : WaysOf(p.from, p.to, found) \in EvidencePaths(p.from, p.to, Active)
           /\ tState' =
                [requested   |-> requested, facts |-> facts,
                 describe    |-> Len(content) = 1 /\ requested = <<>>,
                 paths       |-> Gathered(requested, able, found),
                 constraints |-> Constraints]
    BY <2>2
  <2>4. tState'.paths = Gathered(requested, able, found)
    BY <2>3
  <2>5. \A x \in Gathered(requested, able, found) :
           \E p \in claims : x \in WaysOf(p.from, p.to, found)
    <3> HIDE DEF able
    <3> QED
      BY GatheredFound
  <2> HIDE DEF able, claims
  <2> QED
    BY <2>3, <2>4, <2>5
<1>3. \A p \in tState'.paths : Genuine(p)
  BY <1>2, PathsKept DEF Genuine
<1> QED
  BY <1>1, <1>3, SameGraph DEF ThinkInd, Interpreted, Audited

LEMMA InterpretInd ==
    ASSUME ThinkInd, Interpret
    PROVE  ThinkInd'
<1>1. /\ tStage = "stated" /\ tStage' = "preserved"
      /\ UNCHANGED <<tBrain, tQuestion, tState>>
  BY DEF Interpret
<1>2. PICK seeds \in SeedSets :
         LET candidates == Ranked(BuildInterpretations(seeds)) IN
         /\ tCandidates' = candidates
         /\ tPreserved' = Preserve(Formation(candidates))
         /\ tPass' = <<AuditPreservation(Formation(candidates), Preserve(Formation(candidates))), TRUE>>
  BY Zenon DEF Interpret
<1>3. /\ FormedOf(tCandidates', tPreserved')
      /\ tPass' = <<TRUE, TRUE>>
  <2> DEFINE candidates == Ranked(BuildInterpretations(seeds))
             passed == AuditPreservation(Formation(candidates), Preserve(Formation(candidates)))
  <2>1. FormedOf(candidates, Preserve(Formation(candidates))) /\ passed = TRUE
    BY InterpretForms DEF ThinkInd
  <2>2. tCandidates' = candidates /\ tPreserved' = Preserve(Formation(candidates))
        /\ tPass' = <<passed, TRUE>>
    BY <1>2
  <2> HIDE DEF candidates, passed
  <2> QED
    BY <2>1, <2>2
<1>4. FormedOf(tCandidates, tPreserved)'
  BY <1>1, <1>3, SameGraph DEF FormedOf
<1> QED
  BY <1>1, <1>3, <1>4, SameGraph DEF ThinkInd, Audited

LEMMA ProjectInd ==
    ASSUME ThinkInd, ProjectAndAudit
    PROVE  ThinkInd'
<1>1. /\ tStage = "preserved" /\ tStage' = "projected" /\ tHFCC' = Project /\ tForeign' = FALSE
      /\ tPass' = <<tPass[1], AuditConsumer(Project)>>
      /\ UNCHANGED <<tBrain, tQuestion, tState, tCandidates, tPreserved>>
  BY DEF ProjectAndAudit
<1>2. FormedOf(tCandidates, tPreserved) /\ tPass = <<TRUE, TRUE>>
  BY <1>1 DEF ThinkInd, Interpreted, Audited
<1>3. AuditConsumer(Project) = TRUE
  BY <1>2, OwnProjection
<1>4. AuditConsumer(tHFCC)'
  BY <1>1, <1>3 DEF AuditConsumer
<1>5. tPass' = <<TRUE, TRUE>>
  BY <1>1, <1>2, <1>3
<1>6. Audited'
  BY <1>1, <1>4, <1>5 DEF Audited
<1>7. FormedOf(tCandidates, tPreserved)'
  BY <1>1, <1>2, SameGraph DEF FormedOf
<1> QED
  BY <1>1, <1>6, <1>7, SameGraph DEF ThinkInd

LEMMA ForeignInd ==
    ASSUME ThinkInd, AuditForeign
    PROVE  ThinkInd'
<1>1. /\ tStage = "projected" /\ tForeign' = TRUE
      /\ tPass' = <<tPass[1], AuditConsumer(tHFCC')>>
      /\ UNCHANGED <<tBrain, tQuestion, tStage, tState, tCandidates, tPreserved, tClaim, tVerdict>>
  BY DEF AuditForeign
<1>2. tPass'[2] => AuditConsumer(tHFCC)'
  <2>1. CASE AuditConsumer(tHFCC') = TRUE
    BY <1>1, <2>1 DEF AuditConsumer
  <2>2. CASE AuditConsumer(tHFCC') = FALSE
    BY <1>1, <2>2
  <2> QED
    BY <2>1, <2>2 DEF AuditConsumer
<1>3. Audited'
  BY <1>1, <1>2 DEF Audited
<1>4. FormedOf(tCandidates, tPreserved)'
  BY <1>1, SameGraph DEF ThinkInd, Interpreted, FormedOf
<1> QED
  BY <1>1, <1>3, <1>4, SameGraph DEF ThinkInd

LEMMA DecideInd ==
    ASSUME ThinkInd, DecideEvaluation
    PROVE  ThinkInd'
<1>1. /\ tStage = "projected" /\ tStage' = "decided"
      /\ UNCHANGED <<tBrain, tQuestion, tState, tCandidates, tPreserved>>
  BY DEF DecideEvaluation
<1> DEFINE claim == SelectPrimaryRequested
<1>2. PICK best, found :
         /\ best \in Best /\ found \in EvidencePaths(claim.from, claim.to, best.relations)
         /\ tClaim' = claim
         /\ tVerdict' = IF claim = NoClaim THEN "UNKNOWN"
                        ELSE Verdict(claim, tState.paths \cup found, tState.constraints)
  BY Zenon DEF DecideEvaluation
<1>3. best.relations \subseteq Active
  BY <1>1, <1>2 DEF Best, ToSet, ThinkInd, Interpreted, FormedOf
<1> HIDE DEF claim
<1>4. \A p \in tState.paths \cup found : Genuine(p)
  <2>1. \A p \in tState.paths : Genuine(p)
    BY <1>1 DEF ThinkInd
  <2>2. \A p \in found : p \in Direct(claim.from, claim.to, best.relations)
                            \cup TwoSteps(claim.from, claim.to, best.relations)
    BY <1>2, PathsKept
  <2>3. \A p \in found : p \in Direct(claim.from, claim.to, Active)
                            \cup TwoSteps(claim.from, claim.to, Active)
    BY <1>3, <2>2 DEF Direct, TwoSteps
  <2> QED
    BY <2>1, <2>3 DEF Genuine
<1>5. tClaim' # NoClaim => Grounded(tClaim', tVerdict', tState.constraints)
  BY <1>2, <1>4, VerdictsGrounded DEF ThinkInd
<1>6. tClaim' # NoClaim => Grounded(tClaim, tVerdict, tState.constraints)'
  BY <1>1, <1>5 DEF Grounded, Leads
<1>7. FormedOf(tCandidates, tPreserved)'
  BY <1>1, SameGraph DEF ThinkInd, Interpreted, FormedOf
<1> QED
  BY <1>1, <1>6, <1>7, SameGraph DEF ThinkInd, Audited

THEOREM ThinkInvariance == TSpec => []ThinkInd
<1>1. TInit => ThinkInd
  BY DEF TInit, ThinkInd, KnownBrain, Interpreted, Audited
<1>2. ThinkInd /\ [TNext]_tVars => ThinkInd'
  <2> SUFFICES ASSUME ThinkInd, [TNext]_tVars PROVE ThinkInd'
    OBVIOUS
  <2>1. CASE BuildFunctionalState
    BY <2>1, FunctionalStateInd
  <2>2. CASE Interpret
    BY <2>2, InterpretInd
  <2>3. CASE ProjectAndAudit
    BY <2>3, ProjectInd
  <2>4. CASE AuditForeign
    BY <2>4, ForeignInd
  <2>5. CASE DecideEvaluation
    BY <2>5, DecideInd
  <2>6. CASE UNCHANGED tVars
    <3>1. UNCHANGED <<tBrain, tQuestion, tStage, tState, tCandidates, tPreserved, tHFCC,
                      tForeign, tPass, tClaim, tVerdict>>
      BY <2>6 DEF tVars
    <3>2. AuditConsumer(tHFCC)' <=> AuditConsumer(tHFCC)
      BY <3>1 DEF AuditConsumer
    <3>3. Grounded(tClaim, tVerdict, tState.constraints)'
          <=> Grounded(tClaim, tVerdict, tState.constraints)
      BY <3>1 DEF Grounded, Leads
    <3>4. FormedOf(tCandidates, tPreserved)' <=> FormedOf(tCandidates, tPreserved)
      BY <3>1, SameGraph DEF FormedOf
    <3> QED
      BY <3>1, <3>2, <3>3, <3>4, SameGraph DEF ThinkInd, Interpreted, Audited
  <2> QED
    BY <2>1, <2>2, <2>3, <2>4, <2>5, <2>6 DEF TNext
<1> QED
  BY <1>1, <1>2, PTL DEF TSpec

(* Nothing preserved of the interpretations is missing from a projection   *)
(* the audit passes, whoever built it, and the adapter's own passes        *)
(* (AuditHFCCConsumerWithMappings, VerifyProjection).                      *)
THEOREM AuditsSound == TSpec => []PreservationSound
<1>1. ThinkInd => PreservationSound
  BY AuditSound DEF ThinkInd, Audited, PreservationSound
<1> QED
  BY <1>1, ThinkInvariance, PTL

(* A verdict says no more of the claim than memory does, whatever else the *)
(* question leads to (DecideEvaluation, judgePathAgainstProposition).      *)
THEOREM VerdictsFollowMemory == TSpec => []VerdictGrounded
<1>1. ThinkInd => VerdictGrounded
  BY DEF ThinkInd, Grounded, VerdictGrounded
<1> QED
  BY <1>1, ThinkInvariance, PTL
=============================================================================
