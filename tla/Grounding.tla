------------------------------ MODULE Grounding ------------------------------
(* How measurements and words find their populations: every reading recovers  *)
(* the population it once recruited, or recruits units of its own, next to at *)
(* most one unit it shares (knowledge/projection.go, stable_projection.go,    *)
(* sensory_projection.go, written_numeric.go, stable_representation.go,       *)
(* runtime/sensor_observation.go, sensor_fields.go, vector_grounding.go,      *)
(* knowledge_processing.go), and how time is learned between the fields of    *)
(* captures.  The encodings are the present ones: stable projection, and      *)
(* words routed by their numbers.  Knowledge import still projects the states *)
(* of its documents by the older law.                                         *)
(*                                                                            *)
(* A vector is one coordinate on a grid; two vectors within UNear of each     *)
(* other are as similar as GroundingThreshold asks.  The narrow spread of the *)
(* members a population is recruited with is below the grid, and which of the *)
(* closest units is the strongest is left open.  What a population predicts,  *)
(* which decides the direction members move in, is left open as well.         *)
EXTENDS Integers, Sequences, FiniteSets, SequencesExt

CONSTANTS
    UTop,        \* coordinates are 0..UTop
    UNear,       \* distance that GroundingThreshold allows
    USize,       \* units of a population
    UWord,       \* words, by the coordinate they are encoded as
    UNoise,      \* tolerances an adapter may declare
    UCapture,    \* captures: fields in the order of their windows; id names
                 \* the field and its group, kind the quantity
    UCamera,     \* sources of captures
    UDocument,   \* documents: [before, after, word]
    UFoundation, \* vectors of the experience a new brain starts with
    MaxUPops,    \* bound: populations
    MaxUMoves    \* bound: events that move representations

ASSUME UAssumption ==
    /\ {UTop, UNear, USize, MaxUPops, MaxUMoves} \subseteq Nat /\ USize > 1
    /\ UWord \cup UNoise \subseteq 0..UTop /\ UFoundation \in Seq(0..UTop)
    /\ UCapture \subseteq Seq([id : STRING, kind : STRING \ {"none", "written-neural-v2"},
                               duration : Nat, value : 0..UTop, window : Nat])
    /\ UDocument \subseteq [before : 0..UTop, after : 0..UTop, word : UWord]

VARIABLES
    uPops,   \* ProjectionPopulations, oldest first
    uRep,    \* the representation of every unit
    uTrace,  \* per source: the bindings of its latest capture
    uLinks,  \* pairs of populations: the second was learned to follow
    uHeard,  \* history: the reading each population was recruited for
    uMoves   \* bound: how often representations have moved
uVars == <<uPops, uRep, uTrace, uLinks, uHeard, uMoves>>

-----------------------------------------------------------------------------
(* Coordinate systems.  Durations of about the same length share one: they    *)
(* are rounded to the nearest power of two.                                   *)
Scope(kind, scale) == [kind |-> kind, scale |-> scale]
Unscoped == Scope("none", 0)
Written  == Scope("written-neural-v2", 0)
NoReading == [scope |-> Unscoped, value |-> -1]
Band(duration) ==
    IF duration = 0 THEN 0
    ELSE CHOOSE power \in {2 ^ e : e \in 0..duration} :
           \A other \in {2 ^ e : e \in 0..duration} :
             \/ power = other
             \/ (2 * duration >= power + other /\ power > other)
             \/ (2 * duration < power + other /\ power < other)
SensorFieldScope(field) == Scope(field.kind, Band(field.duration))

Away(x, y) == IF x < y THEN y - x ELSE x - y

(* A substrate is [pops, rep, heard].                                         *)
Substrate == [pops |-> uPops, rep |-> uRep, heard |-> uHeard]
InScope(s, scope) == {i \in DOMAIN s.pops : s.pops[i].scope = scope}
Members(s, is) == UNION {Range(s.pops[i].units) : i \in is}
ScopedUnits(s) == Members(s, {i \in DOMAIN s.pops : s.pops[i].scope # Unscoped})

(* Units that are similar enough, only the most similar.                      *)
Closest(s, among, value, near) ==
    {u \in among :
       /\ Away(s.rep[u], value) <= near
       /\ \A other \in among : Away(s.rep[u], value) <= Away(s.rep[other], value)}
MatchRepresentation(s, value, near) ==
    Closest(s, DOMAIN s.rep \ ScopedUnits(s), value, near)

(* An answer is [pop, s]: the population and the substrate afterwards.        *)
Existing(s, pop) == {[pop |-> pop, s |-> s]}
RegisterPopulation(s, scope, value, shared, size) ==
    LET fresh == [k \in 1..size - Len(shared) |-> Len(s.rep) + k] IN
    [pop |-> Len(s.pops) + 1,
     s   |-> [pops  |-> Append(s.pops, [scope |-> scope, bootstrap |-> FALSE, proto |-> value,
                                        units |-> shared \o fresh]),
              rep   |-> s.rep \o [k \in DOMAIN fresh |-> value],
              heard |-> Append(s.heard, [scope |-> scope, value |-> value])]]
Recruited(s, scope, value, candidates, size) ==
    IF Len(s.pops) = MaxUPops THEN {}
    ELSE {RegisterPopulation(s, scope, value, shared, size) :
            shared \in IF candidates = {} THEN {<<>>} ELSE {<<u>> : u \in candidates}}

FirstOf(is) == CHOOSE i \in is : \A other \in is : i <= other

(* Populations an anonymous measurement may recover: exactly as observed, or  *)
(* the only one its tolerance reaches.                                        *)
Basins(s) ==
    {i \in InScope(s, Unscoped) : ~s.pops[i].bootstrap /\ Len(s.pops[i].units) = USize}
StableMatch(s, value, noise) ==
    LET exact  == {i \in Basins(s) : s.pops[i].proto = value}
        inside == {i \in Basins(s) : Away(s.pops[i].proto, value) <= noise}
    IN  IF exact # {} THEN {FirstOf(exact)}
        ELSE IF Cardinality(inside) = 1 THEN inside ELSE {}
ProjectStable(s, value, noise) ==
    LET match == StableMatch(s, value, noise) IN
    IF match # {} THEN Existing(s, FirstOf(match))
    ELSE Recruited(s, Unscoped, value, MatchRepresentation(s, value, UNear), USize)

(* The older law: any unscoped population whose prototype, or for want of one *)
(* a member, is as observed.                                                  *)
ProjectHistorical(s, value) ==
    LET exact == {i \in InScope(s, Unscoped) :
                    IF s.pops[i].bootstrap THEN \E u \in Range(s.pops[i].units) : s.rep[u] = value
                    ELSE s.pops[i].proto = value}
    IN  IF exact # {} THEN Existing(s, FirstOf(exact))
        ELSE Recruited(s, Unscoped, value, MatchRepresentation(s, value, UNear), USize)
LearnVectors(s, values) ==
    FoldLeft(LAMBDA done, value :
               UNION {{answer.s : answer \in ProjectHistorical(each, value)} : each \in done},
             {s}, values)

(* A field recovers the nearest population of its coordinate system.          *)
FieldMatch(s, scope, value) ==
    LET away(i) == Away(s.pops[i].proto, value)
        near == {i \in InScope(s, scope) : away(i) <= UNear}
    IN  {i \in near : \A j \in near : away(i) < away(j) \/ (away(i) = away(j) /\ i <= j)}
ProjectSensoryField(s, scope, value) ==
    LET match == FieldMatch(s, scope, value) IN
    IF match # {} THEN Existing(s, FirstOf(match))
    ELSE Recruited(s, scope, value,
                   Closest(s, Members(s, InScope(s, scope)), value, UNear), USize)

(* A word recovers exactly its own; learning it asks for a single unit.       *)
WrittenMatch(s, word) == {i \in InScope(s, Written) : s.pops[i].proto = word}
ProjectWrittenNumeric(s, word, near, size) ==
    IF WrittenMatch(s, word) # {} THEN Existing(s, FirstOf(WrittenMatch(s, word)))
    ELSE Recruited(s, Written, word, MatchRepresentation(s, word, near), size)

(* A checkpoint is loaded only if its words are routed unambiguously.         *)
ValidateWrittenNumericState(s) ==
    /\ \A i, j \in InScope(s, Written) : s.pops[i].proto = s.pops[j].proto => i = j
    /\ \A i \in InScope(s, Written) :
         /\ s.pops[i].units # <<>> /\ Range(s.pops[i].units) \subseteq DOMAIN s.rep
         /\ IsInjective(s.pops[i].units)

(* The discrepancy between what was observed and what was predicted moves     *)
(* members that were observed, by as much as each is plastic; it leaves what  *)
(* populations were observed as.                                              *)
Discrepancy(s, actual, predicted) ==
    {d \in {-1, 1} : \E a \in actual, p \in predicted : d * (s.rep[a] - s.rep[p]) > 0}
Clamped(x) == IF x < 0 THEN 0 ELSE IF x > UTop THEN UTop ELSE x
(* Mutant: the older law, which moves the prototypes of the populations that  *)
(* took part as well.                                                         *)
HistoricalPlasticity(s, moved, d) ==
    [s EXCEPT !.rep = [u \in DOMAIN @ |-> IF u \in moved THEN Clamped(@[u] + d) ELSE @[u]],
              !.pops = [i \in DOMAIN @ |->
                 IF ~@[i].bootstrap /\ Range(@[i].units) \cap moved # {}
                 THEN [@[i] EXCEPT !.proto = Clamped(@ + d)] ELSE @[i]]]
Plasticity(s, moved, d) ==
    [s EXCEPT !.rep = [u \in DOMAIN @ |-> IF u \in moved THEN Clamped(@[u] + d) ELSE @[u]]]
Reorganised(s, actual) ==
    UNION {UNION {{Plasticity(s, moved, d) : moved \in (SUBSET actual) \ {{}}}
                    : d \in Discrepancy(s, actual, Members(s, {i}))} : i \in DOMAIN s.pops}

-----------------------------------------------------------------------------
Becomes(s) == uPops' = s.pops /\ uRep' = s.rep /\ uHeard' = s.heard

(* A new brain has a population of the bootstrap, without a prototype, and    *)
(* learns the foundation before anything else.                                *)
Bootstrapped ==
    LearnVectors([pops  |-> <<[scope |-> Unscoped, bootstrap |-> TRUE, proto |-> -1,
                               units |-> <<1>>]>>,
                  rep   |-> <<0>>,
                  heard |-> <<NoReading>>], UFoundation)
UInit ==
    /\ \E s \in Bootstrapped : uPops = s.pops /\ uRep = s.rep /\ uHeard = s.heard
    /\ uTrace = [source \in UCamera |-> <<>>] /\ uLinks = {} /\ uMoves = 0

(* Cognition after an input: the members it activated may be reorganised.     *)
Cognise(s, actual) ==
    \/ Becomes(s) /\ UNCHANGED uMoves
    \/ /\ uMoves < MaxUMoves /\ uMoves' = uMoves + 1
       /\ \E moved \in Reorganised(s, actual) : Becomes(moved)

(* A numeric adapter grounds a vector: nothing but the projection.            *)
GroundVectorAt(value) ==
    /\ \E answer \in ProjectStable(Substrate, value, 0) : Becomes(answer.s)
    /\ UNCHANGED <<uTrace, uLinks, uMoves>>

(* A flat measurement, with a tolerance its adapter declares.                 *)
SenseReading(value, noise) ==
    /\ \E answer \in ProjectStable(Substrate, value, noise) :
         Cognise(answer.s, Members(answer.s, {answer.pop}))
    /\ UNCHANGED <<uTrace, uLinks>>

(* Fields are projected in turn; each learns to follow its own predecessor in *)
(* the trace, unless its window began earlier, and the window before it.      *)
ProjectSensorFields(capture) ==
    FoldLeft(LAMBDA done, field :
               UNION {{[s |-> answer.s, pops |-> Append(each.pops, answer.pop)] :
                         answer \in ProjectSensoryField(each.s, SensorFieldScope(field), field.value)}
                        : each \in done},
             {[s |-> Substrate, pops |-> <<>>]}, capture)
SameField(old, field) ==
    old.id = field.id /\ old.kind = field.kind /\ SensorFieldScope(old) = SensorFieldScope(field)
Follows(source, capture, pops) ==
    {[link |-> <<uTrace[source][jk[1]].pop, pops[jk[2]]>>,
      sure |-> uTrace[source][jk[1]].field.window <= capture[jk[2]].window] :
       jk \in {jk \in (DOMAIN uTrace[source]) \X DOMAIN capture :
                 SameField(uTrace[source][jk[1]].field, capture[jk[2]])}}
WindowsOf(capture, pops) ==
    {<<pops[jk[1]], pops[jk[2]]>> :
       jk \in {jk \in (DOMAIN capture) \X DOMAIN capture :
          /\ jk[1] < jk[2] /\ capture[jk[1]].window < capture[jk[2]].window
          /\ SensorFieldScope(capture[jk[1]]) = SensorFieldScope(capture[jk[2]])
          /\ \A m \in jk[1] + 1 .. jk[2] - 1 :
               SensorFieldScope(capture[m]) # SensorFieldScope(capture[jk[2]])}}
LearnSensorFields(source, capture, pops) ==
    \E late \in SUBSET {f \in Follows(source, capture, pops) : ~f.sure} :
      /\ uLinks' = uLinks \cup WindowsOf(capture, pops)
                      \cup {f.link : f \in {g \in Follows(source, capture, pops) : g.sure} \cup late}
      /\ uTrace' = [uTrace EXCEPT ![source] = [k \in DOMAIN capture |->
                                                 [field |-> capture[k], pop |-> pops[k]]]]
SenseFields(source, capture) ==
    \E done \in ProjectSensorFields(capture) :
      /\ Cognise(done.s, Members(done.s, Range(done.pops)))
      /\ LearnSensorFields(source, capture, done.pops)

(* A word that is read, and one that is learned in a sequence of words; a     *)
(* unit it might share with counts then only if it is exactly alike.          *)
GroundObservation(word) ==
    /\ \E answer \in ProjectWrittenNumeric(Substrate, word, UNear, USize) :
         Cognise(answer.s, Members(answer.s, {answer.pop}))
    /\ UNCHANGED <<uTrace, uLinks>>
StoreSurface(word) ==
    /\ \E near \in {-1, 0} :
         \E answer \in ProjectWrittenNumeric(Substrate, word, near, 1) : Becomes(answer.s)
    /\ UNCHANGED <<uTrace, uLinks, uMoves>>

(* A document: its states by the older law, then its words like any others.   *)
ProcessKnowledgeDocument(document) ==
    /\ \E s \in LearnVectors(Substrate, <<document.before, document.after>>) :
         \E answer \in ProjectWrittenNumeric(s, document.word, UNear, USize) :
           Cognise(answer.s, Members(answer.s, {answer.pop}))
    /\ UNCHANGED <<uTrace, uLinks>>

UNext ==
    \/ \E value \in 0..UTop :
         GroundVectorAt(value) \/ \E noise \in UNoise : SenseReading(value, noise)
    \/ \E source \in UCamera, capture \in UCapture : SenseFields(source, capture)
    \/ \E word \in UWord : GroundObservation(word) \/ StoreSurface(word)
    \/ \E document \in UDocument : ProcessKnowledgeDocument(document)

USpec == UInit /\ [][UNext]_uVars
-----------------------------------------------------------------------------
OwnRoute ==
    \A i \in DOMAIN uHeard :
      LET scope == uHeard[i].scope
          value == uHeard[i].value
      IN  uHeard[i] # NoReading =>
            CASE scope = Unscoped -> \A noise \in UNoise \cup {0} :
                                       StableMatch(Substrate, value, noise) = {i}
              [] scope = Written  -> WrittenMatch(Substrate, value) = {i}
              [] OTHER            -> FieldMatch(Substrate, scope, value) = {i}

FieldsApart ==
    /\ \A i, j \in DOMAIN uPops :
         /\ uPops[i].scope \notin {Unscoped, Written} /\ uPops[j].scope # uPops[i].scope
         => Range(uPops[i].units) \cap Range(uPops[j].units) = {}
    /\ \A link \in uLinks : uPops[link[1]].scope = uPops[link[2]].scope

(* A measurement or word that recruited a population recovers that population *)
(* ever after, whatever else is observed, learned or imported and however its *)
(* members move; exact evidence wins over every tolerance.  Units of a sensory *)
(* field serve its coordinate system alone, and time is learned between       *)
(* fields of one coordinate system.  What is saved can be loaded              *)
(* (findStableProjectionPopulation, projectWrittenNumeric,                    *)
(* ProjectSensoryFieldAt, learnSensorFieldsLocked).                           *)
RoutesKept == OwnRoute /\ FieldsApart /\ ValidateWrittenNumericState(Substrate)
=============================================================================
