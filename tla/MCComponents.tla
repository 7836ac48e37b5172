----------------------------- MODULE MCComponents -----------------------------
(* Instances for TLC of components that keep to themselves under the journal *)
(* and the supervisor lock: the startup files, the numerical lessons, the    *)
(* neural composition, the neural substrate, the cognitive model, actions    *)
(* with their outcomes, a question to the thinking engine, the journal's file, *)
(* the pages of the monitor's inspector, inquiries and the populations that  *)
(* measurements and words find.  A behaviour is one of a single component,   *)
(* named by topic; the others stay in one initial state.                     *)
EXTENDS ProductionStartup, NumericResolution, Composition, Cognition,
        CognitiveModel, ActionLoop, Thinking, JournalFile, Inspection, Inquiry,
        Grounding, TLC

CONSTANTS queryF, queryA, queryB, formA, formB,
          reqA, reqB, fromA, fromB, unitA, unitB, linkA, linkB

VARIABLE topic

MCEvent == {"event"}

(* Numerical lessons: a coarse binary foundation, a linear reading and a     *)
(* binary contrast that fit its resolution, and a fine distinction that      *)
(* needs a finer one, in both directions.                                    *)
Coarse     == {<<-128, -128>>, <<128, 128>>}
Linear     == {<<-58, -32>>, <<6, 0>>, <<38, 16>>}
Contrast   == {<<6, 128>>, <<128, -128>>}
Fine       == {<<40, -16>>, <<48, 16>>}
FineTurned == {<<40, 16>>, <<48, -16>>}
Curriculum == (queryF :> {Coarse}) @@ (queryA :> {Linear, Contrast}) @@
              (queryB :> {Fine, FineTurned})

(* Two written forms that may share a unit from before the migration.        *)
Heritage ==
    [x \in CWord |-> [language |-> IF x = formA THEN {1, 2} ELSE {},
                      text     |-> IF x = formB THEN {2, 3} ELSE {}]]

(* Two units, one connected to the other.  Observations of either, without  *)
(* an episode and in one, with and without a reset, and an event without     *)
(* populations; propagation predicts one unit; one inquiry turns out well    *)
(* and one badly.                                                            *)
Happening(ep, reset, stimulus, context) ==
    [episode |-> ep, reset |-> reset, stimulus |-> stimulus, context |-> context]
Happenings == {Happening("", FALSE, <<{1}>>, <<>>), Happening("", FALSE, <<>>, <<>>),
               Happening("s", FALSE, <<{1}, {2}>>, <<>>), Happening("s", FALSE, <<{2}>>, <<>>),
               Happening("s", TRUE, <<{1, 2}>>, <<{1}>>)}
KnownAtFirst == {<<1, 2>>}
Taughtable == {<<{2}, {1}, {2}, {1}>>}
Predicted  == {{1}}
Inquired   == {[targets |-> {2}, promoted |-> {<<1, 2>>}, eligible |-> Link, good |-> TRUE],
               [targets |-> {1}, promoted |-> {}, eligible |-> {<<1, 2>>}, good |-> FALSE]}

(* An agent (1), its part (2), an ability (3) and a word that contrasts with *)
(* the part (4): the ability is derived through the part, denied, both       *)
(* stored and denied, derived through a part the question excludes, or       *)
(* derived in two ways.  The conversation may have named the part.           *)
States(kind) == <<[kind |-> kind, inh |-> FALSE]>>
Denies(kind) == <<[kind |-> kind, inh |-> TRUE]>>
Knowing(able, has, does, contrasts) ==
    [p \in TNode \X TNode |->
        CASE p = <<1, 3>> -> able [] p = <<1, 2>> -> has [] p = <<2, 3>> -> does
          [] p = <<4, 2>> -> contrasts [] OTHER -> <<>>]
Known ==
    {Knowing(<<>>, States("has"), States("function"), <<>>),
     Knowing(<<>>, States("has"), States("function"), States("contrast")),
     Knowing(Denies("can_do"), States("has"), States("function"), <<>>),
     Knowing(Denies("can_do"), States("has"), <<>>, <<>>),
     Knowing(States("association") \o Denies("can_do") \o States("can_do"), <<>>, <<>>, <<>>),
     [Knowing(<<>>, States("has"), States("function"), <<>>)
        EXCEPT ![<<1, 4>>] = States("has"), ![<<4, 3>>] = States("function")]}
Put(words, context) == [words |-> words, context |-> context]
Questions == {Put(<<1, 3>>, {}), Put(<<1, 3>>, {2}), Put(<<4, 1, 2, 3>>, {})}

(* Journals of an earlier release: none, one with a record written twice,    *)
(* one of two runtimes that counted on their own, and one with a gap.        *)
Earlier(seq, of) ==
    [seq |-> seq, kind |-> "process", of |-> of, enc |-> FALSE, schema |-> 1, end |-> "line"]
FoundJournals ==
    {<<>>, <<Earlier(1, 11), Earlier(2, 12), Earlier(2, 12)>>,
     <<Earlier(1, 11), Earlier(1, 12), Earlier(1, 11), Earlier(2, 13)>>,
     <<Earlier(1, 11), Earlier(1, 12), Earlier(3, 13)>>}

(* Three units, two connected twice, of sizes that fill a page by one or two *)
(* records; and two units of which one is too large for any page.            *)
Unit(score, size) == [score |-> score, size |-> size]
Twice(ordinal) == [source |-> 1, target |-> 2, ordinal |-> ordinal]
Graphs ==
    {[units |-> <<Unit(0, 1), Unit(1, 2), Unit(1, 1)>>, edges |-> {Twice(1), Twice(2)}],
     [units |-> <<Unit(1, 1), Unit(0, 4)>>, edges |-> {Twice(1)}]}

(* Two populations; the second has followed the first twice, once as an      *)
(* experience, or nothing is known.  One action is bound and brings news.    *)
Past(traces, taught) == [traces |-> traces, taught |-> taught]
Pasts == {Past(<<>>, {}), Past(<<<<1, 2>>>>, {<<1, 2>>})}
Heard(pop, words, reset) == [pop |-> pop, words |-> words, reset |-> reset]
Heards == {Heard(1, FALSE, FALSE), Heard(2, FALSE, FALSE), Heard(0, FALSE, FALSE),
           Heard(0, TRUE, FALSE), Heard(1, FALSE, TRUE)}
Lessons == {<<1, 2>>}
Reports == {[action |-> "focus", valence |-> 1000, gain |-> 1000, reliability |-> 1000,
             lesson |-> <<1, 2>>]}

(* Captures of one or two fields: durations that share a band, a reading     *)
(* between two others, two windows of one capture, and another scale.        *)
Light(id, duration, value, window) ==
    [id |-> id, kind |-> "light", duration |-> duration, value |-> value, window |-> window]
Captures == {<<Light("left", 3, 0, 0)>>,
             <<Light("left", 5, 2, 0), Light("right", 0, 0, 0)>>,
             <<Light("left", 4, 1, 0), Light("right", 4, 2, 1)>>}
Documents == {[before |-> 1, after |-> 2, word |-> 1]}
FirstVectors == <<2>>

(* The gateway reads no evidence, and evidence nothing of the gateway: they  *)
(* share revision, bindings and the life of the process.  One topic has      *)
(* requests and the gateway, one requests, forecasts and reports.            *)
GatewayOnly == forecast = {} /\ ledger = {} /\ \A id \in Id : binding[id].syn \notin Synapse
ReportsOnly == ~registered /\ admitted = {}

(* Requests, reporters and groups are compared and never told apart, and     *)
(* bindings and reports are kept: the first to be bound may as well be reqA, *)
(* the first to be reported fromA and unitA.                                 *)
NamedInOrder ==
    /\ Bound(reqB) => Bound(reqA)
    /\ ledger # {} => \E r \in ledger : r.source = fromA
    /\ \A r \in ledger : r.group \in Group => \E q \in ledger : q.group = unitA

-----------------------------------------------------------------------------
AllInit ==
    /\ topic \in {"startup", "numeric", "composition", "cognition", "model", "gateway", "reports",
                 "thinking", "file", "pages", "inquiry", "grounding"}
    /\ Init /\ NInit /\ CInit /\ GInit /\ MInit /\ AInit /\ TInit /\ FInit /\ IInit /\ QInit /\ UInit
    /\ topic # "startup" => memory = Absent
    /\ topic # "numeric" => nContract = "v6"
    /\ topic # "thinking" => tQuestion = Put(<<1, 3>>, {}) /\ tBrain = Knowing(<<>>, States("has"), States("function"), <<>>)
    /\ topic # "file" => fContent[1] = <<>>
    /\ topic # "pages" => Cardinality(DOMAIN iBrain.units) = 3 /\ iSection = "synapses"
    /\ topic # "inquiry" => qTraces = <<>>
AllNext ==
    /\ UNCHANGED topic
    /\ \/ topic = "startup" /\ Next /\ UNCHANGED <<nVars, cVars, gVars, mVars, aVars, tVars, fVars, iVars, qVars, uVars>>
       \/ topic = "numeric" /\ NNext /\ UNCHANGED <<vars, cVars, gVars, mVars, aVars, tVars, fVars, iVars, qVars, uVars>>
       \/ topic = "composition" /\ CNext /\ UNCHANGED <<vars, nVars, gVars, mVars, aVars, tVars, fVars, iVars, qVars, uVars>>
       \/ topic = "cognition" /\ GNext /\ UNCHANGED <<vars, nVars, cVars, mVars, aVars, tVars, fVars, iVars, qVars, uVars>>
       \/ topic = "model" /\ MNext /\ UNCHANGED <<vars, nVars, cVars, gVars, aVars, tVars, fVars, iVars, qVars, uVars>>
       \/ /\ ANext /\ NamedInOrder'
          /\ \/ topic = "gateway" /\ GatewayOnly'
             \/ topic = "reports" /\ ReportsOnly'
          /\ UNCHANGED <<vars, nVars, cVars, gVars, mVars, tVars, fVars, iVars, qVars, uVars>>
       \/ topic = "thinking" /\ TNext /\ UNCHANGED <<vars, nVars, cVars, gVars, mVars, aVars, fVars, iVars, qVars, uVars>>
       \/ topic = "file" /\ FNext /\ UNCHANGED <<vars, nVars, cVars, gVars, mVars, aVars, tVars, iVars, qVars, uVars>>
       \/ topic = "pages" /\ INext /\ UNCHANGED <<vars, nVars, cVars, gVars, mVars, aVars, tVars, fVars, qVars, uVars>>
       \/ topic = "inquiry" /\ QNext /\ UNCHANGED <<vars, nVars, cVars, gVars, mVars, aVars, tVars, fVars, iVars, uVars>>
       \/ topic = "grounding" /\ UNext /\ UNCHANGED <<vars, nVars, cVars, gVars, mVars, aVars, tVars, fVars, iVars, qVars>>
AllSpec ==
    AllInit /\ [][AllNext]_<<vars, nVars, cVars, gVars, mVars, aVars, tVars, fVars, iVars, qVars, uVars, topic>>
=============================================================================
