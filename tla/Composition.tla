------------------------------- MODULE Composition -------------------------------
(***************************************************************************)
(* The life of the neural composition in one brain                         *)
(* (runtime/neural_composition.go, written_grounding_migration.go,         *)
(* surface_rebinding.go, neural_resolution_perception.go and the           *)
(* knowledge/neural_composition*.go they call): the two migrations with    *)
(* their rollback copies, lessons, text, scenes and readings.              *)
(*                                                                         *)
(* Abstractions.  A state of the brain is named by its revision, since     *)
(* every change of it is a command that advances the revision; duplicate   *)
(* event IDs are refused as in JournaledRuntime.  A written                *)
(* form is routed to a set of units; which units a lesson has connected is *)
(* kept, their weights are not, so what trained units answer is left open. *)
(* Lessons of the contracts v5 and v6 are in NumericResolution.            *)
(***************************************************************************)
EXTENDS Integers, Sequences, FiniteSets

CONSTANTS
    CWord,        \* written forms
    CHeritage,    \* for each form the units annotated under "language" and "text"
    CPath,        \* rollback destinations
    CContract,    \* "words" (v1, v2) or "sequence" (v4)
    MaxCLearned,  \* MaxLearnedWords
    MaxCWords,    \* MaxCompositionWords
    MaxCAge,      \* MaxSceneAgeNS
    MaxCTime,     \* bound: the clock
    MaxCRev       \* bound: revisions

ASSUME CAssumption == MaxCLearned \in Nat \ {0} /\ MaxCWords \in Nat \ {0} /\ IsFiniteSet(CWord)

VARIABLES
    cNow,      \* the clock
    cRev,      \* r.seq
    cRoute,    \* written form -> units
    cNeural,   \* r.neuralWrittenGrounding
    cVersion,  \* the contract of r.composition, "none" before the migration
    cTrained,  \* units connected to the composition bank by lessons
    cMotor,    \* the controller's weight is large enough to be used
    cLive,     \* r.composition: the current words, sequence and scene
    cPlans,    \* plans handed out and not used
    cDisk,     \* rollback files
    cReceipts, \* history: migrations committed, with the digests they carry
    cTaught,   \* history: written forms taught
    cStuck     \* a committed command cannot be applied

cVars == <<cNow, cRev, cRoute, cNeural, cVersion, cTrained, cMotor, cLive,
           cPlans, cDisk, cReceipts, cTaught, cStuck>>

File    == CPath \X {"brain", "journal"}
NoFile == -2            \* no file
Reserved == -1            \* reserved, nothing written
NoLive  == [words |-> <<>>, unsupported |-> FALSE, seqAt |-> 0, sceneAt |-> 0]

Elements(s) == {s[i] : i \in DOMAIN s}

CInit ==
    /\ cNow = 1 /\ cRev = 0
    /\ cRoute = [w \in CWord |-> CHeritage[w].language]
    /\ cNeural = FALSE /\ cVersion = "none"
    /\ cTrained = {} /\ cMotor = FALSE /\ cLive = NoLive
    /\ cPlans = {} /\ cDisk = [f \in File |-> NoFile]
    /\ cReceipts = {} /\ cTaught = {} /\ cStuck = FALSE

(* ensureWritableLocked *)
Writable == ~cStuck /\ cRev < MaxCRev
Composed == cVersion # "none"

CTick ==
    /\ cNow < MaxCTime /\ cNow' = cNow + 1
    /\ UNCHANGED <<cRev, cRoute, cNeural, cVersion, cTrained, cMotor, cLive,
                   cPlans, cDisk, cReceipts, cTaught, cStuck>>

-----------------------------------------------------------------------------
(* Migrations.                                                             *)

(* A plan is bound to the revision and content it was made from.           *)
Plan(kind, contract) ==
    /\ Writable
    /\ cPlans' = cPlans \cup {[kind |-> kind, contract |-> contract, ref |-> cRev]}
    /\ UNCHANGED <<cNow, cRev, cRoute, cNeural, cVersion, cTrained, cMotor,
                   cLive, cDisk, cReceipts, cTaught, cStuck>>

PlanNeuralWrittenGrounding == ~cNeural /\ Plan("written", "none")
PlanNeuralComposition(contract) ==
    cNeural /\ ~Composed /\ Plan("composition", contract)

Applicable(plan) ==
    /\ plan.ref = cRev
    /\ IF plan.kind = "written" THEN ~cNeural ELSE cNeural /\ ~Composed

(* How far an application gets: "brain" and "journal" are the exclusive    *)
(* creations of the rollback files, the other names what fails or where    *)
(* the process dies.                                                       *)
Stop == {"reserve", "checkpoint", "copy", "sync", "append", "crash", "none"}

(* Mutant: the rollback files are opened without O_EXCL. *)
ReservableAlways(f) == TRUE

(* OpenFile with O_CREATE|O_EXCL. *)
Reservable(f) == cDisk[f] = NoFile

(* The rollback files after an application that stops early.  The written  *)
(* migration takes its reservations back when the checkpoint fails and     *)
(* only the journal's when the copy fails; the composition leaves them.    *)
LeftBehind(plan, path, stop) ==
    LET brain == <<path, "brain">>  log == <<path, "journal">>
        tidy  == plan.kind = "written"
        put(b, l) == [cDisk EXCEPT ![brain] = b, ![log] = l]
        free  == Reservable(brain) /\ Reservable(log)
    IN CASE stop = "reserve" /\ ~Reservable(brain) -> {cDisk}
         [] stop = "reserve" /\ Reservable(brain) /\ ~Reservable(log) ->
              {IF tidy THEN [cDisk EXCEPT ![brain] = NoFile] ELSE [cDisk EXCEPT ![brain] = Reserved]}
         [] stop = "checkpoint" /\ free -> {IF tidy THEN put(NoFile, NoFile) ELSE put(Reserved, Reserved)}
         [] stop = "copy" /\ free -> {put(cRev, IF tidy THEN NoFile ELSE Reserved)}
         [] stop \in {"sync", "append"} /\ free -> {put(cRev, cRev)}
         [] stop = "crash" /\ free ->
              {put(Reserved, NoFile), put(Reserved, Reserved), put(cRev, Reserved), put(cRev, cRev)}
         [] OTHER -> {}

(* An application that does not commit.  A failed append leaves its        *)
(* outcome to recovery (JournaledRuntime); here it did not reach the disk. *)
ApplyFails(plan, path, stop) ==
    /\ Writable /\ plan \in cPlans /\ Applicable(plan) /\ stop # "none"
    /\ cDisk' \in LeftBehind(plan, path, stop)
    /\ UNCHANGED <<cNow, cRev, cRoute, cNeural, cVersion, cTrained, cMotor, cLive,
                   cPlans, cReceipts, cTaught, cStuck>>

(* The rollback pair is complete before the receipt is appended; then the  *)
(* numeric routes are registered or the coordinate bank is created.        *)
Migrate(plan, path) ==
    /\ Writable /\ plan \in cPlans /\ Applicable(plan)
    /\ Reservable(<<path, "brain">>) /\ Reservable(<<path, "journal">>)
    /\ cDisk' = [cDisk EXCEPT ![<<path, "brain">>] = cRev, ![<<path, "journal">>] = cRev]
    /\ cReceipts' = cReceipts \cup {[path |-> path, ref |-> cRev]}
    /\ cRev' = cRev + 1 /\ cPlans' = cPlans \ {plan}
    /\ UNCHANGED <<cNow, cRoute, cTrained, cMotor, cTaught, cStuck>>

ApplyNeuralWrittenGrounding(plan, path) ==
    /\ plan.kind = "written" /\ Migrate(plan, path)
    /\ cNeural' = TRUE /\ UNCHANGED <<cVersion, cLive>>

ApplyNeuralComposition(plan, path) ==
    /\ plan.kind = "composition" /\ Migrate(plan, path)
    /\ cVersion' = plan.contract /\ cLive' = NoLive /\ UNCHANGED cNeural

(* A reviewed binding of a form to the units of its "text" annotation,     *)
(* refused once the routes are numeric.                                    *)
ApplyWrittenSurfaceRebinding(w) ==
    /\ Writable /\ ~cNeural /\ CHeritage[w].text # {}
    /\ cRoute' = [cRoute EXCEPT ![w] = CHeritage[w].text]
    /\ cRev' = cRev + 1
    /\ UNCHANGED <<cNow, cNeural, cVersion, cTrained, cMotor, cLive, cPlans,
                   cDisk, cReceipts, cTaught, cStuck>>

-----------------------------------------------------------------------------
(* Lessons, text and scenes.                                               *)

(* A form without a route recruits units of its own. *)
Grounded(words) ==
    [w \in CWord |-> IF w \in words /\ cRoute[w] = {} THEN {w} ELSE cRoute[w]]

(* A route with a connected unit counts as trained. *)
Learned(w) == cRoute[w] \cap cTrained # {}

(* Mutant: forms that are not yet trained are not counted. *)
WithinBudgetIgnoringNew(words) == Cardinality({w \in CWord : Learned(w)}) <= MaxCLearned

(* ValidateCompositionExposure counts the trained forms and the new ones. *)
WithinBudget(words) == Cardinality({w \in CWord : Learned(w)} \cup words) <= MaxCLearned

(* validateCompositionMode *)
ModeValid(words, sequence) ==
    IF cVersion = "words" THEN ~sequence
    ELSE (words = <<>> /\ ~sequence) \/ (Len(words) = 1 /\ sequence)

(* A demonstration's outcome is measured, and not before the scene it      *)
(* starts from (CompositionExposure.Validate).                             *)
Measured(before, after) == before <= after /\ after <= cNow

(* What a lesson does to the brain: without words it trains the controller *)
(* on a demonstration that moved something, with words it grounds them and *)
(* connects their units to the bank.                                       *)
Practise(words, force) ==
    IF words = <<>>
    THEN /\ cMotor' \in IF force THEN BOOLEAN ELSE {cMotor}
         /\ UNCHANGED <<cRoute, cTrained>>
    ELSE /\ cRoute' = Grounded(Elements(words))
         /\ cTrained' = cTrained \cup UNION {cRoute'[w] : w \in Elements(words)}
         /\ UNCHANGED cMotor

(* The lesson's sequence and its last scene become the current ones unless *)
(* they are older than those.                                              *)
LearnComposition(words, sequence, before, after, force) ==
    /\ Writable /\ Composed
    /\ Measured(before, after)
    /\ Len(words) <= MaxCWords /\ ModeValid(words, sequence)
    /\ WithinBudget(Elements(words))
    /\ Practise(words, force)
    /\ LET seen == IF sequence /\ (cLive.seqAt = 0 \/ before >= cLive.seqAt)
                   THEN [words |-> words, unsupported |-> FALSE, seqAt |-> before,
                         sceneAt |-> cLive.sceneAt]
                   ELSE cLive
       IN cLive' = [seen EXCEPT !.sceneAt = IF @ = 0 \/ after >= @ THEN after ELSE @]
    /\ cTaught' = cTaught \cup Elements(words)
    /\ cRev' = cRev + 1
    /\ UNCHANGED <<cNow, cNeural, cVersion, cPlans, cDisk, cReceipts, cStuck>>

(* A perceived query, sequence and scene; nothing is grounded or learned. *)
ObserveCompositionInput(w, at) ==
    /\ Writable /\ cVersion = "sequence"
    /\ at <= cNow /\ at >= cLive.seqAt
    /\ cLive' = [words |-> <<w>>, unsupported |-> FALSE, seqAt |-> at, sceneAt |-> at]
    /\ cRev' = cRev + 1
    /\ UNCHANGED <<cNow, cRoute, cNeural, cVersion, cTrained, cMotor, cPlans, cDisk,
                   cReceipts, cTaught, cStuck>>

(* A simulator scene; an older one is refused. *)
ObserveCompositionScene(at) ==
    /\ Writable /\ Composed
    /\ at <= cNow /\ at >= cLive.sceneAt
    /\ cLive' = [cLive EXCEPT !.sceneAt = at]
    /\ cRev' = cRev + 1
    /\ UNCHANGED <<cNow, cRoute, cNeural, cVersion, cTrained, cMotor, cPlans, cDisk,
                   cReceipts, cTaught, cStuck>>

(* The words of an ordinary text become the composition's words.           *)
Worded(words) ==
    IF ~Composed THEN cLive
    ELSE [cLive EXCEPT !.unsupported = Len(words) > MaxCWords,
                       !.words = IF Len(words) > MaxCWords THEN <<>> ELSE words]

(* compositionContextLocked: the reading taken for every processed event   *)
(* returns an error when the words do not fit the contract.                *)
ContextFails(live) ==
    /\ Composed /\ ~live.unsupported /\ live.sceneAt # 0
    /\ ~ModeValid(live.words, live.seqAt # 0)

(* Text is journaled, then its words replace the composition's, its forms  *)
(* are grounded and the event is processed with the composition's reading. *)
ObserveText(words) ==
    /\ Writable /\ words # <<>>
    /\ cRev' = cRev + 1
    /\ cLive' = Worded(words)
    /\ cRoute' = Grounded(Elements(words))
    /\ cStuck' = ContextFails(cLive')
    /\ UNCHANGED <<cNow, cNeural, cVersion, cTrained, cMotor, cPlans, cDisk,
                   cReceipts, cTaught>>

-----------------------------------------------------------------------------
(* The states a reading of the current words and scene may report.         *)
ReadComposition ==
    IF ~Composed THEN {"disabled"}
    ELSE IF cLive.unsupported THEN {"position-window-exceeded"}
    ELSE IF cLive.sceneAt = 0 THEN {"missing-scene"}
    ELSE IF ContextFails(cLive) THEN {"error"}
    ELSE IF cNow < cLive.sceneAt \/ cNow - cLive.sceneAt > MaxCAge THEN {"stale-scene"}
    ELSE IF cLive.words = <<>> THEN {"missing-written-input"}
    ELSE IF \E w \in Elements(cLive.words) : ~Learned(w) THEN {"unknown-written-form"}
    ELSE {"no-op", "missing-pointing", "ambiguous"}
         \cup (IF cMotor THEN {"proposal"} ELSE {"untrained-controller"})

(* A request to act passes validateCompositionActionLocked only on a       *)
(* proposal; the action itself is in ActionLoop.                           *)
BindCompositionAction ==
    /\ Writable /\ "proposal" \in ReadComposition
    /\ cRev' = cRev + 1
    /\ UNCHANGED <<cNow, cRoute, cNeural, cVersion, cTrained, cMotor, cLive, cPlans,
                   cDisk, cReceipts, cTaught, cStuck>>

Phrase == {<<>>} \cup {<<w>> : w \in CWord} \cup {<<v, w>> : v, w \in CWord}
Text   == Phrase \cup {<<v, w, v>> : v, w \in CWord}

CNext ==
    \/ CTick
    \/ PlanNeuralWrittenGrounding
    \/ \E c \in CContract : PlanNeuralComposition(c)
    \/ \E plan \in cPlans, path \in CPath :
         \/ \E stop \in Stop : ApplyFails(plan, path, stop)
         \/ ApplyNeuralWrittenGrounding(plan, path)
         \/ ApplyNeuralComposition(plan, path)
    \/ \E w \in CWord : ApplyWrittenSurfaceRebinding(w)
    \/ \E words \in Phrase, s, f \in BOOLEAN, b, a \in 1 .. MaxCTime :
         LearnComposition(words, s, b, a, f)
    \/ \E w \in CWord, at \in 1 .. MaxCTime : ObserveCompositionInput(w, at)
    \/ \E at \in 1 .. MaxCTime : ObserveCompositionScene(at)
    \/ \E words \in Text : ObserveText(words)
    \/ BindCompositionAction

CSpec == CInit /\ [][CNext]_cVars

-----------------------------------------------------------------------------
(* The rollback pair that a committed migration names stays on disk with   *)
(* the content whose digests the receipt carries, whatever later attempts  *)
(* fail and wherever they are retried (ApplyNeuralWrittenGrounding,        *)
(* ApplyNeuralComposition).                                                *)
RollbackKept ==
    \A r \in cReceipts :
        cDisk[<<r.path, "brain">>] = r.ref /\ cDisk[<<r.path, "journal">>] = r.ref

(* However lessons repeat and share words, and whichever units their forms *)
(* share, no more forms are taught than the configuration allows           *)
(* (ValidateCompositionExposure).                                          *)
TaughtWithinBudget == Cardinality(cTaught) <= MaxCLearned

(* A command that was journaled can be applied, now and by every recovery. *)
CommittedTextApplies == ~cStuck
=============================================================================
