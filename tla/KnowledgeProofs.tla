--------------------------- MODULE KnowledgeProofs ---------------------------
(***************************************************************************)
(* What the learning of the brain keeps, however many batches, words,      *)
(* migrations, lessons and observations there are: evidence that counts    *)
(* once, a substrate that stays frozen, rollback files that stay whole, a  *)
(* vocabulary within its budget, distinctions that no lesson flips and     *)
(* readouts that a restore accepts, measurements and words that recover    *)
(* the population they recruited.                                          *)
(***************************************************************************)
EXTENDS CognitiveModel, Composition, NumericResolution, Grounding, FoldTheorems,
        FiniteSetTheorems, SequenceTheorems, TLAPS

-----------------------------------------------------------------------------
(* The cognitive model: its inductive invariant.                           *)

ModelTypes ==
    /\ mModel \in [version : {"none", "v1", "v2"}, head : {"none", "categorical", "pairwise"},
                   gru : BOOLEAN, phase4 : BOOLEAN, contract : BOOLEAN]
    /\ mDone \in [1 .. MaxMRev -> Nat] /\ mIndex \subseteq 1 .. MaxMRev /\ mBuilt \in BOOLEAN
    /\ mLearned \in [MBatch -> Nat]

(* The index, once built, is what a restart would derive. *)
Indexed == mBuilt => mIndex = {id \in 1 .. MaxMRev : mDone[id] > 0}

AppliedOnce == \A id \in 1 .. MaxMRev : mDone[id] <= 1

(* A batch that has moved the weights is not of the current weights. *)
Spent ==
    /\ mSame \subseteq mTaken
    /\ \A b \in MBatch : /\ mLearned[b] <= 1
                         /\ (b \in mSame \/ b \notin mTaken) => mLearned[b] = 0

(* Experimental circuits are added in their order, to a native model. *)
PhaseOrder ==
    /\ mModel.phase4 => mModel.head # "none"
    /\ mModel.head # "none" => mModel.version = "v2"

ModelInd == ModelTypes /\ Indexed /\ AppliedOnce /\ Spent /\ PhaseOrder /\ SubstrateProtected

(* The index of done commands, built or not, is the commands done          *)
(* (cognitiveMetaIndexLocked rebuilds it from the revisions).              *)
LEMMA IndexIsDone ==
    ASSUME ModelTypes, Indexed
    PROVE  Index = {id \in 1 .. MaxMRev : mDone[id] > 0}
BY DEF ModelTypes, Indexed, Index

(* Every revision leaves no batch of the weights it moved. *)
LEMMA SpentKept ==
    ASSUME Spent, mLearned' = mLearned, mTaken' = mTaken, mSame' \in {mSame, {}}
    PROVE  Spent'
BY DEF Spent

(* A command is applied under an identity that was not used. *)
LEMMA ApplyOnce ==
    ASSUME ModelInd, NEW id \in 1 .. MaxMRev, NEW by, NEW moved, Apply(id, by, moved)
    PROVE  /\ mDone' \in [1 .. MaxMRev -> Nat] /\ mIndex' \subseteq 1 .. MaxMRev /\ mBuilt' \in BOOLEAN
           /\ Indexed' /\ AppliedOnce'
           /\ mTaken' = mTaken /\ mSame' \in {mSame, {}}
           /\ moved \cap Parameters # {} => mSame' = {}
           /\ mLast' = [by |-> by, moved |-> moved]
<1>1. /\ id \notin Index /\ mDone' = [mDone EXCEPT ![id] = @ + 1]
      /\ mIndex' = Index \cup {id} /\ mBuilt' = TRUE /\ Revise(by, moved)
  BY DEF Apply
<1>2. /\ mDone \in [1 .. MaxMRev -> Nat] /\ Index = {i \in 1 .. MaxMRev : mDone[i] > 0}
  BY IndexIsDone DEF ModelInd, ModelTypes
<1>3. mDone[id] = 0
  BY <1>1, <1>2
<1>4. mDone' \in [1 .. MaxMRev -> Nat] /\ AppliedOnce' /\ Indexed'
  BY <1>1, <1>2, <1>3 DEF ModelInd, AppliedOnce, Indexed
<1>5. mTaken' = mTaken /\ mSame' \in {mSame, {}} /\ mLast' = [by |-> by, moved |-> moved]
      /\ (moved \cap Parameters # {} => mSame' = {})
  BY <1>1 DEF Revise
<1> QED
  BY <1>1, <1>2, <1>4, <1>5

(* A recorded batch moves the weights once: what it moves makes it stale.  *)
LEMMA LearnOnce ==
    ASSUME ModelInd, NEW id \in 1 .. MaxMRev, NEW b \in MBatch \cup {Unkept}, NEW by,
           NEW mask \in SUBSET Parameters, NEW clock, Learn(id, b, by, mask, clock)
    PROVE  /\ mDone' \in [1 .. MaxMRev -> Nat] /\ mIndex' \subseteq 1 .. MaxMRev /\ mBuilt' \in BOOLEAN
           /\ mLearned' \in [MBatch -> Nat]
           /\ Indexed' /\ AppliedOnce' /\ Spent'
           /\ \E moved \in {mask, {}} : mLast' = [by |-> by, moved |-> moved]
<1>1. PICK moved \in {mask, {}} :
          /\ Apply(id, by, moved)
          /\ mLearned' = [c \in MBatch |-> mLearned[c] + IF c = b /\ moved # {} THEN 1 ELSE 0]
  BY DEF Learn
<1>2. Current(b)
  BY DEF Learn
<1>3. /\ mDone' \in [1 .. MaxMRev -> Nat] /\ mIndex' \subseteq 1 .. MaxMRev /\ mBuilt' \in BOOLEAN
      /\ Indexed' /\ AppliedOnce'
      /\ mTaken' = mTaken /\ mSame' \in {mSame, {}}
      /\ moved \cap Parameters # {} => mSame' = {}
      /\ mLast' = [by |-> by, moved |-> moved]
  BY <1>1, ApplyOnce
<1>4. mLearned \in [MBatch -> Nat] /\ Spent /\ Unkept \notin MBatch
  BY MAssumption DEF ModelInd, ModelTypes
<1>5. Spent' /\ mLearned' \in [MBatch -> Nat]
  <2>1. CASE moved = {}
    <3>1. mLearned' = mLearned
      BY <1>1, <1>4, <2>1
    <3> QED
      BY <3>1, <1>3, <1>4, SpentKept
  <2>2. CASE moved # {}
    <3>1. mSame' = {}
      BY <1>1, <1>3, <2>2
    <3>2. b \in MBatch => (b \in mSame /\ b \in mTaken /\ mLearned[b] = 0)
      BY <1>2, <1>4 DEF Current, Spent
    <3>3. \A c \in MBatch : mLearned'[c] = IF c = b THEN mLearned[c] + 1 ELSE mLearned[c]
      BY <1>1, <1>4, <2>2
    <3> QED
      BY <1>1, <1>3, <1>4, <3>1, <3>2, <3>3 DEF Spent
  <2> QED
    BY <2>1, <2>2
<1> QED
  BY <1>1, <1>3, <1>5

(* A command that is no training leaves the batches as they count. *)
LEMMA PlainOnce ==
    ASSUME ModelInd, NEW id \in 1 .. MaxMRev, NEW by, NEW moved, Apply(id, by, moved),
           mLearned' = mLearned
    PROVE  /\ mDone' \in [1 .. MaxMRev -> Nat] /\ mIndex' \subseteq 1 .. MaxMRev /\ mBuilt' \in BOOLEAN
           /\ mLearned' \in [MBatch -> Nat]
           /\ Indexed' /\ AppliedOnce' /\ Spent'
           /\ mLast' = [by |-> by, moved |-> moved]
<1>1. Spent /\ mLearned \in [MBatch -> Nat]
  BY DEF ModelInd, ModelTypes
<1> QED
  BY ApplyOnce, SpentKept, <1>1

(* What the training masks of a phase let move.                            *)
LEMMA Masks ==
    /\ TerminalReadout \subseteq Parameters
    /\ \A version : Topology(version) \subseteq Parameters
    /\ \A mask \in TrainingMask : mask \subseteq Parameters
    /\ \A frozen \in BOOLEAN : Phase2Mask(frozen) \subseteq Parameters
    /\ \A assessment, frozen \in BOOLEAN : FidelityMask(assessment, frozen) \subseteq Parameters
<1>1. TerminalReadout \subseteq Parameters
  BY DEF TerminalReadout, Parameters
<1>2. \A version : Topology(version) \subseteq Parameters
  BY DEF Topology, Parameters
<1>3. \A mask \in TrainingMask : mask \subseteq Parameters
  <2>1. {"world"} \subseteq Parameters /\ {"actor"} \subseteq Parameters
    BY DEF Parameters
  <2> QED
    BY <1>1, <1>2, <2>1 DEF TrainingMask
<1>4. \A frozen \in BOOLEAN : Phase2Mask(frozen) \subseteq Parameters
  BY DEF Phase2Mask, Parameters
<1>5. \A assessment, frozen \in BOOLEAN : FidelityMask(assessment, frozen) \subseteq Parameters
  BY DEF FidelityMask, Parameters
<1> QED
  BY <1>1, <1>2, <1>3, <1>4, <1>5

(* Commands that need no open substrate move nothing that is frozen. *)
LEMMA OpenMasks ==
    /\ {"mixture"} \cap {"world", "actor", "rows", "head", "recurrent"} = {}
    /\ {"policy"} \cap {"world", "actor", "rows", "head", "recurrent"} = {}
    /\ {"policy", "plan", "reward"} \cap {"world", "actor", "rows", "head", "recurrent"} = {}
    /\ \A assessment, frozen \in BOOLEAN :
          /\ FidelityMask(assessment, frozen) \cap {"world", "actor", "rows", "head"} = {}
          /\ "recurrent" \in FidelityMask(assessment, frozen) => ~assessment /\ ~frozen
BY DEF FidelityMask

(* The commands of the model that are no training. *)
LEMMA PlainCommands ==
    ASSUME ModelInd, NEW id \in 1 .. MaxMRev,
           \/ \E version \in {"v1", "v2"} : InitializeCognitiveModel(id, version)
           \/ AdvanceCognitiveModel(id) \/ FitCognitiveBMPS(id) \/ InitializePhase4V5(id)
           \/ \E head \in {"categorical", "pairwise"}, gru \in BOOLEAN : InitializePhase2V5(id, head, gru)
           \/ SubstrateOpen /\ UNCHANGED <<mModel, mLearned>> /\ Apply(id, "calibration", {"temperatures"})
    PROVE  ModelInd'
<1> DEFINE Stays == ModelTypes' /\ Indexed' /\ AppliedOnce' /\ Spent'
<1>1. ASSUME NEW by, NEW moved, Apply(id, by, moved), mLearned' = mLearned,
             mModel' \in [version : {"none", "v1", "v2"}, head : {"none", "categorical", "pairwise"},
                   gru : BOOLEAN, phase4 : BOOLEAN, contract : BOOLEAN]
      PROVE  Stays /\ mLast' = [by |-> by, moved |-> moved]
  BY <1>1, PlainOnce DEF ModelTypes
<1>2. /\ mModel \in [version : {"none", "v1", "v2"}, head : {"none", "categorical", "pairwise"},
                   gru : BOOLEAN, phase4 : BOOLEAN, contract : BOOLEAN]
      /\ PhaseOrder
  BY DEF ModelInd, ModelTypes
<1>3. ASSUME NEW version \in {"v1", "v2"}, InitializeCognitiveModel(id, version) PROVE ModelInd'
  <2>1. /\ Apply(id, "allocation", Topology(version) \cup Apart) /\ mLearned' = mLearned
        /\ mModel' = [mModel EXCEPT !.version = version] /\ mModel.version = "none"
    BY <1>3 DEF InitializeCognitiveModel, Modelled
  <2>2. ~mModel.phase4 /\ mModel.head = "none"
    BY <1>2, <2>1 DEF PhaseOrder
  <2>3. Stays
    BY <1>1, <1>2, <2>1
  <2>4. PhaseOrder' /\ SubstrateProtected'
    BY <1>2, <2>1, <2>2 DEF PhaseOrder, SubstrateProtected
  <2> QED
    BY <2>3, <2>4 DEF ModelInd
<1>4. CASE AdvanceCognitiveModel(id)
  <2>1. Apply(id, "input", {}) /\ mLearned' = mLearned /\ mModel' = mModel /\ ~mModel.phase4
    BY <1>4 DEF AdvanceCognitiveModel, SubstrateOpen
  <2>2. Stays
    BY <1>1, <1>2, <2>1
  <2>3. PhaseOrder' /\ SubstrateProtected'
    BY <1>2, <2>1 DEF PhaseOrder, SubstrateProtected
  <2> QED
    BY <2>2, <2>3 DEF ModelInd
<1>5. CASE FitCognitiveBMPS(id)
  <2>1. Apply(id, "search", {"mixture"}) /\ mLearned' = mLearned /\ mModel' = mModel
    BY <1>5 DEF FitCognitiveBMPS
  <2>2. Stays /\ mLast' = [by |-> "search", moved |-> {"mixture"}]
    BY <1>1, <1>2, <2>1
  <2>3. PhaseOrder' /\ SubstrateProtected'
    BY <1>2, <2>1, <2>2 DEF PhaseOrder, SubstrateProtected
  <2> QED
    BY <2>2, <2>3 DEF ModelInd
<1>6. CASE InitializePhase4V5(id)
  <2>1. /\ Apply(id, "allocation", {"policy"}) /\ mLearned' = mLearned
        /\ mModel' = [mModel EXCEPT !.phase4 = TRUE] /\ mModel.head # "none"
    BY <1>6 DEF InitializePhase4V5
  <2>2. Stays /\ mLast' = [by |-> "allocation", moved |-> {"policy"}]
    BY <1>1, <1>2, <2>1
  <2>3. PhaseOrder' /\ SubstrateProtected'
    BY <1>2, <2>1, <2>2 DEF PhaseOrder, SubstrateProtected
  <2> QED
    BY <2>2, <2>3 DEF ModelInd
<1>7. ASSUME NEW head \in {"categorical", "pairwise"}, NEW gru \in BOOLEAN, InitializePhase2V5(id, head, gru)
      PROVE  ModelInd'
  <2>1. /\ Apply(id, "allocation", IF head = "categorical" THEN {} ELSE {"head"}) /\ mLearned' = mLearned
        /\ mModel' = [mModel EXCEPT !.head = head, !.gru = gru]
        /\ mModel.version = "v2" /\ ~mModel.phase4
    BY <1>7 DEF InitializePhase2V5, Native, SubstrateOpen
  <2>2. Stays
    BY <1>1, <1>2, <2>1
  <2>3. PhaseOrder' /\ SubstrateProtected'
    BY <1>2, <2>1 DEF PhaseOrder, SubstrateProtected
  <2> QED
    BY <2>2, <2>3 DEF ModelInd
<1>8. CASE SubstrateOpen /\ UNCHANGED <<mModel, mLearned>> /\ Apply(id, "calibration", {"temperatures"})
  <2>1. Apply(id, "calibration", {"temperatures"}) /\ mLearned' = mLearned /\ mModel' = mModel /\ ~mModel.phase4
    BY <1>8 DEF SubstrateOpen
  <2>2. Stays
    BY <1>1, <1>2, <2>1
  <2>3. PhaseOrder' /\ SubstrateProtected'
    BY <1>2, <2>1 DEF PhaseOrder, SubstrateProtected
  <2> QED
    BY <2>2, <2>3 DEF ModelInd
<1> QED
  BY <1>3, <1>4, <1>5, <1>6, <1>7, <1>8

(* A batch learned on an open substrate may move all of it, a batch of the  *)
(* later phases what its mask leaves free.                                  *)
LEMMA TrainingCommands ==
    ASSUME ModelInd, NEW id \in 1 .. MaxMRev, NEW b \in MBatch \cup {Unkept},
           \/ \E mask \in TrainingMask : LearnCognitiveBatch(id, b, mask)
           \/ \E frozen \in BOOLEAN : LearnPhase2V5(id, b, frozen)
           \/ LearnPhase3(id, b) \/ LearnPhase4V5(id, b)
           \/ LearnCoordinatedV5(id, b) \/ LearnTerminalUtilityV5(id, b)
           \/ \E assessment, frozen \in BOOLEAN : LearnFidelityV5(id, b, assessment, frozen)
    PROVE  ModelInd'
<1> DEFINE Free(by, mask) == /\ mask \cap {"world", "actor", "rows", "head"} = {}
                             /\ "recurrent" \in mask => by = "fidelity"
<1>1. ASSUME NEW by, NEW mask \in SUBSET Parameters, NEW clock, Learn(id, b, by, mask, clock),
             \/ mModel' = mModel
             \/ mModel.phase4 /\ mModel' = [mModel EXCEPT !.contract = TRUE],
             mModel.phase4 => Free(by, mask)
      PROVE  ModelInd'
  <2>1. /\ mDone' \in [1 .. MaxMRev -> Nat] /\ mIndex' \subseteq 1 .. MaxMRev /\ mBuilt' \in BOOLEAN
        /\ mLearned' \in [MBatch -> Nat]
        /\ Indexed' /\ AppliedOnce' /\ Spent'
    BY <1>1, LearnOnce
  <2>2. PICK moved \in {mask, {}} : mLast' = [by |-> by, moved |-> moved]
    BY <1>1, LearnOnce
  <2>3. /\ mModel \in [version : {"none", "v1", "v2"}, head : {"none", "categorical", "pairwise"},
                     gru : BOOLEAN, phase4 : BOOLEAN, contract : BOOLEAN]
        /\ PhaseOrder
    BY DEF ModelInd, ModelTypes
  <2>4. ModelTypes' /\ PhaseOrder' /\ mModel'.phase4 = mModel.phase4
    BY <1>1, <2>1, <2>3 DEF ModelTypes, PhaseOrder
  <2>5. mModel.phase4 => Free(by, moved)
    BY <1>1
  <2>6. SubstrateProtected'
    BY <2>2, <2>4, <2>5 DEF SubstrateProtected
  <2> QED
    BY <2>1, <2>4, <2>6 DEF ModelInd
<1>2. ASSUME NEW mask \in TrainingMask, LearnCognitiveBatch(id, b, mask) PROVE ModelInd'
  <2>1. Learn(id, b, "training", mask, Stepped) /\ mModel' = mModel /\ ~mModel.phase4
    BY <1>2 DEF LearnCognitiveBatch, SubstrateOpen
  <2> QED
    BY <2>1, <1>1, Masks
<1>3. ASSUME NEW frozen \in BOOLEAN, LearnPhase2V5(id, b, frozen) PROVE ModelInd'
  <2>1. /\ \E clock : Learn(id, b, "phase2", Phase2Mask(frozen), clock)
        /\ mModel' = mModel /\ ~mModel.phase4
    BY <1>3 DEF LearnPhase2V5, SubstrateOpen
  <2> QED
    BY <2>1, <1>1, Masks
<1>4. CASE LearnPhase3(id, b)
  <2>1. Learn(id, b, "phase3", TerminalReadout, Stepped) /\ mModel' = mModel /\ ~mModel.phase4
    BY <1>4 DEF LearnPhase3, SubstrateOpen
  <2> QED
    BY <2>1, <1>1, Masks
<1>5. CASE LearnPhase4V5(id, b)
  <2>1. Learn(id, b, "phase4", {"policy"}, mClock) /\ mModel' = mModel
    BY <1>5 DEF LearnPhase4V5
  <2>2. {"policy"} \subseteq Parameters /\ Free("phase4", {"policy"})
    BY DEF Parameters
  <2> QED
    BY <2>1, <2>2, <1>1
<1>6. CASE LearnCoordinatedV5(id, b)
  <2>1. /\ Learn(id, b, "coordinated", {"policy", "plan", "reward"}, Stepped)
        /\ mModel.phase4 /\ mModel' = [mModel EXCEPT !.contract = TRUE]
    BY <1>6 DEF LearnCoordinatedV5, Coordinate
  <2>2. {"policy", "plan", "reward"} \subseteq Parameters /\ Free("coordinated", {"policy", "plan", "reward"})
    BY DEF Parameters
  <2> QED
    BY <2>1, <2>2, <1>1
<1>7. CASE LearnTerminalUtilityV5(id, b)
  <2>1. /\ Learn(id, b, "utility", {"policy"}, mClock)
        /\ mModel.phase4 /\ mModel' = [mModel EXCEPT !.contract = TRUE]
    BY <1>7 DEF LearnTerminalUtilityV5, Coordinate
  <2>2. {"policy"} \subseteq Parameters /\ Free("utility", {"policy"})
    BY DEF Parameters
  <2> QED
    BY <2>1, <2>2, <1>1
<1>8. ASSUME NEW assessment \in BOOLEAN, NEW frozen \in BOOLEAN, LearnFidelityV5(id, b, assessment, frozen)
      PROVE  ModelInd'
  <2> DEFINE by == IF assessment \/ frozen THEN "fidelity, held" ELSE "fidelity"
  <2>1. /\ Learn(id, b, by, FidelityMask(assessment, frozen), Stepped)
        /\ mModel.phase4 /\ mModel' = [mModel EXCEPT !.contract = TRUE]
    BY <1>8 DEF LearnFidelityV5, Coordinate
  <2>2. Free(by, FidelityMask(assessment, frozen))
    BY OpenMasks
  <2> QED
    BY <2>1, <2>2, <1>1, Masks
<1> QED
  BY <1>2, <1>3, <1>4, <1>5, <1>6, <1>7, <1>8

(* The invariant, for any number of commands and restarts in any order.    *)
THEOREM ModelInvariance == MSpec => []ModelInd
<1>1. MInit => ModelInd
  <2> SUFFICES ASSUME MInit PROVE ModelInd
    OBVIOUS
  <2>1. ModelTypes
    BY DEF MInit, NoModel, ModelTypes
  <2>2. Indexed /\ AppliedOnce /\ Spent
    BY DEF MInit, Indexed, AppliedOnce, Spent
  <2>3. PhaseOrder /\ SubstrateProtected
    BY DEF MInit, NoModel, PhaseOrder, SubstrateProtected
  <2> QED
    BY <2>1, <2>2, <2>3 DEF ModelInd
<1>2. ModelInd /\ [MNext]_mVars => ModelInd'
  <2> SUFFICES ASSUME ModelInd, [MNext]_mVars PROVE ModelInd'
    OBVIOUS
  <2>1. ModelTypes /\ Indexed /\ AppliedOnce /\ Spent /\ PhaseOrder /\ SubstrateProtected
    BY DEF ModelInd
  <2>2. CASE MRestart
    <3>1. ModelTypes' /\ Indexed' /\ AppliedOnce' /\ Spent'
      BY <2>1, <2>2 DEF MRestart, ModelTypes, Indexed, AppliedOnce, Spent
    <3>2. PhaseOrder' /\ SubstrateProtected'
      BY <2>1, <2>2 DEF MRestart, PhaseOrder, SubstrateProtected
    <3> QED
      BY <3>1, <3>2 DEF ModelInd
  <2>3. ASSUME NEW charged \in BOOLEAN, OrdinaryEvent(charged) PROVE ModelInd'
    <3>1. mSame' \in {mSame, {}} /\ mTaken' = mTaken /\ mLast'.by = "retention"
          /\ UNCHANGED <<mModel, mDone, mIndex, mBuilt, mLearned>>
      BY <2>3 DEF OrdinaryEvent, Revise
    <3>2. ModelTypes' /\ Indexed' /\ AppliedOnce' /\ Spent'
      BY <2>1, <3>1, SpentKept DEF ModelTypes, Indexed, AppliedOnce
    <3>3. PhaseOrder' /\ SubstrateProtected'
      BY <2>1, <3>1 DEF PhaseOrder, SubstrateProtected
    <3> QED
      BY <3>2, <3>3 DEF ModelInd
  <2>4. ASSUME NEW b \in MBatch, RecordBatch(b) PROVE ModelInd'
    <3>1. Spent'
      BY <2>1, <2>4 DEF RecordBatch, Spent
    <3>2. ModelTypes' /\ Indexed' /\ AppliedOnce' /\ PhaseOrder' /\ SubstrateProtected'
      BY <2>1, <2>4 DEF RecordBatch, ModelTypes, Indexed, AppliedOnce, PhaseOrder, SubstrateProtected
    <3> QED
      BY <3>1, <3>2 DEF ModelInd
  <2>5. CASE Strand
    BY <2>1, <2>5 DEF Strand, ModelInd, ModelTypes, Indexed, AppliedOnce, Spent, PhaseOrder, SubstrateProtected
  <2>6. ASSUME NEW id \in NewID, Duplicate(id) PROVE ModelInd'
    <3>1. Index \subseteq 1 .. MaxMRev /\ Indexed'
      BY <2>1, <2>6, IndexIsDone DEF Duplicate, Indexed
    <3>2. ModelTypes' /\ AppliedOnce' /\ Spent' /\ PhaseOrder' /\ SubstrateProtected'
      BY <2>1, <2>6, <3>1 DEF Duplicate, ModelTypes, AppliedOnce, Spent, PhaseOrder, SubstrateProtected
    <3> QED
      BY <3>1, <3>2 DEF ModelInd
  <2>7. NewID \subseteq 1 .. MaxMRev
    BY <2>1 DEF NewID, ModelTypes
  <2>8. ASSUME NEW id \in NewID, NEW b \in MBatch \cup {Unkept}, CalibrateNeuralMeta(id, b) PROVE ModelInd'
    BY <2>5, <2>7, <2>8, PlainCommands DEF CalibrateNeuralMeta
  <2>9. ASSUME NEW b \in MBatch \cup {Unkept}, LearnOverflowing(b) PROVE ModelInd'
    BY <2>5, <2>9 DEF LearnOverflowing
  <2>10. CASE UNCHANGED mVars
    BY <2>1, <2>10 DEF mVars, ModelInd, ModelTypes, Indexed, AppliedOnce, Spent, PhaseOrder, SubstrateProtected
  <2>11. CASE MNext
    BY <2>2, <2>3, <2>4, <2>6, <2>7, <2>8, <2>9, <2>11, PlainCommands, TrainingCommands DEF MNext
  <2> QED
    BY <2>10, <2>11
<1> QED
  BY <1>1, <1>2, PTL DEF MSpec

(* A command is applied once under its identity, across restarts, and a    *)
(* recorded batch moves the weights once, whatever it is sent as           *)
(* (ApplyCognitiveModel, the digest check of every learner).       *)
THEOREM LearnedOnce == MSpec => []EvidenceOnce
<1>1. ModelInd => EvidenceOnce
  BY DEF ModelInd, ModelTypes, AppliedOnce, Spent, EvidenceOnce
<1> QED
  BY <1>1, ModelInvariance, PTL

(* Training never moves what Phase IV has frozen (the guards of the        *)
(* learners and the masks of fidelity batches).                            *)
THEOREM FrozenStaysFrozen == MSpec => []SubstrateProtected
<1>1. ModelInd => SubstrateProtected
  BY DEF ModelInd
<1> QED
  BY <1>1, ModelInvariance, PTL

-----------------------------------------------------------------------------
(* The composition: its inductive invariant.                               *)

(* Receipts name files that were written. *)
Receipts == \A r \in cReceipts : r.path \in CPath /\ r.ref \in Nat

Vocabulary ==
    /\ Composed => cNeural
    /\ cTaught # {} => cNeural
    /\ cTaught \subseteq CWord
    /\ \A w \in cTaught : Learned(w)
    /\ Cardinality(cTaught) <= MaxCLearned

CompositionInd == cRev \in Nat /\ cDisk \in [File -> Int] /\ Receipts /\ RollbackKept /\ Vocabulary

(* What the vocabulary depends on. *)
vocabulary == <<cRoute, cNeural, cVersion, cTrained, cTaught>>

LEMMA SameVocabulary == ASSUME Vocabulary, UNCHANGED vocabulary PROVE Vocabulary'
BY DEF vocabulary, Vocabulary, Composed, Learned

(* A file that can be reserved is named by no receipt. *)
LEMMA UnnamedFile ==
    ASSUME CompositionInd, NEW r \in cReceipts, NEW path \in CPath,
           Reservable(<<path, "brain">>) \/ Reservable(<<path, "journal">>)
    PROVE  r.path # path
BY DEF CompositionInd, Receipts, RollbackKept, Reservable, NoFile

SameElsewhere(disk, path) ==
    \A q \in CPath \ {path} : /\ disk[<<q, "brain">>] = cDisk[<<q, "brain">>]
                              /\ disk[<<q, "journal">>] = cDisk[<<q, "journal">>]

(* Whatever an application leaves of the files of its path, the files of    *)
(* every other path are as they were.                                      *)
LEMMA OthersUntouched ==
    ASSUME CompositionInd, NEW plan, NEW path \in CPath, NEW stop, NEW disk \in LeftBehind(plan, path, stop)
    PROVE  /\ disk \in [File -> Int]
           /\ SameElsewhere(disk, path)
           /\ disk = cDisk \/ Reservable(<<path, "brain">>)
<1>1. /\ cDisk \in [File -> Int] /\ cRev \in Int /\ NoFile \in Int /\ Reserved \in Int
      /\ \A q \in CPath : <<q, "brain">> \in File /\ <<q, "journal">> \in File
  BY DEF CompositionInd, File, NoFile, Reserved
<1>2. \/ disk = cDisk
      \/ /\ Reservable(<<path, "brain">>)
         /\ \E b, l \in {NoFile, Reserved, cRev} : disk = [cDisk EXCEPT ![<<path, "brain">>] = b, ![<<path, "journal">>] = l]
      \/ /\ Reservable(<<path, "brain">>)
         /\ \E b \in {NoFile, Reserved} : disk = [cDisk EXCEPT ![<<path, "brain">>] = b]
  BY DEF LeftBehind
<1> QED
  BY <1>1, <1>2 DEF SameElsewhere

(* An application that fails at whatever point leaves the pair of every    *)
(* receipt as it was: what it wrote was named by none.                     *)
LEMMA FailedApplication ==
    ASSUME CompositionInd, NEW plan, NEW path \in CPath, NEW stop, ApplyFails(plan, path, stop)
    PROVE  CompositionInd'
<1>1. /\ cDisk' \in LeftBehind(plan, path, stop)
      /\ UNCHANGED <<cRev, cReceipts>> /\ UNCHANGED vocabulary
  BY DEF ApplyFails, vocabulary
<1>5. SameElsewhere(cDisk', path)
  BY <1>1, OthersUntouched
<1>2. RollbackKept'
  <2> SUFFICES ASSUME NEW r \in cReceipts PROVE cDisk'[<<r.path, "brain">>] = r.ref /\ cDisk'[<<r.path, "journal">>] = r.ref
    BY <1>1 DEF RollbackKept
  <2>1. cDisk' = cDisk \/ Reservable(<<path, "brain">>)
    BY <1>1, OthersUntouched
  <2>3. cDisk' = cDisk \/ r.path # path
    BY <2>1, UnnamedFile, Zenon
  <2>2. r.path \in CPath /\ cDisk[<<r.path, "brain">>] = r.ref /\ cDisk[<<r.path, "journal">>] = r.ref
    BY DEF CompositionInd, Receipts, RollbackKept
  <2>4. CASE r.path # path
    <3>1. /\ cDisk'[<<r.path, "brain">>] = cDisk[<<r.path, "brain">>]
          /\ cDisk'[<<r.path, "journal">>] = cDisk[<<r.path, "journal">>]
      <4>1. r.path \in CPath \ {path}
        BY <2>2, <2>4
      <4> QED
        BY <1>5, <4>1 DEF SameElsewhere
    <3> QED
      BY <2>2, <3>1
  <2> QED
    BY <2>2, <2>3, <2>4
<1>3. cDisk' \in [File -> Int]
  BY <1>1, OthersUntouched
<1>4. cRev' \in Nat /\ Receipts' /\ Vocabulary'
  BY <1>1, SameVocabulary DEF CompositionInd, Receipts
<1> QED
  BY <1>2, <1>3, <1>4 DEF CompositionInd

(* A migration writes files no receipt names, and a receipt that names them. *)
LEMMA Migration ==
    ASSUME CompositionInd, NEW plan, NEW path \in CPath,
           \/ ApplyNeuralWrittenGrounding(plan, path)
           \/ ApplyNeuralComposition(plan, path)
    PROVE  CompositionInd'
<1>1. Migrate(plan, path)
  BY DEF ApplyNeuralWrittenGrounding, ApplyNeuralComposition
<1>2. /\ Reservable(<<path, "brain">>)
      /\ cDisk' = [cDisk EXCEPT ![<<path, "brain">>] = cRev, ![<<path, "journal">>] = cRev]
      /\ cReceipts' = cReceipts \cup {[path |-> path, ref |-> cRev]}
      /\ cRev' = cRev + 1 /\ UNCHANGED <<cRoute, cTrained, cTaught>>
  BY <1>1 DEF Migrate
<1>3. cRev \in Nat /\ cDisk \in [File -> Int] /\ Receipts /\ RollbackKept /\ Vocabulary
  BY DEF CompositionInd
<1>4. \A q \in CPath : <<q, "brain">> \in File /\ <<q, "journal">> \in File
  BY DEF File
<1>5. \A r \in cReceipts : r.path # path /\ r.path \in CPath
  BY <1>2, <1>3, UnnamedFile DEF Receipts
<1> DEFINE new == [path |-> path, ref |-> cRev]
<1>6. cRev' \in Nat /\ cDisk' \in [File -> Int] /\ Receipts'
  <2>1. cRev' \in Nat /\ cDisk' \in [File -> Int]
    <3>1. cRev \in Int /\ cRev' \in Nat
      BY <1>2, <1>3
    <3> QED
      BY <1>2, <1>3, <3>1
  <2>2. new.path \in CPath /\ new.ref \in Nat
    BY <1>3
  <2>3. \A r \in cReceipts' : r \in cReceipts \/ r = new
    BY <1>2
  <2> QED
    BY <1>3, <2>1, <2>2, <2>3 DEF Receipts
<1>7. RollbackKept'
  <2>1. \A r \in cReceipts : cDisk'[<<r.path, "brain">>] = r.ref /\ cDisk'[<<r.path, "journal">>] = r.ref
    BY <1>2, <1>3, <1>4, <1>5 DEF RollbackKept
  <2>2. cDisk'[<<path, "brain">>] = cRev /\ cDisk'[<<path, "journal">>] = cRev
    BY <1>2, <1>3, <1>4
  <2>3. new.path = path /\ new.ref = cRev
    OBVIOUS
  <2>4. \A r \in cReceipts' : r \in cReceipts \/ r = new
    BY <1>2
  <2> QED
    BY <2>1, <2>2, <2>3, <2>4, Zenon DEF RollbackKept
<1>8. Vocabulary'
  <2>1. (Composed => cNeural)' /\ (cNeural => cNeural')
    <3>1. CASE ApplyNeuralWrittenGrounding(plan, path)
      BY <3>1 DEF ApplyNeuralWrittenGrounding
    <3>2. CASE ApplyNeuralComposition(plan, path)
      BY <3>2, <1>1 DEF ApplyNeuralComposition, Migrate, Applicable
    <3> QED
      BY <3>1, <3>2
  <2> QED
    BY <1>2, <1>3, <2>1 DEF Vocabulary, Learned
<1> QED
  BY <1>6, <1>7, <1>8 DEF CompositionInd

(* Grounding gives a form units of its own only when it has none. *)
LEMMA GroundingKeeps ==
    ASSUME NEW words, NEW w \in CWord
    PROVE  /\ cRoute[w] # {} => Grounded(words)[w] = cRoute[w]
           /\ w \in words => Grounded(words)[w] # {}
BY DEF Grounded

(* Taught forms were trained already or are among the words counted. *)
LEMMA LessonKeeps ==
    ASSUME CompositionInd, NEW words \in Phrase, NEW s \in BOOLEAN, NEW b, NEW a, NEW f \in BOOLEAN,
           LearnComposition(words, s, b, a, f)
    PROVE  Vocabulary'
<1>1. /\ Composed /\ WithinBudget(Elements(words)) /\ Practise(words, f)
      /\ cTaught' = cTaught \cup Elements(words) /\ UNCHANGED <<cNeural, cVersion>>
  BY DEF LearnComposition
<1>2. Vocabulary
  BY DEF CompositionInd
<1>3. Elements(words) \subseteq CWord
  BY DEF Phrase, Elements
<1>4. Cardinality(cTaught') <= MaxCLearned
  <2> DEFINE counted == {w \in CWord : Learned(w)} \cup Elements(words)
  <2>1. counted \subseteq CWord /\ cTaught' \subseteq counted
    BY <1>1, <1>2, <1>3 DEF Vocabulary
  <2>2. IsFiniteSet(counted) /\ IsFiniteSet(cTaught')
    BY <2>1, CAssumption, FS_Subset
  <2>3. Cardinality(cTaught') <= Cardinality(counted)
    BY <2>1, <2>2, FS_Subset
  <2>4. Cardinality(counted) <= MaxCLearned
    BY <1>1 DEF WithinBudget
  <2>5. Cardinality(counted) \in Nat /\ Cardinality(cTaught') \in Nat /\ MaxCLearned \in Nat
    BY <2>2, CAssumption, FS_CardinalityType
  <2> QED
    BY <2>3, <2>4, <2>5
<1>5. \A w \in cTaught' : Learned(w)'
  <2> SUFFICES ASSUME NEW w \in cTaught' PROVE cRoute'[w] \cap cTrained' # {}
    BY DEF Learned
  <2>1. w \in CWord /\ (w \in cTaught => cRoute[w] \cap cTrained # {})
    BY <1>1, <1>2, <1>3 DEF Vocabulary, Learned
  <2>2. CASE words = <<>>
    <3>1. cTaught' = cTaught /\ cRoute' = cRoute /\ cTrained' = cTrained
      BY <1>1, <2>2 DEF Practise, Elements
    <3> QED
      BY <2>1, <3>1
  <2>3. CASE words # <<>>
    <3>1. /\ cRoute' = Grounded(Elements(words))
          /\ cTrained' = cTrained \cup UNION {cRoute'[v] : v \in Elements(words)}
      BY <1>1, <2>3 DEF Practise
    <3>2. CASE w \in Elements(words)
      BY <2>1, <3>1, <3>2, GroundingKeeps
    <3>3. CASE w \notin Elements(words)
      BY <1>1, <2>1, <3>1, <3>3, GroundingKeeps
    <3> QED
      BY <3>2, <3>3
  <2> QED
    BY <2>2, <2>3
<1> QED
  BY <1>1, <1>2, <1>3, <1>4, <1>5 DEF Vocabulary, Composed

(* A step that touches neither rollback files nor receipts. *)
LEMMA FilesUntouched ==
    ASSUME CompositionInd, UNCHANGED <<cDisk, cReceipts>>, cRev' \in {cRev, cRev + 1}, Vocabulary'
    PROVE  CompositionInd'
BY DEF CompositionInd, Receipts, RollbackKept

(* Text grounds forms that have no route; no taught form is one of them. *)
LEMMA TextKeepsVocabulary ==
    ASSUME Vocabulary, NEW words, cRoute' = Grounded(words), UNCHANGED <<cNeural, cVersion, cTrained, cTaught>>
    PROVE  Vocabulary'
<1>1. \A w \in cTaught : w \in CWord /\ cRoute[w] # {} /\ cRoute[w] \cap cTrained # {}
  BY DEF Vocabulary, Learned
<1>2. \A w \in cTaught : cRoute'[w] = cRoute[w]
  BY <1>1, GroundingKeeps
<1> QED
  BY <1>1, <1>2 DEF Vocabulary, Composed, Learned

THEOREM CompositionInvariance == CSpec => []CompositionInd
<1>1. CInit => CompositionInd
  <2> SUFFICES ASSUME CInit PROVE CompositionInd
    OBVIOUS
  <2>1. cRev \in Nat /\ cDisk \in [File -> Int] /\ Receipts /\ RollbackKept
    BY DEF CInit, NoFile, Receipts, RollbackKept
  <2>2. Vocabulary
    <3>1. Cardinality({}) = 0 /\ 0 <= MaxCLearned
      BY FS_EmptySet, CAssumption
    <3> QED
      BY <3>1 DEF CInit, Vocabulary, Composed
  <2> QED
    BY <2>1, <2>2 DEF CompositionInd
<1>2. CompositionInd /\ [CNext]_cVars => CompositionInd'
  <2> SUFFICES ASSUME CompositionInd, [CNext]_cVars PROVE CompositionInd'
    OBVIOUS
  <2>1. Vocabulary
    BY DEF CompositionInd
  <2>2. ASSUME UNCHANGED <<cDisk, cReceipts, vocabulary>>, cRev' \in {cRev, cRev + 1} PROVE CompositionInd'
    BY <2>1, <2>2, SameVocabulary, FilesUntouched
  <2>3. CASE CTick \/ PlanNeuralWrittenGrounding \/ \E c \in CContract : PlanNeuralComposition(c)
    BY <2>2, <2>3 DEF CTick, PlanNeuralWrittenGrounding, PlanNeuralComposition, Plan, vocabulary
  <2>4. ASSUME NEW plan \in cPlans, NEW path \in CPath, NEW stop \in Stop, ApplyFails(plan, path, stop)
        PROVE  CompositionInd'
    BY <2>4, FailedApplication
  <2>5. ASSUME NEW plan \in cPlans, NEW path \in CPath,
               ApplyNeuralWrittenGrounding(plan, path) \/ ApplyNeuralComposition(plan, path)
        PROVE  CompositionInd'
    BY <2>5, Migration
  <2>6. ASSUME NEW w \in CWord, ApplyWrittenSurfaceRebinding(w) PROVE CompositionInd'
    <3>1. /\ ~cNeural /\ cRev' = cRev + 1
          /\ UNCHANGED <<cNeural, cVersion, cTaught, cDisk, cReceipts>>
      BY <2>6 DEF ApplyWrittenSurfaceRebinding
    <3>2. Vocabulary'
      BY <2>1, <3>1 DEF Vocabulary, Composed
    <3> QED
      BY <3>1, <3>2, FilesUntouched
  <2>7. ASSUME NEW words \in Phrase, NEW s \in BOOLEAN, NEW f \in BOOLEAN, NEW b \in 1 .. MaxCTime,
               NEW a \in 1 .. MaxCTime, LearnComposition(words, s, b, a, f)
        PROVE  CompositionInd'
    <3>1. Vocabulary'
      BY <2>7, LessonKeeps
    <3>2. cRev' = cRev + 1 /\ UNCHANGED <<cDisk, cReceipts>>
      BY <2>7 DEF LearnComposition
    <3> QED
      BY <3>1, <3>2, FilesUntouched
  <2>8. CASE \/ \E w \in CWord, at \in 1 .. MaxCTime : ObserveCompositionInput(w, at)
             \/ \E at \in 1 .. MaxCTime : ObserveCompositionScene(at)
             \/ BindCompositionAction
    BY <2>2, <2>8 DEF ObserveCompositionInput, ObserveCompositionScene, BindCompositionAction, vocabulary
  <2>9. ASSUME NEW words \in Text, ObserveText(words) PROVE CompositionInd'
    <3>1. /\ cRev' = cRev + 1 /\ UNCHANGED <<cDisk, cReceipts>>
          /\ cRoute' = Grounded(Elements(words)) /\ UNCHANGED <<cNeural, cVersion, cTrained, cTaught>>
      BY <2>9 DEF ObserveText
    <3> QED
      BY <2>1, <3>1, TextKeepsVocabulary, FilesUntouched
  <2>10. CASE UNCHANGED cVars
    BY <2>2, <2>10 DEF cVars, vocabulary
  <2>11. CASE CNext
    BY <2>3, <2>4, <2>5, <2>6, <2>7, <2>8, <2>9, <2>11 DEF CNext
  <2> QED
    BY <2>10, <2>11
<1> QED
  BY <1>1, <1>2, PTL DEF CSpec

(* Every receipt's rollback pair stays on disk as it was written, however   *)
(* many applications fail or are tried again on whichever path             *)
(* (ApplyNeuralWrittenGrounding, ApplyNeuralComposition).                   *)
THEOREM RollbackStands == CSpec => []RollbackKept
<1>1. CompositionInd => RollbackKept
  BY DEF CompositionInd
<1> QED
  BY <1>1, CompositionInvariance, PTL

(* The budget of words holds for any sequence of lessons, texts and        *)
(* rebindings (ValidateCompositionExposure).                                *)
THEOREM BudgetHolds == CSpec => []TaughtWithinBudget
<1>1. CompositionInd => TaughtWithinBudget
  BY DEF CompositionInd, Vocabulary, TaughtWithinBudget
<1> QED
  BY <1>1, CompositionInvariance, PTL

-----------------------------------------------------------------------------
(* The numerical lessons: readouts keep their fields and witnesses their   *)
(* queries, so that an installed readout predicts what its trial did.      *)

ReadoutFields == {"known", "metric", "num", "den", "b", "ms", "max"}
Readouts(heads) ==
    DOMAIN heads = Query /\ \A q \in Query : DOMAIN heads[q] = ReadoutFields
NumericInd == Readouts(nHeads) /\ \A r \in nWitnesses : r.q \in Query

(* A trial's outcome keeps the distinctions of every witness, or is what   *)
(* was there before the lesson.                                            *)
Retains(before, m) ==
    /\ Readouts(m.heads)
    /\ m = before \/ \A r \in nWitnesses : ~Flips(before, m, r)

(* A fit changes the line of its query and leaves every readout its        *)
(* fields.                                                                 *)
LEMMA Fitting ==
    ASSUME NEW unit, NEW heads, Readouts(heads), NEW q \in Query, NEW metric, NEW rows
    PROVE  Readouts(NFit(Model(unit, heads), q, metric, rows).heads)
BY DEF NFit, WithLine, Model, Readouts, ReadoutFields

(* A trial is kept only when it flips no witness.                          *)
LEMMA Judging ==
    ASSUME NEW before, NEW t, NEW l, NEW cause, NEW metric, NEW m,
           Retains(before, t.model), Readouts(m.heads)
    PROVE  Retains(before, Judge(before, t, l, cause, metric, m).model)
<1>1. CASE Eligible(before, t, l, m, metric)
  <2>1. \A r \in nWitnesses : ~Flips(before, m, r)
    BY <1>1 DEF Eligible, EligibleMetric, EligibleResolution, NRegression
  <2>2. Judge(before, t, l, cause, metric, m).model = m
    BY <1>1 DEF Judge
  <2> QED BY <2>1, <2>2 DEF Retains
<1>2. CASE ~Eligible(before, t, l, m, metric)
  BY <1>2 DEF Judge
<1> QED BY <1>1, <1>2

(* The trials of both metrics on a unit, one after the other, keep what    *)
(* one keeps.                                                              *)
LEMMA Trials ==
    ASSUME NEW before, Readouts(before.heads), NEW t, NEW l, l.q \in Query,
           NEW cause, NEW unit, Retains(before, t.model)
    PROVE  Retains(before, BothModes(before, t, l, cause, unit).model)
<1>1. ASSUME NEW metric, NEW s, Retains(before, s.model)
      PROVE  Retains(before, Consider(before, s, l, cause, unit, metric).model)
  <2> DEFINE m == NFit(Model(unit, before.heads), l.q, metric, l.fit)
  <2>1. Readouts(m.heads)
    BY Fitting
  <2> HIDE DEF m
  <2>2. Retains(before, Judge(before, s, l, cause, metric, m).model)
    BY <1>1, <2>1, Judging
  <2> QED BY <2>2 DEF Consider, m
<1> QED BY <1>1 DEF BothModes

(* The diagnosis of a lesson, from readout to resolution to growth, keeps  *)
(* what its trials keep.                                                   *)
LEMMA Diagnosing ==
    ASSUME NEW before, Readouts(before.heads), NEW l, l.q \in Query
    PROVE  Retains(before, Diagnose(before, l).model)
<1> DEFINE t0 == Start(before, l)
           t1 == TryReadout(before, t0, l)
           t2 == TryResolution(before, t1, l)
           t3 == TryGrowth(before, t2, l)
<1>0. Retains(before, t0.model)
  BY DEF Start, Retains
<1> HIDE DEF t0
<1>1. Retains(before, t1.model)
  BY <1>0, Trials DEF TryReadout
<1> HIDE DEF t1
<1>2. Retains(before, t2.model)
  BY <1>1, Trials DEF TryResolution
<1> HIDE DEF t2
<1>3. Retains(before, t3.model)
  BY <1>2, Trials DEF TryGrowth
<1> HIDE DEF t3
<1> QED BY <1>3 DEF Diagnose, t3, t2, t1, t0

(* A lesson leaves readouts that predict what its trial predicts, or what  *)
(* was predicted before it.                                                *)
LEMMA LessonRetains ==
    ASSUME NumericInd, NEW q \in Query, NEW points, NEW goal,
           NLearn(Model(nUnit, nHeads), Lesson(q, points, goal))
    PROVE  /\ NumericInd'
           /\ \A r \in nWitnesses : ~Flips(Model(nUnit, nHeads), Model(nUnit', nHeads'), r)
<1> DEFINE l == Lesson(q, points, goal)
           before == Model(nUnit, nHeads)
           after == Model(nUnit', nHeads')
<1>0. /\ l.q = q /\ \A r \in l.check : r.q = q
      /\ before.heads = nHeads /\ before.unit = nUnit
  BY DEF Lesson, Model
<1> HIDE DEF l
<1>1. ASSUME NEW m, Readouts(m.heads), Retains(before, m), nUnit' = m.unit,
             Readouts(nHeads'),
             \A p \in Query : /\ nHeads'[p].metric = m.heads[p].metric
                              /\ nHeads'[p].num = m.heads[p].num
                              /\ nHeads'[p].den = m.heads[p].den
                              /\ nHeads'[p].b = m.heads[p].b
      PROVE  \A r \in nWitnesses : ~Flips(before, after, r)
  <2> TAKE r \in nWitnesses
  <2>1. r.q \in Query
    BY DEF NumericInd
  <2>2. NPredict(after, r.q, r.x) = NPredict(m, r.q, r.x)
    BY <1>1, <2>1 DEF NPredict, Model
  <2>3. ~Flips(before, m, r)
    BY <1>1 DEF Retains, Flips, AcceptedRight
  <2> QED BY <2>2, <2>3 DEF Flips, Right
<1>2. CASE Conflicting(before, l)
  <2>1. nUnit' = nUnit /\ nWitnesses' = nWitnesses
    BY <1>2 DEF Conflicting
  <2>2. PICK ms, worst : nHeads' = IF nHeads[q].known
                    THEN [nHeads EXCEPT ![q].ms = ms, ![q].max = IF nContract = "v6" THEN worst ELSE @]
                    ELSE nHeads
    BY <1>0, <1>2 DEF Conflicting
  <2>3. Readouts(nHeads)
    BY DEF NumericInd
  <2>4. /\ Readouts(nHeads')
        /\ \A p \in Query : /\ nHeads'[p].metric = nHeads[p].metric
                             /\ nHeads'[p].num = nHeads[p].num
                             /\ nHeads'[p].den = nHeads[p].den
                             /\ nHeads'[p].b = nHeads[p].b
    BY <2>2, <2>3 DEF Readouts, ReadoutFields
  <2>5. Retains(before, before) /\ Readouts(before.heads)
    BY <1>0, <2>3 DEF Retains
  <2>6. NumericInd'
    BY <2>1, <2>4 DEF NumericInd
  <2> QED BY <1>0, <1>1, <2>1, <2>4, <2>5, <2>6
<1>3. CASE Conclude(before, l, Diagnose(before, l))
  <2> DEFINE t == Diagnose(before, l)
  <2>0. Retains(before, t.model)
    BY <1>0, Diagnosing DEF NumericInd
  <2> HIDE DEF t
  <2>1. CASE Committed(before, l, t)
    <3>1. /\ nUnit' = t.model.unit /\ nHeads' = Installed(before, t, l)
          /\ nWitnesses' \in NBalancedWitnesses(nHeads', nWitnesses \cup l.check)
      BY <2>1 DEF Committed
    <3>2. PICK ms, max : nHeads' = [t.model.heads EXCEPT ![q] = [@ EXCEPT !.ms = ms, !.max = max]]
      BY <1>0, <3>1 DEF Installed
    <3> DEFINE f == t.model.heads
    <3>3. Readouts(f)
      BY <2>0 DEF Retains
    <3>4. nHeads' = [f EXCEPT ![q] = [@ EXCEPT !.ms = ms, !.max = max]]
      BY <3>2
    <3> HIDE DEF f
    <3>7. /\ Readouts(nHeads')
          /\ \A p \in Query : /\ nHeads'[p].metric = f[p].metric /\ nHeads'[p].num = f[p].num
                              /\ nHeads'[p].den = f[p].den /\ nHeads'[p].b = f[p].b
      BY <3>3, <3>4 DEF Readouts, ReadoutFields
    <3>5. nWitnesses' \subseteq nWitnesses \cup l.check
      BY <3>1 DEF NBalancedWitnesses
    <3>6. NumericInd'
      BY <1>0, <3>7, <3>5 DEF NumericInd
    <3> QED BY <1>1, <2>0, <3>1, <3>3, <3>6, <3>7 DEF f
  <2>2. CASE Unsolved(before, l, t)
    <3>1. UNCHANGED <<nUnit, nHeads, nWitnesses>>
      BY <2>2 DEF Unsolved
    <3>2. Retains(before, before)
      BY <1>0 DEF Retains, NumericInd
    <3> QED BY <1>0, <1>1, <3>1, <3>2 DEF NumericInd
  <2> QED BY <1>3, <2>1, <2>2 DEF Conclude, t
<1> QED BY <1>2, <1>3 DEF NLearn, l

(* Readouts keep their fields and witnesses their queries through every    *)
(* lesson (learnNMetric).                                      *)
THEOREM NumericInvariance == NSpec => []NumericInd
<1>1. NInit => NumericInd
  BY DEF NInit, NumericInd, Readouts, ReadoutFields, NoReadout
<1>2. NumericInd /\ [NNext]_nVars => NumericInd'
  BY LessonRetains DEF NNext, nVars, NumericInd
<1> QED BY <1>1, <1>2, PTL DEF NSpec

(* No lesson, whatever was taught before it, flips an answer that was      *)
(* accepted and right on a retained witness of any query: the trial is     *)
(* judged by its predictions on every witness (nRegression), and what it   *)
(* installs predicts what it was judged by.                                *)
THEOREM LessonsRetain == NSpec => DistinctionsRetained
<1>1. NumericInd /\ [NNext]_nVars =>
        [\A r \in nWitnesses : ~Flips(Model(nUnit, nHeads), Model(nUnit', nHeads'), r)]_nVars
  BY LessonRetains DEF NNext
<1> QED BY <1>1, NumericInvariance, PTL DEF NSpec, DistinctionsRetained

-----------------------------------------------------------------------------
(* The numerical lessons: whatever they leave can be restored.             *)

(* A quotient rounded to the nearest integer is one, not negative when what *)
(* is divided is not, and within the bound that the quotient keeps.         *)
LEMMA RoundsToInt ==
    ASSUME NEW a \in Int, NEW b \in Nat \ {0}
    PROVE  RoundDiv(a, b) \in Int /\ (a >= 0 => RoundDiv(a, b) >= 0)
<1>1. 2 * b \in Nat \ {0} /\ 2 * a + b \in Int /\ b - 2 * a \in Int
  OBVIOUS
<1>2. (2 * a + b) \div (2 * b) \in Int /\ (b - 2 * a) \div (2 * b) \in Int
  BY <1>1
<1>3. a >= 0 => (2 * a + b) \div (2 * b) >= 0
  OBVIOUS
<1> QED
  BY <1>2, <1>3 DEF RoundDiv

LEMMA HalfUp ==
    ASSUME NEW a \in Int, NEW b \in Nat \ {0}, NEW B \in Nat, 0 <= a, a <= B * b
    PROVE  (2 * a + b) \div (2 * b) \in 0 .. B
<1>1. PICK n \in Int, d \in Nat \ {0}, e \in Int :
          /\ n = 2 * a + b /\ d = 2 * b /\ e = B * b
  OBVIOUS
<1>2. n < d * B + d
  <2>1. d * B = 2 * e
    BY <1>1
  <2> QED
    BY <1>1, <2>1
<1>3. PICK q \in Int : q = n \div d /\ d * q <= n /\ n < d * q + d
  BY <1>1
<1>4. q <= B
  <2>1. d * q < d * (B + 1)
    BY <1>2, <1>3
  <2> QED
    BY <2>1
<1>5. q >= 0
  <2>1. 0 < d * (q + 1)
    BY <1>1, <1>3
  <2> QED
    BY <2>1
<1> QED
  BY <1>1, <1>3, <1>4, <1>5

LEMMA RoundsWithin ==
    ASSUME NEW a \in Int, NEW b \in Nat \ {0}, NEW B \in Nat, a <= B * b, -a <= B * b
    PROVE  RoundDiv(a, b) \in -B .. B
<1>1. CASE a >= 0
  <2>1. (2 * a + b) \div (2 * b) \in 0 .. B
    BY <1>1, HalfUp
  <2> QED
    BY <1>1, <2>1 DEF RoundDiv
<1>2. CASE a < 0
  <2>1. PICK c \in Int : c = -a /\ 0 <= c /\ c <= B * b
    BY <1>2
  <2>2. (2 * c + b) \div (2 * b) \in 0 .. B
    BY <2>1, HalfUp
  <2>3. b - 2 * a = 2 * c + b
    BY <2>1
  <2> QED
    BY <1>2, <2>2, <2>3 DEF RoundDiv
<1> QED
  BY <1>1, <1>2

(* NSum is such a sum, over the domain of its function. *)
LEMMA NSumIs ==
    ASSUME NEW D, IsFiniteSet(D), NEW f \in [D -> Int]
    PROVE  NSum(f) = SumMap(f, D)[D]
<1> DEFINE it == CHOOSE g : g = [s \in SUBSET DOMAIN f |->
                     IF s = {} THEN 0 ELSE f[Element(s)] + g[s \ {Element(s)}]]
<1>1. NSum(f) = it[DOMAIN f]
  BY Zenon DEF NSum, FoldFunction, FoldFunctionOnSet, MapThenFoldSet, Element
<1>2. DOMAIN f = D
  OBVIOUS
<1>3. it = SumMap(f, D)
  BY <1>2, Zenon DEF Summed, SumMap
<1> HIDE DEF it
<1> QED
  BY <1>1, <1>2, <1>3

(* What is known of a sum: it is an integer, not negative if its terms are *)
(* not, and within as many times a bound of theirs.                        *)
LEMMA SumBounds ==
    ASSUME NEW D, IsFiniteSet(D), NEW f \in [D -> Int]
    PROVE  /\ NSum(f) \in Int
           /\ (\A x \in D : f[x] >= 0) => NSum(f) >= 0
           /\ \A B \in Nat : (\A x \in D : f[x] \in -B .. B) =>
                 NSum(f) <= B * Cardinality(D) /\ -NSum(f) <= B * Cardinality(D)
<1>1. PICK g \in [SUBSET D -> Int] : Summed(g, f, D) /\ NSum(f) = g[D]
  BY NSumIs, SumChosen
<1>2. ASSUME \A x \in D : f[x] >= 0 PROVE NSum(f) >= 0
  <2>1. f \in [D -> Nat]
    BY <1>2
  <2> QED
    BY <1>1, <2>1, SumsMember
<1>3. ASSUME NEW B \in Nat, \A x \in D : f[x] \in -B .. B
      PROVE  NSum(f) <= B * Cardinality(D) /\ -NSum(f) <= B * Cardinality(D)
  <2>1. f \in [D -> -B .. B]
    BY <1>3
  <2> QED
    BY <1>1, <2>1, SumWithin
<1>4. NSum(f) \in Int
  <2>1. D \in SUBSET D
    OBVIOUS
  <2> QED
    BY <1>1, <2>1
<1> QED
  BY <1>2, <1>3, <1>4

LEMMA SquareOfSum ==
    ASSUME NEW D, IsFiniteSet(D), NEW f \in [D -> Int]
    PROVE  NSum(f) * NSum(f) <= Cardinality(D) * NSum([x \in D |-> f[x] * f[x]])
<1> DEFINE e == [x \in D |-> f[x] * f[x]]
<1>1. PICK g \in [SUBSET D -> Int] : Summed(g, f, D) /\ NSum(f) = g[D]
  BY NSumIs, SumChosen
<1>2. e \in [D -> Int]
  OBVIOUS
<1>3. Squares(e, f, D)
  BY DEF Squares
<1> HIDE DEF e
<1>4. PICK h \in [SUBSET D -> Int] : Summed(h, e, D) /\ NSum(e) = h[D]
  BY <1>2, NSumIs, SumChosen
<1>5. Adds(g, f, D) /\ Adds(h, e, D)
  BY <1>1, <1>2, <1>4, Zenon DEF Adds
<1>6. MeanSquare(g, h, D)
  BY <1>3, <1>5, SumOfSquares
<1> QED
  BY <1>1, <1>4, <1>6 DEF e, MeanSquare

-----------------------------------------------------------------------------
(* Readable lessons and models.                                            *)

RowSet  == [q : Query, x : -One .. One, y : -One .. One, ep : Nat]
Rows(s) == s \subseteq RowSet /\ IsFiniteSet(s)
UnitSet == {NoUnit} \cup [axis : {-1, 1}, center : -One .. One, delta : 1 .. 8 * One - 1]
LineSet == [num : Int, den : Nat \ {0}, b : Int]
HeadSet == [known : BOOLEAN, metric : BOOLEAN, num : Int, den : Nat \ {0}, b : Int,
            ms : Nat, max : 0 .. 2 * One]
Readable(m) == m.unit \in UnitSet /\ m.heads \in [Query -> HeadSet]

LEMMA RowParts ==
    ASSUME NEW r \in RowSet
    PROVE  r.q \in Query /\ r.x \in -One .. One /\ r.y \in -One .. One /\ r.ep \in Nat
           /\ r.x \in Int /\ r.y \in Int
BY NAssumption DEF RowSet

LEMMA Codes ==
    ASSUME NEW code \in Int PROVE Firing(code) \in Int
<1> DEFINE n == Magnitude(code)
<1>1. n \in Nat
  BY DEF Magnitude
<1> HIDE DEF n
<1>2. ASSUME NEW k \in {762, 964, 995, 999} PROVE RoundDiv(k * One, 1000) \in Int
  BY NAssumption, RoundsToInt
<1>3. n # 0 /\ ~(n > 4) => <<762, 964, 995, 999>>[n] \in {762, 964, 995, 999}
  BY <1>1
<1> DEFINE v == IF n = 0 THEN 0 ELSE IF n > 4 THEN One
                ELSE RoundDiv(<<762, 964, 995, 999>>[n] * One, 1000)
<1>4. v \in Int
  BY <1>2, <1>3, NAssumption
<1>5. Firing(code) = IF code < 0 THEN -v ELSE v
  BY DEF Firing, n
<1> HIDE DEF v
<1> QED
  BY <1>4, <1>5

LEMMA Values ==
    ASSUME NEW u \in UnitSet, NEW metric, NEW x \in Int
    PROVE  NValue(u, metric, x) \in Int
<1>1. CASE u = NoUnit
  BY <1>1 DEF NValue
<1>2. CASE u # NoUnit
  <2>1. u.axis \in Int /\ u.center \in Int /\ u.delta \in Nat \ {0}
    BY <1>2, NAssumption DEF UnitSet
  <2>2. u.axis * x - u.center \in Int
    BY <2>1
  <2>3. NCode(u, x) \in Int
    BY <2>1, <2>2, RoundsToInt DEF NCode
  <2>4. Firing(NCode(u, x)) \in Int
    BY <2>3, Codes
  <2>5. u.center + u.delta * NCode(u, x) \in Int
    BY <2>1, <2>3
  <2> QED
    BY <1>2, <2>4, <2>5 DEF NValue
<1> QED
  BY <1>1, <1>2

(* A prediction is between -1 and 1, so a miss is at most two.             *)
LEMMA Predicts ==
    ASSUME NEW m, Readable(m), NEW q \in Query, NEW x \in Int
    PROVE  NPredict(m, q, x) \in -One .. One
<1>1. PICK h : h = m.heads[q]
  OBVIOUS
<1>2. h.num \in Int /\ h.den \in Nat \ {0} /\ h.b \in Int
  <2>1. h \in HeadSet
    BY <1>1 DEF Readable
  <2> QED
    BY <2>1 DEF HeadSet
<1>3. PICK v \in Int : v = NValue(m.unit, h.metric, x)
  BY Values DEF Readable
<1>4. h.num * v \in Int
  BY <1>2, <1>3
<1>5. RoundDiv(h.num * v, h.den) \in Int
  BY <1>2, <1>4, RoundsToInt
<1>6. PICK i \in Int : i = h.b + RoundDiv(h.num * v, h.den)
  BY <1>2, <1>5
<1>7. NPredict(m, q, x) = Clamp(i)
  BY <1>1, <1>3, <1>6 DEF NPredict
<1> QED
  BY <1>7, NAssumption DEF Clamp

LEMMA Misses ==
    ASSUME NEW m, Readable(m), NEW r \in RowSet
    PROVE  Miss(m, r) \in 0 .. 2 * One /\ Miss(m, r) \in Nat
<1>1. NPredict(m, r.q, r.x) \in -One .. One /\ r.y \in -One .. One
  BY RowParts, Predicts
<1> QED
  BY <1>1, NAssumption DEF Miss, Magnitude

LEMMA Errors ==
    ASSUME NEW m, Readable(m), NEW rows, Rows(rows)
    PROVE  NError(m, rows) \in Nat /\ NMetricMaximumError(m, rows) \in 0 .. 2 * One
<1>1. NError(m, rows) \in Nat
  <2> DEFINE f == [r \in rows |-> Miss(m, r) * Miss(m, r)]
  <2>1. ASSUME NEW r \in rows PROVE Miss(m, r) * Miss(m, r) \in Nat
    <3>1. Miss(m, r) \in Nat
      BY Misses DEF Rows
    <3> QED
      BY <3>1
  <2>2. f \in [rows -> Int] /\ \A r \in rows : f[r] >= 0
    BY <2>1
  <2>3. NError(m, rows) = NSum(f)
    BY DEF NError
  <2> HIDE DEF f
  <2>4. NSum(f) \in Int /\ NSum(f) >= 0
    BY <2>2, SumBounds DEF Rows
  <2> QED
    BY <2>3, <2>4
<1>2. NMetricMaximumError(m, rows) \in 0 .. 2 * One
  <2> DEFINE T == {0} \cup {Min({2 * One, Miss(m, r)}) : r \in rows}
  <2>1. ASSUME NEW r \in rows PROVE Min({2 * One, Miss(m, r)}) \in 0 .. 2 * One
    <3>1. Miss(m, r) \in 0 .. 2 * One /\ 2 * One \in Int
      BY Misses, NAssumption DEF Rows
    <3> QED
      BY <3>1, SmallerOf
  <2>2. 2 * One \in Nat /\ 0 \in T /\ \A y \in T : y \in 0 .. 2 * One
    <3>1. 2 * One \in Nat /\ 0 \in 0 .. 2 * One
      BY NAssumption
    <3> QED
      BY <2>1, <3>1
  <2>3. NMetricMaximumError(m, rows) = Max(T)
    BY DEF NMetricMaximumError
  <2> HIDE DEF T
  <2>4. T \subseteq Int /\ T # {} /\ \E B \in Int : \A y \in T : y <= B
    BY <2>2
  <2>5. Max(T) \in T
    BY <2>4, LargestOf
  <2> QED
    BY <2>2, <2>3, <2>5
<1> QED
  BY <1>1, <1>2

-----------------------------------------------------------------------------
(* Fitting: a readout can always be evaluated.                             *)

(* The divisor of a least-squares fit is that of the spread of its values. *)
LEMMA Lines ==
    ASSUME NEW u \in UnitSet, NEW metric, NEW rows, Rows(rows), rows # {}
    PROVE  Line(u, metric, rows) \in LineSet
<1> DEFINE v == [r \in rows |-> NValue(u, metric, r.x)]
           y == [r \in rows |-> r.y]
           vv == [r \in rows |-> v[r] * v[r]]
           vy == [r \in rows |-> v[r] * r.y]
<1>0. IsFiniteSet(rows) /\ \A r \in rows : r.x \in Int /\ r.y \in Int
  BY RowParts DEF Rows
<1>1. v \in [rows -> Int] /\ y \in [rows -> Int]
  BY <1>0, Values
<1> HIDE DEF v
<1>2. vv \in [rows -> Int] /\ vy \in [rows -> Int]
  <2>1. ASSUME NEW r \in rows PROVE v[r] * v[r] \in Int /\ v[r] * r.y \in Int
    BY <1>0, <1>1
  <2> QED
    BY <2>1
<1>3. NSum(v) * NSum(v) <= Cardinality(rows) * NSum(vv)
  BY <1>0, <1>1, SquareOfSum, Zenon
<1> HIDE DEF y, vv, vy
<1>4. PICK n \in Nat \ {0} : n = Cardinality(rows)
  BY <1>0, FS_CardinalityType, FS_EmptySet
<1>5. PICK sv \in Int, sy \in Int, svv \in Int, svy \in Int :
        sv = NSum(v) /\ sy = NSum(y) /\ svv = NSum(vv) /\ svy = NSum(vy)
  BY <1>0, <1>1, <1>2, SumBounds
<1>6. PICK den \in Int, num \in Int : den = n * svv - sv * sv /\ num = n * svy - sv * sy
  OBVIOUS
<1>7. den >= 0
  <2>1. sv * sv <= n * svv
    BY <1>3, <1>4, <1>5
  <2>2. sv * sv \in Int /\ n * svv \in Int
    OBVIOUS
  <2> QED
    BY <1>6, <2>1, <2>2
<1>8. LeastSquares(n, sv, sy, den, num) \in LineSet
  <2>1. CASE den = 0
    <3>1. RoundDiv(sy, n) \in Int
      BY RoundsToInt
    <3> QED
      BY <2>1, <3>1 DEF LeastSquares, LineSet
  <2>2. CASE den # 0
    <3>1. den \in Nat \ {0} /\ num * sv \in Int
      BY <1>7, <2>2
    <3>2. PICK d \in Int : d = RoundDiv(num * sv, den)
      BY <3>1, RoundsToInt
    <3>3. sy - d \in Int
      OBVIOUS
    <3>4. RoundDiv(sy - d, n) \in Int
      BY <3>3, RoundsToInt
    <3> QED
      BY <2>2, <3>1, <3>2, <3>4 DEF LeastSquares, LineSet
  <2> QED
    BY <2>1, <2>2
<1>9. Line(u, metric, rows) = LeastSquares(n, sv, sy, den, num)
  BY <1>4, <1>5, <1>6 DEF Line, v, y, vv, vy
<1> QED
  BY <1>8, <1>9

LEMMA Fits ==
    ASSUME NEW u \in UnitSet, NEW metric, NEW rows, Rows(rows), rows # {}
    PROVE  Fitted(u, metric, rows) \in LineSet
<1>1. ASSUME NEW l \in LineSet PROVE Refitted(u, metric, rows, l) \in LineSet
  <2> DEFINE active == {r \in rows : ~Censored(u, metric, l, r)}
  <2>1. Rows(active)
    BY FS_Subset DEF Rows
  <2>2. Refitted(u, metric, rows, l) = IF active = {} THEN l ELSE Line(u, metric, active)
    BY DEF Refitted
  <2> HIDE DEF active
  <2> QED
    BY <2>1, <2>2, Lines
<1>2. Line(u, metric, rows) \in LineSet
  BY Lines
<1> QED
  BY <1>1, <1>2 DEF Fitted

LEMMA Ridges ==
    ASSUME NEW u \in UnitSet, NEW metric, NEW rows, Rows(rows), rows # {}
    PROVE  Ridge(u, metric, rows) \in LineSet
<1> DEFINE v == [r \in rows |-> NValue(u, metric, r.x)]
           y == [r \in rows |-> r.y]
<1>0. IsFiniteSet(rows) /\ \A r \in rows : r.x \in Int /\ r.y \in Int
  BY RowParts DEF Rows
<1>1. v \in [rows -> Int] /\ y \in [rows -> Int]
  BY <1>0, Values
<1> HIDE DEF v, y
<1>2. PICK n \in Nat \ {0} : n = Cardinality(rows)
  BY <1>0, FS_CardinalityType, FS_EmptySet
<1>3. PICK sv \in Int, sy \in Int : sv = NSum(v) /\ sy = NSum(y)
  BY <1>0, <1>1, SumBounds
<1>4. PICK unit \in Nat \ {0} : unit = n * n * One * One
  <2>1. n * n \in Nat \ {0}
    OBVIOUS
  <2>2. PICK k \in Nat \ {0} : k = n * n
    BY <2>1
  <2>3. k * One \in Nat \ {0}
    BY NAssumption
  <2>4. PICK m \in Nat \ {0} : m = k * One
    BY <2>3
  <2>5. m * One \in Nat \ {0}
    BY NAssumption
  <2> QED
    BY <2>2, <2>4, <2>5
<1>5. sv * sv \in Nat
  OBVIOUS
<1>6. PICK den \in Nat \ {0} : den = unit + sv * sv
  BY <1>4, <1>5
<1>7. n * One * One * sy \in Int /\ sv * sy \in Int
  BY NAssumption
<1>8. PICK b \in Int : b = RoundDiv(n * One * One * sy, den)
  BY <1>6, <1>7, RoundsToInt
<1>9. Ridge(u, metric, rows) =
        IF \A r, s \in rows : v[r] = v[s]
        THEN [num |-> sv * sy, den |-> den, b |-> b] ELSE Line(u, metric, rows)
  BY <1>2, <1>3, <1>4, <1>6, <1>8 DEF Ridge, v, y
<1>10. [num |-> sv * sy, den |-> den, b |-> b] \in LineSet
  BY <1>6, <1>7, <1>8 DEF LineSet
<1> QED
  BY <1>9, <1>10, Lines

(* The readout of a fit is well formed under either contract.              *)
LEMMA Solutions ==
    ASSUME NEW u \in UnitSet, NEW metric, NEW rows, Rows(rows), rows # {}
    PROVE  Solved(u, metric, rows) \in LineSet
BY Fits, Ridges DEF Solved

(* The resolution and the centre of a circuit are within their bounds.     *)
LEMMA Deltas ==
    ASSUME NEW rows, Rows(rows), rows # {}, NEW vals \in [rows -> -One .. One]
    PROVE  NDelta(vals, rows) \in 1 .. 8 * One - 1
<1> DEFINE apart == {p \in rows \X rows : p[1].y # p[2].y}
           real == Contrasts(vals, rows)
           sizes == {Magnitude(vals[r]) : r \in rows}
           top == 8 * One - 1
<1>0. top \in Nat /\ top >= 1 /\ One \in Nat /\ One <= top /\ One >= 1
  BY NAssumption
<1>1. real \subseteq Nat
  <2>1. ASSUME NEW p \in apart PROVE Magnitude(vals[p[1]] - vals[p[2]]) \in Nat
    <3>1. vals[p[1]] \in Int /\ vals[p[2]] \in Int
      BY <1>0
    <3>2. PICK i \in Int : i = vals[p[1]] - vals[p[2]]
      BY <3>1
    <3> QED
      BY <3>2 DEF Magnitude
  <2> QED
    BY <2>1 DEF Contrasts
<1>2. \A z \in sizes : z \in 0 .. One
  BY <1>0 DEF Magnitude
<1>3. sizes # {}
  OBVIOUS
<1>4. NMetricDelta(vals, rows) =
        IF real # {} THEN Min({top, Max({1, Min(real) \div 16})})
        ELSE IF Max(sizes) = 0 THEN One ELSE Min({top, Max({1, Max(sizes) \div 16})})
  BY DEF NMetricDelta
<1> HIDE DEF apart, real, sizes, top
<1>5. ASSUME NEW n \in Nat PROVE Min({top, Max({1, n \div 16})}) \in 1 .. top
  <2>1. PICK k \in Int : k = n \div 16
    OBVIOUS
  <2>2. Max({1, k}) \in Int /\ Max({1, k}) >= 1
    BY LargerOf
  <2>3. PICK l \in Int : l = Max({1, k}) /\ l >= 1
    BY <2>2
  <2>4. Min({top, l}) \in 1 .. top
    BY <1>0, <2>3, SmallerOf
  <2> QED
    BY <2>1, <2>3, <2>4
<1>6. ASSUME real # {} PROVE NMetricDelta(vals, rows) \in 1 .. 8 * One - 1
  <2>1. Min(real) \in Nat
    BY <1>1, <1>6, SmallestOf
  <2> QED
    BY <1>4, <1>5, <1>6, <2>1 DEF top
<1>7. ASSUME real = {} PROVE NMetricDelta(vals, rows) \in 1 .. 8 * One - 1
  <2>1. sizes \subseteq Int /\ \E B \in Int : \A z \in sizes : z <= B
    BY <1>0, <1>2
  <2>2. Max(sizes) \in sizes
    BY <1>3, <2>1, LargestOf
  <2>3. CASE Max(sizes) = 0
    BY <1>0, <1>4, <1>7, <2>3 DEF top
  <2>4. CASE Max(sizes) # 0
    BY <1>0, <1>2, <1>4, <1>5, <1>7, <2>2, <2>4 DEF top
  <2> QED
    BY <2>3, <2>4
<1>8. NMetricDelta(vals, rows) \in 1 .. 8 * One - 1
  BY <1>6, <1>7
<1> QED
  BY <1>0, <1>8 DEF NDelta, top

LEMMA Centers ==
    ASSUME NEW rows, Rows(rows), NEW axis \in {-1, 1}
    PROVE  NCenter(axis, rows) \in -One .. One
<1> DEFINE mean == RoundDiv(NSum([r \in rows |-> r.y]), Cardinality(rows))
           high == {r \in rows : r.y > mean}
           low == rows \ high
           proj(class) == NSum([r \in class |-> axis * r.x])
<1>0. One \in Nat
  BY NAssumption
<1>1. NCenter(axis, rows) =
        IF high = {} \/ low = {} THEN 0
        ELSE RoundDiv(proj(high) * Cardinality(low) + proj(low) * Cardinality(high),
                      2 * Cardinality(high) * Cardinality(low))
  BY DEF NCenter
<1>2. ASSUME NEW class, class \subseteq rows, class # {}
      PROVE  /\ proj(class) \in Int /\ Cardinality(class) \in Nat \ {0}
             /\ proj(class) <= One * Cardinality(class)
             /\ -proj(class) <= One * Cardinality(class)
  <2> DEFINE f == [r \in class |-> axis * r.x]
  <2>1. IsFiniteSet(class)
    BY <1>2, FS_Subset DEF Rows
  <2>2. \A r \in class : f[r] \in -One .. One
    <3>1. \A r \in class : r.x \in -One .. One
      BY <1>2, RowParts DEF Rows
    <3> QED
      BY <1>0, <3>1
  <2>3. f \in [class -> Int]
    BY <1>0, <2>2
  <2>4. proj(class) = NSum(f)
    OBVIOUS
  <2> HIDE DEF f
  <2>5. NSum(f) \in Int /\ NSum(f) <= One * Cardinality(class)
        /\ -NSum(f) <= One * Cardinality(class)
    BY <1>0, <2>1, <2>2, <2>3, SumBounds
  <2>6. Cardinality(class) \in Nat \ {0}
    BY <1>2, <2>1, FS_CardinalityType, FS_EmptySet
  <2> QED
    BY <2>4, <2>5, <2>6
<1>3. high \subseteq rows /\ low \subseteq rows
  OBVIOUS
<1> HIDE DEF mean, high, low, proj
<1>4. CASE high = {} \/ low = {}
  BY <1>0, <1>1, <1>4
<1>5. CASE high # {} /\ low # {}
  <2>1. PICK h \in Int, k \in Int, m \in Nat \ {0}, n \in Nat \ {0} :
          /\ h = proj(high) /\ k = proj(low) /\ m = Cardinality(high) /\ n = Cardinality(low)
          /\ h <= One * m /\ -h <= One * m /\ k <= One * n /\ -k <= One * n
    BY <1>2, <1>3, <1>5
  <2>2. h * n <= (One * m) * n /\ -(h * n) <= (One * m) * n
    BY <1>0, <2>1
  <2>3. k * m <= (One * n) * m /\ -(k * m) <= (One * n) * m
    BY <1>0, <2>1
  <2>4. /\ (One * m) * n = One * (m * n) /\ (One * n) * m = One * (m * n)
        /\ One * (2 * m * n) = 2 * (One * (m * n))
    BY <1>0
  <2>5. PICK a \in Int, b \in Nat \ {0} : a = h * n + k * m /\ b = 2 * m * n
    BY <2>1
  <2>6. a <= One * b /\ -a <= One * b
    <3>1. PICK i \in Int, j \in Int, w \in Int :
            i = h * n /\ j = k * m /\ w = One * (m * n)
      BY <1>0
    <3> QED
      BY <2>2, <2>3, <2>4, <2>5, <3>1
  <2>7. RoundDiv(a, b) \in -One .. One
    BY <1>0, <2>5, <2>6, RoundsWithin
  <2> QED
    BY <1>1, <1>5, <2>1, <2>5, <2>7
<1> QED
  BY <1>4, <1>5

-----------------------------------------------------------------------------
(* The trials of a lesson.                                                 *)

Teachings(l) ==
    /\ l.q \in Query /\ Rows(l.fit) /\ Rows(l.check) /\ l.fit # {} /\ l.check # {}
    /\ \A r \in l.check : r.q = l.q

(* A model that may be installed: readable, metric only under the contract *)
(* that has metric readouts, and knowing what was known.                   *)
Fair(before, l, m) ==
    /\ Readable(m)
    /\ \A q \in Query : m.heads[q].metric => nContract = "v6"
    /\ \A q \in Query : before.heads[q].known => m.heads[q].known
    /\ m = before \/ m.heads[l.q].known
Trial(before, l, t) == Fair(before, l, t.model) /\ t.err \in Nat

LEMMA FitIsFair ==
    ASSUME NEW before, NEW l, Teachings(l), Fair(before, l, before),
           NEW unit \in UnitSet, NEW metric \in BOOLEAN, metric => nContract = "v6"
    PROVE  Fair(before, l, NFit(Model(unit, before.heads), l.q, metric, l.fit))
<1> DEFINE hs == before.heads
<1>1. PICK f : f = Solved(unit, metric, l.fit) /\ f \in LineSet
  BY Solutions DEF Teachings
<1>2. PICK m : m = NFit(Model(unit, hs), l.q, metric, l.fit)
  OBVIOUS
<1>3. /\ m.unit = unit
      /\ m.heads = [hs EXCEPT ![l.q] = [@ EXCEPT !.known = TRUE, !.metric = metric,
                                                !.num = f.num, !.den = f.den, !.b = f.b]]
  BY <1>1, <1>2 DEF NFit, WithLine, Model
<1>4. hs \in [Query -> HeadSet] /\ l.q \in Query
  BY DEF Fair, Readable, Teachings
<1>5. f.num \in Int /\ f.den \in Nat \ {0} /\ f.b \in Int
  BY <1>1 DEF LineSet
<1>6. PICK h : h = [hs[l.q] EXCEPT !.known = TRUE, !.metric = metric,
                                  !.num = f.num, !.den = f.den, !.b = f.b]
  OBVIOUS
<1>7. h \in HeadSet /\ h.known = TRUE /\ h.metric = metric
  BY <1>4, <1>5, <1>6 DEF HeadSet
<1>8. m.heads = [hs EXCEPT ![l.q] = h]
  BY <1>3, <1>6
<1> HIDE DEF hs
<1>9. /\ m.heads \in [Query -> HeadSet] /\ m.heads[l.q] = h
      /\ \A q \in Query : q # l.q => m.heads[q] = hs[q]
  BY <1>4, <1>7, <1>8
<1>10. Readable(m)
  BY <1>3, <1>9 DEF Readable
<1>11. \A q \in Query : m.heads[q].metric => nContract = "v6"
  BY <1>7, <1>9 DEF Fair, hs
<1>12. \A q \in Query : before.heads[q].known => m.heads[q].known
  BY <1>7, <1>9 DEF hs
<1>13. Fair(before, l, m)
  BY <1>7, <1>9, <1>10, <1>11, <1>12 DEF Fair
<1> QED
  BY <1>2, <1>13 DEF hs

LEMMA TrialsAreFair ==
    ASSUME NEW before, NEW l, Teachings(l), Fair(before, l, before),
           NEW t, Trial(before, l, t), NEW cause, NEW unit \in UnitSet
    PROVE  Trial(before, l, BothModes(before, t, l, cause, unit))
<1>1. ASSUME NEW metric \in BOOLEAN, NEW s, Trial(before, l, s)
      PROVE  Trial(before, l, Consider(before, s, l, cause, unit, metric))
  <2>1. PICK m : m = NFit(Model(unit, before.heads), l.q, metric, l.fit)
    OBVIOUS
  <2>2. Consider(before, s, l, cause, unit, metric) = Judge(before, s, l, cause, metric, m)
    BY <2>1 DEF Consider
  <2>3. CASE ~Eligible(before, s, l, m, metric)
    BY <1>1, <2>2, <2>3 DEF Judge
  <2>4. CASE Eligible(before, s, l, m, metric)
    <3>1. metric => nContract = "v6"
      BY <2>4 DEF Eligible
    <3>2. Fair(before, l, m)
      BY <2>1, <3>1, FitIsFair
    <3>3. NError(m, l.check) \in Nat
      BY <3>2, Errors DEF Fair, Teachings
    <3>4. /\ Judge(before, s, l, cause, metric, m).model = m
          /\ Judge(before, s, l, cause, metric, m).err = NError(m, l.check)
      BY <2>4 DEF Judge
    <3> QED
      BY <2>2, <3>2, <3>3, <3>4 DEF Trial
  <2> QED
    BY <2>3, <2>4
<1>2. PICK s : s = Consider(before, t, l, cause, unit, FALSE) /\ Trial(before, l, s)
  BY <1>1
<1>3. Trial(before, l, Consider(before, s, l, cause, unit, TRUE))
  BY <1>1, <1>2
<1> QED
  BY <1>2, <1>3 DEF BothModes

LEMMA Projections ==
    ASSUME NEW rows, Rows(rows), NEW axis \in {-1, 1}
    PROVE  [r \in rows |-> axis * r.x] \in [rows -> -One .. One]
<1>1. \A r \in rows : r.x \in -One .. One /\ One \in Nat
  BY RowParts, NAssumption DEF Rows
<1>2. \A r \in rows : axis * r.x \in -One .. One
  BY <1>1
<1> QED
  BY <1>2

(* Whatever the diagnosis finds, the result can be read.                   *)
LEMMA DiagnosisIsFair ==
    ASSUME NEW before, NEW l, Teachings(l), Fair(before, l, before)
    PROVE  Trial(before, l, Diagnose(before, l))
<1> DEFINE t0 == Start(before, l)
           t1 == TryReadout(before, t0, l)
           t2 == TryResolution(before, t1, l)
           t3 == TryGrowth(before, t2, l)
<1>0. Trial(before, l, t0)
  <2>1. NError(before, l.check) \in Nat
    BY Errors DEF Fair, Teachings
  <2> QED
    BY <2>1 DEF Start, Trial
<1> HIDE DEF t0
<1>u. before.unit \in UnitSet
  BY DEF Fair, Readable
<1>1. Trial(before, l, t1)
  BY <1>0, <1>u, TrialsAreFair DEF TryReadout
<1> HIDE DEF t1
<1>2. Trial(before, l, t2)
  <2> DEFINE u == before.unit
             seen == NDelta([r \in l.fit |-> u.axis * r.x], l.fit)
             finer == IF l.goal > 0 /\ NMetricQuality(t1.model, l.q, l.check) > l.goal
                      THEN Min({seen, Max({1, u.delta \div 16})}) ELSE seen
             delta == IF nContract = "v6" THEN finer ELSE seen
  <2>1. t2 = IF u # NoUnit /\ 2 * delta < u.delta
             THEN BothModes(before, t1, l, "resolution", [u EXCEPT !.delta = delta]) ELSE t1
    BY DEF TryResolution
  <2>2. CASE u # NoUnit
    <3>1. /\ u \in [axis : {-1, 1}, center : -One .. One, delta : 1 .. 8 * One - 1]
          /\ u.axis \in {-1, 1} /\ u.delta \in Nat
      BY <1>u, <2>2, NAssumption DEF UnitSet
    <3>2. seen \in 1 .. 8 * One - 1
      <4>1. Rows(l.fit) /\ l.fit # {}
        BY DEF Teachings
      <4>2. [r \in l.fit |-> u.axis * r.x] \in [l.fit -> -One .. One]
        BY <3>1, <4>1, Projections
      <4> QED
        BY <4>1, <4>2, Deltas
    <3> HIDE DEF seen
    <3>3. finer \in 1 .. 8 * One - 1
      <4>1. PICK k \in Int : k = u.delta \div 16
        BY <3>1
      <4>2. PICK j \in Int : j = Max({1, k}) /\ j >= 1
        BY LargerOf
      <4>3. 8 * One - 1 \in Int /\ seen \in Int
        BY <3>2, NAssumption
      <4>4. Min({seen, j}) \in 1 .. 8 * One - 1
        BY <3>2, <4>2, <4>3, SmallerOf
      <4> QED
        BY <3>2, <4>1, <4>2, <4>4
    <3> HIDE DEF finer
    <3>4. delta \in 1 .. 8 * One - 1
      BY <3>2, <3>3
    <3> HIDE DEF delta
    <3>5. [u EXCEPT !.delta = delta] \in UnitSet
      BY <3>1, <3>4 DEF UnitSet
    <3>6. Trial(before, l, BothModes(before, t1, l, "resolution", [u EXCEPT !.delta = delta]))
      BY <1>1, <3>5, TrialsAreFair
    <3> QED
      BY <1>1, <2>1, <3>6
  <2>3. CASE u = NoUnit
    BY <1>1, <2>1, <2>3
  <2> QED
    BY <2>2, <2>3
<1> HIDE DEF t2
<1>3. Trial(before, l, t3)
  <2> DEFINE axis == Direction(t2.model, l.fit)
             unit == [axis |-> axis, center |-> NCenter(axis, l.fit),
                      delta |-> NDelta([r \in l.fit |-> axis * r.x], l.fit)]
  <2>1. t3 = IF before.unit = NoUnit /\ axis # 0
             THEN BothModes(before, t2, l, "missing-direction", unit) ELSE t2
    BY DEF TryGrowth
  <2>2. axis \in {-1, 0, 1}
    BY DEF Direction
  <2> HIDE DEF axis
  <2>3. CASE axis # 0
    <3>1. axis \in {-1, 1} /\ Rows(l.fit) /\ l.fit # {}
      BY <2>2, <2>3 DEF Teachings
    <3>2. NCenter(axis, l.fit) \in -One .. One
      BY <3>1, Centers
    <3>3. NDelta([r \in l.fit |-> axis * r.x], l.fit) \in 1 .. 8 * One - 1
      BY <3>1, Projections, Deltas
    <3>4. unit \in UnitSet
      BY <3>1, <3>2, <3>3 DEF UnitSet
    <3> HIDE DEF unit
    <3>5. Trial(before, l, BothModes(before, t2, l, "missing-direction", unit))
      BY <1>2, <3>4, TrialsAreFair
    <3> QED
      BY <1>2, <2>1, <3>5
  <2>4. CASE axis = 0
    BY <1>2, <2>1, <2>4
  <2> QED
    BY <2>3, <2>4
<1> HIDE DEF t3
<1> QED
  BY <1>3 DEF Diagnose, t3, t2, t1, t0

-----------------------------------------------------------------------------
(* The witnesses of a full store: every query keeps no more than its share, *)
(* and the shares together are no more than the store may hold.            *)

LEMMA SharesFit ==
    ASSUME NEW K, IsFiniteSet(K), NEW c \in Nat, NEW kept, IsFiniteSet(kept),
           \A r \in kept : r.q \in K,
           \A q \in K : Cardinality({r \in kept : r.q = q}) <= c
    PROVE  Cardinality(kept) <= c * Cardinality(K)
<1> DEFINE Of(s) == {r \in kept : r.q \in s}
           T == {s \in SUBSET K : Cardinality(Of(s)) <= c * Cardinality(s)}
<1>1. {} \in T
  <2>1. Of({}) = {}
    OBVIOUS
  <2>2. Cardinality({}) = 0
    BY FS_EmptySet
  <2> QED
    BY <2>1, <2>2
<1>2. ASSUME NEW s \in SUBSET K, s # {}, s \ {Element(s)} \in T PROVE s \in T
  <2>1. Element(s) \in s
    BY <1>2, Zenon DEF Element
  <2>2. PICK e \in K, r \in T : e \in s /\ r = s \ {e}
    BY <1>2, <2>1
  <2> DEFINE mine == {w \in kept : w.q = e}
  <2>3. Of(s) = Of(r) \cup mine
    BY <2>2
  <2>4. IsFiniteSet(Of(r)) /\ IsFiniteSet(mine) /\ IsFiniteSet(Of(r) \cap mine)
    BY FS_Subset
  <2>5. Cardinality(mine) <= c
    OBVIOUS
  <2>6. Cardinality(Of(r)) <= c * Cardinality(r)
    BY <2>2
  <2> HIDE DEF mine, Of
  <2>7. Cardinality(Of(s)) = Cardinality(Of(r)) + Cardinality(mine) - Cardinality(Of(r) \cap mine)
    BY <2>3, <2>4, FS_Union
  <2>8. IsFiniteSet(s)
    BY FS_Subset
  <2>9. Cardinality(s) \in Nat /\ Cardinality(r) = Cardinality(s) - 1
    BY <2>2, <2>8, FS_RemoveElement, FS_CardinalityType
  <2>10. PICK a \in Nat, b \in Nat, d \in Nat, n \in Int :
           /\ a = Cardinality(Of(r)) /\ b = Cardinality(mine) /\ d = Cardinality(Of(r) \cap mine)
           /\ n = Cardinality(r)
    BY <2>4, <2>9, FS_CardinalityType
  <2>11. c * (n + 1) = c * n + c /\ c * n \in Int
    OBVIOUS
  <2>12. a + b - d <= c * (n + 1)
    BY <2>5, <2>6, <2>10, <2>11
  <2>13. Cardinality(s) = n + 1
    BY <2>9, <2>10
  <2> QED
    BY <2>7, <2>10, <2>12, <2>13
<1>3. Of(K) = kept
  OBVIOUS
<1> HIDE DEF T, Of
<1>4. SUBSET K \subseteq T
  BY <1>1, <1>2, SetInduction
<1>5. K \in T
  BY <1>4
<1> QED
  BY <1>3, <1>5 DEF T

LEMMA StoreIsBounded ==
    ASSUME NEW heads \in [Query -> HeadSet], NEW p \in Query, heads[p].known,
           NEW rows, Rows(rows), \A r \in rows : heads[r.q].known,
           NEW kept \in NBalancedWitnesses(heads, rows)
    PROVE  kept \subseteq rows /\ Cardinality(kept) <= MaxNWitnesses
<1>1. CASE Cardinality(rows) <= MaxNWitnesses
  BY <1>1 DEF NBalancedWitnesses
<1>2. CASE ~(Cardinality(rows) <= MaxNWitnesses)
  <2> DEFINE K == {q \in Query : heads[q].known}
  <2>1. kept \in SUBSET rows /\ Kept(heads, rows, kept)
    BY <1>2 DEF NBalancedWitnesses
  <2>2. IsFiniteSet(K) /\ p \in K
    BY NAssumption, FS_Subset
  <2>3. PICK k \in Nat \ {0} : k = Cardinality(K)
    BY <2>2, FS_CardinalityType, FS_EmptySet
  <2>4. Share(heads) = MaxNWitnesses \div k
    BY <2>3 DEF Share
  <2>5. PICK c \in Nat : c = Share(heads) /\ c * k <= MaxNWitnesses
    <3>1. MaxNWitnesses \in Nat
      BY NAssumption
    <3>2. PICK c \in Int : c = MaxNWitnesses \div k /\ c >= 0 /\ c * k <= MaxNWitnesses
      BY <3>1
    <3> QED
      BY <2>4, <3>2
  <2>6. IsFiniteSet(kept) /\ \A r \in kept : r.q \in K
    <3>1. \A r \in kept : r.q \in Query /\ heads[r.q].known
      BY <2>1, RowParts DEF Rows
    <3> QED
      BY <2>1, <3>1, FS_Subset DEF Rows
  <2>7. ASSUME NEW q \in K PROVE Cardinality({r \in kept : r.q = q}) <= c
    <3> DEFINE group == Distinct({r \in rows : r.q = q})
    <3>1. Cardinality({r \in kept : r.q = q}) = Min({Cardinality(group), Share(heads)})
      BY <2>1 DEF Kept
    <3>2. Cardinality(group) \in Nat
      <4>1. group \subseteq rows
        BY DEF Distinct
      <4>2. IsFiniteSet(group)
        BY <4>1, FS_Subset DEF Rows
      <4> QED
        BY <4>2, FS_CardinalityType
    <3> HIDE DEF group
    <3>3. PICK g \in Nat : g = Cardinality(group)
      BY <3>2
    <3>4. Min({g, c}) <= c
      BY SmallerOf
    <3> QED
      BY <2>5, <3>1, <3>3, <3>4
  <2> HIDE DEF K
  <2>8. Cardinality(kept) <= c * Cardinality(K)
    BY <2>2, <2>6, <2>7, SharesFit
  <2>9. Cardinality(kept) \in Nat /\ c * k \in Nat /\ MaxNWitnesses \in Nat
    BY <2>6, FS_CardinalityType, NAssumption
  <2> QED
    BY <2>1, <2>3, <2>5, <2>8, <2>9
<1> QED
  BY <1>1, <1>2

-----------------------------------------------------------------------------
(* What every lesson leaves can be restored.                               *)

LessonInd ==
    /\ nTaught \in Nat
    /\ Readable(Model(nUnit, nHeads))
    /\ \A q \in Query : nHeads[q].metric => nContract = "v6"
    /\ Rows(nWitnesses) /\ Cardinality(nWitnesses) <= MaxNWitnesses
    /\ \A r \in nWitnesses : nHeads[r.q].known

LEMMA LessonIsTeaching ==
    ASSUME LessonInd, NEW q \in Query, NEW points \in NPoints[q], NEW goal
    PROVE  Teachings(Lesson(q, points, goal)) /\ Lesson(q, points, goal).q = q
<1> DEFINE rows(ep) == {[q |-> q, x |-> p[1], y |-> p[2], ep |-> ep] : p \in points}
           own == {r \in nWitnesses : r.q = q}
           l == Lesson(q, points, goal)
<1>1. /\ l.q = q /\ l.check = rows(2 * nTaught + 1) /\ l.fit = rows(2 * nTaught) \cup own
  BY DEF Lesson
<1>2. points # {} /\ IsFiniteSet(points) /\ points \subseteq (-One .. One) \X (-One .. One)
  BY NPointsAssumption
<1>3. ASSUME NEW ep \in Nat
      PROVE  Rows(rows(ep)) /\ rows(ep) # {} /\ \A r \in rows(ep) : r.q = q
  <2> DEFINE row == [p \in points |-> [q |-> q, x |-> p[1], y |-> p[2], ep |-> ep]]
  <2>1. row \in Surjection(points, rows(ep))
    BY DEF Surjection
  <2>2. IsFiniteSet(rows(ep))
    BY <1>2, <2>1, FS_Surjection
  <2>3. \A p \in points : [q |-> q, x |-> p[1], y |-> p[2], ep |-> ep] \in RowSet
    BY <1>2 DEF RowSet
  <2>4. rows(ep) \subseteq RowSet
    BY <2>3
  <2>5. rows(ep) # {}
    BY <1>2
  <2>6. \A r \in rows(ep) : r.q = q
    OBVIOUS
  <2> QED
    BY <2>2, <2>4, <2>5, <2>6 DEF Rows
<1>4. Rows(own)
  BY FS_Subset DEF LessonInd, Rows
<1>5. 2 * nTaught \in Nat /\ 2 * nTaught + 1 \in Nat
  BY DEF LessonInd
<1> HIDE DEF l, own
<1>6. Rows(l.check) /\ l.check # {} /\ \A r \in l.check : r.q = q
  BY <1>1, <1>3, <1>5
<1>7. Rows(l.fit) /\ l.fit # {}
  <2>1. PICK fresh : fresh = rows(2 * nTaught) /\ Rows(fresh) /\ fresh # {}
    BY <1>3, <1>5
  <2> HIDE DEF rows
  <2>2. l.fit = fresh \cup own
    BY <1>1, <2>1
  <2>3. IsFiniteSet(fresh \cup own)
    BY <1>4, <2>1, FS_Union DEF Rows
  <2> QED
    BY <1>4, <2>1, <2>2, <2>3 DEF Rows
<1>8. Teachings(l) /\ l.q = q
  BY <1>1, <1>6, <1>7 DEF Teachings
<1> QED
  BY <1>8 DEF l

(* What a lesson without a verdict leaves: the readout of its query at most *)
(* less certain.                                                           *)
LEMMA ConflictKeeps ==
    ASSUME LessonInd, NEW l, Teachings(l), Conflicting(Model(nUnit, nHeads), l),
           nContract' = nContract, nTaught' \in Nat
    PROVE  LessonInd'
<1> DEFINE before == Model(nUnit, nHeads)
           all == Evidence(l)
           worst == NMetricMaximumError(before, all)
           ms == IF nContract = "v6" THEN RoundDiv(NError(before, all), Cardinality(all))
                                     ELSE worst * worst
<1>1. before.unit = nUnit /\ before.heads = nHeads /\ Readable(before)
  BY DEF Model, LessonInd
<1>2. Rows(all) /\ all # {}
  BY FS_Union DEF Teachings, Evidence, Rows
<1>3. nUnit' = nUnit /\ nWitnesses' = nWitnesses
  BY DEF Conflicting
<1>4. nHeads' = IF nHeads[l.q].known
                THEN [nHeads EXCEPT ![l.q].ms = ms,
                                    ![l.q].max = IF nContract = "v6" THEN worst ELSE @]
                ELSE nHeads
  BY DEF Conflicting
<1> HIDE DEF before, all
<1>5. worst \in 0 .. 2 * One /\ NError(before, all) \in Nat
  BY <1>1, <1>2, Errors
<1>6. Cardinality(all) \in Nat \ {0}
  BY <1>2, FS_CardinalityType, FS_EmptySet DEF Rows
<1>7. ms \in Nat
  <2>1. RoundDiv(NError(before, all), Cardinality(all)) \in Nat
    BY <1>5, <1>6, RoundsToInt
  <2>2. worst * worst \in Nat
    <3>1. worst \in Nat
      BY <1>5, NAssumption
    <3> HIDE DEF worst
    <3> QED
      BY <3>1
  <2> QED
    BY <2>1, <2>2
<1> HIDE DEF worst, ms
<1>8. nHeads \in [Query -> HeadSet] /\ l.q \in Query
  BY <1>1 DEF Readable, Teachings
<1>9. /\ nHeads' \in [Query -> HeadSet]
      /\ \A q \in Query : /\ nHeads'[q].metric = nHeads[q].metric
                           /\ nHeads'[q].known = nHeads[q].known
  <2>1. CASE ~nHeads[l.q].known
    BY <1>4, <1>8, <2>1
  <2>2. CASE nHeads[l.q].known
    <3>1. PICK h : h = [nHeads[l.q] EXCEPT !.ms = ms,
                                          !.max = IF nContract = "v6" THEN worst ELSE @]
      OBVIOUS
    <3>2. h \in HeadSet /\ h.metric = nHeads[l.q].metric /\ h.known = nHeads[l.q].known
      BY <1>5, <1>7, <1>8, <3>1 DEF HeadSet
    <3>3. nHeads' = [nHeads EXCEPT ![l.q] = h]
      BY <1>4, <1>8, <2>2, <3>1
    <3> QED
      BY <1>8, <3>2, <3>3
  <2> QED
    BY <2>1, <2>2
<1>10. Readable(Model(nUnit', nHeads'))
  BY <1>1, <1>3, <1>9 DEF Readable, Model
<1>11. \A r \in nWitnesses : r.q \in Query
  BY RowParts DEF LessonInd, Rows
<1> QED
  BY <1>3, <1>9, <1>10, <1>11 DEF LessonInd

(* A lesson that commits installs a fair model, measured again, and keeps  *)
(* of its check rows and the witnesses what the store has room for.        *)
LEMMA CommitKeeps ==
    ASSUME LessonInd, NEW l, Teachings(l), NEW t, Trial(Model(nUnit, nHeads), l, t),
           Committed(Model(nUnit, nHeads), l, t), nContract' = nContract, nTaught' \in Nat
    PROVE  LessonInd'
<1> DEFINE before == Model(nUnit, nHeads)
           m == t.model
           support == l.check \cup {r \in nWitnesses : r.q = l.q}
<1>1. before.unit = nUnit /\ before.heads = nHeads
  BY DEF Model
<1>2. /\ m # before /\ nUnit' = m.unit /\ nHeads' = Installed(before, t, l)
      /\ nWitnesses' \in NBalancedWitnesses(nHeads', nWitnesses \cup l.check)
  BY DEF Committed
<1>3. Fair(before, l, m) /\ t.err \in Nat
  BY DEF Trial
<1>4. PICK ms \in Nat, max \in 0 .. 2 * One :
        nHeads' = [m.heads EXCEPT ![l.q] = [@ EXCEPT !.ms = ms, !.max = max]]
  <2>1. Rows(support)
    BY FS_Union, FS_Subset DEF Teachings, LessonInd, Rows
  <2>2. NMetricMaximumError(m, support) \in 0 .. 2 * One
    BY <1>3, <2>1, Errors DEF Fair
  <2>3. Cardinality(l.check) \in Nat \ {0}
    BY FS_CardinalityType, FS_EmptySet DEF Teachings, Rows
  <2>4. RoundDiv(t.err, Cardinality(l.check)) \in Nat
    BY <1>3, <2>3, RoundsToInt
  <2> QED
    BY <1>2, <2>2, <2>4 DEF Installed
<1> HIDE DEF before, m
<1>5. m.heads \in [Query -> HeadSet] /\ l.q \in Query /\ m.unit \in UnitSet
  BY <1>3 DEF Fair, Readable, Teachings
<1>6. PICK h : h = [m.heads[l.q] EXCEPT !.ms = ms, !.max = max]
  OBVIOUS
<1>7. h \in HeadSet /\ h.metric = m.heads[l.q].metric /\ h.known = m.heads[l.q].known
  BY <1>4, <1>5, <1>6 DEF HeadSet
<1>8. nHeads' = [m.heads EXCEPT ![l.q] = h]
  BY <1>4, <1>6
<1>9. /\ nHeads' \in [Query -> HeadSet]
      /\ \A q \in Query : /\ nHeads'[q].metric = m.heads[q].metric
                           /\ nHeads'[q].known = m.heads[q].known
  BY <1>5, <1>7, <1>8
<1>10. Readable(Model(nUnit', nHeads'))
  BY <1>2, <1>5, <1>9 DEF Readable, Model
<1>11. nHeads'[l.q].known /\ \A q \in Query : nHeads[q].known => nHeads'[q].known
  BY <1>1, <1>2, <1>3, <1>5, <1>9 DEF Fair
<1>12. \A q \in Query : nHeads'[q].metric => nContract' = "v6"
  BY <1>3, <1>9 DEF Fair
<1>13. Rows(nWitnesses \cup l.check) /\ \A r \in nWitnesses \cup l.check : nHeads'[r.q].known
  <2>1. Rows(nWitnesses \cup l.check)
    BY FS_Union DEF Teachings, LessonInd, Rows
  <2>2. \A r \in nWitnesses : r.q \in Query
    BY RowParts DEF LessonInd, Rows
  <2> QED
    BY <1>11, <2>1, <2>2 DEF LessonInd, Teachings
<1>14. nWitnesses' \subseteq nWitnesses \cup l.check /\ Cardinality(nWitnesses') <= MaxNWitnesses
  BY <1>2, <1>5, <1>9, <1>11, <1>13, StoreIsBounded
<1>15. Rows(nWitnesses') /\ \A r \in nWitnesses' : nHeads'[r.q].known
  BY <1>13, <1>14, FS_Subset DEF Rows
<1> QED
  BY <1>10, <1>12, <1>14, <1>15 DEF LessonInd

LEMMA LessonKeepsReadable ==
    ASSUME LessonInd, NEW q \in Query, NEW points \in NPoints[q], NEW goal,
           NLearn(Model(nUnit, nHeads), Lesson(q, points, goal))
    PROVE  LessonInd'
<1> DEFINE before == Model(nUnit, nHeads)
<1>1. PICK l : l = Lesson(q, points, goal)
  OBVIOUS
<1>2. Teachings(l)
  BY <1>1, LessonIsTeaching
<1>3. nContract' = nContract /\ nTaught' = nTaught + 1 /\ nTaught' \in Nat
  BY DEF NLearn, LessonInd
<1>4. Conflicting(before, l) \/ Conclude(before, l, Diagnose(before, l))
  BY <1>1 DEF NLearn
<1>5. CASE Conflicting(before, l)
  BY <1>2, <1>3, <1>5, ConflictKeeps
<1>6. CASE Conclude(before, l, Diagnose(before, l))
  <2>1. Fair(before, l, before)
    <3>1. before.heads = nHeads
      BY DEF Model
    <3> QED
      BY <3>1 DEF LessonInd, Fair
  <2>2. PICK t : t = Diagnose(before, l) /\ Trial(before, l, t)
    BY <1>2, <2>1, DiagnosisIsFair
  <2>3. CASE Committed(before, l, t)
    BY <1>2, <1>3, <2>2, <2>3, CommitKeeps
  <2>4. CASE Unsolved(before, l, t)
    <3>1. UNCHANGED <<nUnit, nHeads, nWitnesses>>
      BY <2>4 DEF Unsolved
    <3> QED
      BY <1>3, <3>1 DEF LessonInd
  <2> QED
    BY <1>6, <2>2, <2>3, <2>4 DEF Conclude
<1> QED
  BY <1>4, <1>5, <1>6

THEOREM LessonInvariance == NSpec => []LessonInd
<1>1. NInit => LessonInd
  <2> SUFFICES ASSUME NInit PROVE LessonInd
    OBVIOUS
  <2>1. NoReadout \in HeadSet
    BY NAssumption DEF NoReadout, HeadSet
  <2>2. Readable(Model(nUnit, nHeads))
    BY <2>1 DEF NInit, Readable, Model, UnitSet
  <2>3. \A q \in Query : nHeads[q].metric = FALSE
    BY DEF NInit, NoReadout
  <2>4. Rows({}) /\ Cardinality({}) = 0 /\ MaxNWitnesses \in Nat
    BY FS_EmptySet, NAssumption DEF Rows
  <2> QED
    BY <2>2, <2>3, <2>4 DEF NInit, LessonInd
<1>2. LessonInd /\ [NNext]_nVars => LessonInd'
  <2> SUFFICES ASSUME LessonInd, [NNext]_nVars PROVE LessonInd'
    OBVIOUS
  <2>1. CASE NNext
    BY <2>1, LessonKeepsReadable DEF NNext
  <2>2. CASE UNCHANGED nVars
    BY <2>2 DEF nVars, LessonInd
  <2> QED
    BY <2>1, <2>2
<1> QED
  BY <1>1, <1>2, PTL DEF NSpec

(* Whatever lessons were taught, what is saved passes the checks of a      *)
(* restore: resolutions and centres in their range, squares and errors of   *)
(* every readout in theirs, no more witnesses than the store may hold, each *)
(* of a query with a readout (validateNResolutionState).                   *)
THEOREM LessonsRestore == NSpec => []NRestorable
<1>1. LessonInd => NRestorable
  <2> SUFFICES ASSUME LessonInd PROVE NRestorable
    OBVIOUS
  <2>1. nUnit \in UnitSet /\ nHeads \in [Query -> HeadSet]
    BY DEF LessonInd, Readable, Model
  <2>2. ValidUnits
    BY <2>1, NAssumption DEF ValidUnits, UnitSet, Magnitude
  <2>3. ValidHeads
    BY <2>1 DEF ValidHeads, HeadSet, LessonInd
  <2>4. ValidWitnesses
    BY DEF ValidWitnesses, LessonInd
  <2> QED
    BY <2>2, <2>3, <2>4 DEF NRestorable
<1> QED
  BY <1>1, LessonInvariance, PTL

-----------------------------------------------------------------------------
(* Perception: what every substrate keeps.                                 *)

FieldScopes == UNION {{SensorFieldScope(c[k]) : k \in DOMAIN c} : c \in UCapture}
Scopes == {Unscoped, Written} \cup FieldScopes
Populations == [scope : Scopes, bootstrap : BOOLEAN, proto : Int, units : Seq(Nat)]
Readings == [scope : Scopes, value : Int]
Substrates == [pops : Seq(Populations), rep : Seq(Int), heard : Seq(Readings)]

Bootstrap(pop) == pop.bootstrap = TRUE

(* A population of an experience keeps the reading it was recruited for. *)
PrototypesHeard(s) ==
    /\ Len(s.heard) = Len(s.pops)
    /\ \A i \in DOMAIN s.pops :
         /\ Bootstrap(s.pops[i]) => s.pops[i].scope = Unscoped /\ s.heard[i] = NoReading
         /\ ~Bootstrap(s.pops[i]) => /\ s.pops[i].proto \in 0..UTop
                                     /\ s.heard[i].scope = s.pops[i].scope
                                     /\ s.heard[i].value = s.pops[i].proto

(* Two readings that would not recover each other's population. *)
Confusable(scope, x, y) == IF scope \in FieldScopes THEN Away(x, y) <= UNear ELSE x = y

PrototypesApart(s) ==
    \A i, j \in DOMAIN s.pops :
      /\ ~Bootstrap(s.pops[i]) /\ ~Bootstrap(s.pops[j]) /\ s.pops[i].scope = s.pops[j].scope
      /\ Confusable(s.pops[i].scope, s.pops[i].proto, s.pops[j].proto)
      => i = j

Recoverable(s) ==
    \A i \in DOMAIN s.pops :
      ~Bootstrap(s.pops[i]) /\ s.pops[i].scope = Unscoped => Len(s.pops[i].units) = USize

UnitsSound(s) ==
    \A i \in DOMAIN s.pops :
      /\ s.pops[i].units # <<>> /\ Range(s.pops[i].units) \subseteq DOMAIN s.rep
      /\ IsInjective(s.pops[i].units)

UnitsApart(s) ==
    \A i, j \in DOMAIN s.pops :
      s.pops[i].scope \in FieldScopes /\ s.pops[j].scope # s.pops[i].scope
      => Range(s.pops[i].units) \cap Range(s.pops[j].units) = {}

Sound(s) ==
    /\ s \in Substrates
    /\ PrototypesHeard(s) /\ PrototypesApart(s) /\ Recoverable(s)
    /\ UnitsSound(s) /\ UnitsApart(s)

(* Populations are only ever added. *)
Extends(old, s) ==
    \A i \in DOMAIN old.pops : i \in DOMAIN s.pops /\ s.pops[i] = old.pops[i]

(* A projection answers with a population of the scope it was asked for. *)
Answers(old, scope, answer) ==
    /\ Sound(answer.s) /\ Extends(old, answer.s)
    /\ answer.pop \in DOMAIN answer.s.pops /\ answer.s.pops[answer.pop].scope = scope

(* Readings without a scope, written words and sensory fields have scopes  *)
(* of their own: a sensor's kind is none of the built-in ones.             *)
LEMMA ScopesDiffer ==
    /\ Unscoped # Written /\ Unscoped \notin FieldScopes /\ Written \notin FieldScopes
<1>1. Unscoped.kind = "none" /\ Written.kind = "written-neural-v2" /\ Unscoped # Written
  BY DEF Unscoped, Written, Scope
<1>2. ASSUME NEW scope \in FieldScopes
      PROVE  scope.kind \notin {"none", "written-neural-v2"}
  <2>1. PICK c \in UCapture : \E k \in DOMAIN c : scope = SensorFieldScope(c[k])
    BY <1>2 DEF FieldScopes
  <2>3. PICK k \in DOMAIN c : scope = SensorFieldScope(c[k])
    BY <2>1
  <2>2. c[k].kind \in STRING \ {"none", "written-neural-v2"}
    <3> DEFINE F == [id : STRING, kind : STRING \ {"none", "written-neural-v2"},
                     duration : Nat, value : 0..UTop, window : Nat]
    <3>1. c \in Seq(F)
      BY UAssumption
    <3> HIDE DEF F
    <3>2. c[k] \in F
      BY <2>3, <3>1, ElementOfSeq, LenProperties
    <3> QED
      BY <3>2 DEF F
  <2> QED
    BY <2>3, <2>2 DEF SensorFieldScope, Scope
<1> QED
  BY <1>1, <1>2

(* The units of a new population are one shared unit at most and fresh     *)
(* ones.                                                                   *)
LEMMA Shares ==
    ASSUME NEW shared \in Seq(Nat), Len(shared) <= 1, NEW n \in Nat, NEW size \in Nat \ {0},
           Range(shared) \subseteq 1 .. n
    PROVE  LET fresh == [k \in 1 .. size - Len(shared) |-> n + k]
               units == shared \o fresh IN
           /\ fresh \in Seq(Nat) /\ Len(fresh) = size - Len(shared)
           /\ units \in Seq(Nat) /\ Len(units) = size /\ units # <<>>
           /\ Range(units) \subseteq Range(shared) \cup (n + 1 .. n + size - Len(shared))
           /\ IsInjective(units)
<1>1. size - Len(shared) \in Nat /\ Len(shared) \in {0, 1}
  <2>1. PICK m \in Nat : Len(shared) = m
    BY LenProperties
  <2>2. m \in {0, 1} /\ size - m \in Nat
    BY <2>1
  <2> QED
    BY <2>1, <2>2
<1> DEFINE fresh == [k \in 1 .. size - Len(shared) |-> n + k]
           units == shared \o fresh
<1>2. fresh \in Seq(Nat) /\ Len(fresh) = size - Len(shared)
  BY <1>1
<1>3. /\ units \in Seq(Nat) /\ Len(units) = size
      /\ \A k \in 1 .. size : units[k] = IF k <= Len(shared) THEN shared[k] ELSE fresh[k - Len(shared)]
  BY <1>1, <1>2, ConcatProperties
<1>4. \A k \in 1 .. size :
        /\ k <= Len(shared) => k = 1 /\ units[k] \in Range(shared) /\ units[k] \in 1 .. n
        /\ k > Len(shared) => units[k] = n + k - Len(shared)
  BY <1>1, <1>3 DEF Range
<1>5. DOMAIN units = 1 .. size
  BY <1>3
<1> HIDE DEF units, fresh
<1>6. Range(units) \subseteq Range(shared) \cup (n + 1 .. n + size - Len(shared))
  <2>1. ASSUME NEW k \in 1 .. size
        PROVE  units[k] \in Range(shared) \cup (n + 1 .. n + size - Len(shared))
    BY <1>1, <1>4
  <2> QED
    BY <1>5, <2>1 DEF Range
<1>7. IsInjective(units)
  BY <1>1, <1>4, <1>5 DEF IsInjective
<1>8. units # <<>>
  BY <1>3
<1> QED
  BY <1>2, <1>3, <1>6, <1>7, <1>8 DEF units, fresh

(* A recruited population keeps the substrate sound when no other would    *)
(* recover its reading and what it shares serves no field.                 *)
LEMMA Registering ==
    ASSUME NEW s, Sound(s), NEW scope \in Scopes, NEW value \in 0..UTop,
           NEW shared \in Seq(Nat), Len(shared) <= 1, Range(shared) \subseteq DOMAIN s.rep,
           NEW size \in Nat \ {0}, scope = Unscoped => size = USize,
           \A i \in DOMAIN s.pops :
             /\ ~Bootstrap(s.pops[i]) /\ s.pops[i].scope = scope
                => /\ ~Confusable(scope, s.pops[i].proto, value)
                   /\ ~Confusable(scope, value, s.pops[i].proto)
             /\ (scope \in FieldScopes \/ s.pops[i].scope \in FieldScopes) /\ s.pops[i].scope # scope
                => Range(shared) \cap Range(s.pops[i].units) = {}
    PROVE  Answers(s, scope, RegisterPopulation(s, scope, value, shared, size))
<1> DEFINE n == Len(s.rep)
           fresh == [k \in 1 .. size - Len(shared) |-> n + k]
           units == shared \o fresh
           added == [k \in DOMAIN fresh |-> value]
           pop == [scope |-> scope, bootstrap |-> FALSE, proto |-> value, units |-> units]
           reading == [scope |-> scope, value |-> value]
           m == Len(s.pops)
           a == RegisterPopulation(s, scope, value, shared, size)
           t == a.s
<1>1. /\ s.pops \in Seq(Populations) /\ s.rep \in Seq(Int) /\ s.heard \in Seq(Readings)
      /\ n \in Nat /\ DOMAIN s.rep = 1 .. n /\ m \in Nat /\ DOMAIN s.pops = 1 .. m
      /\ Len(s.heard) = m
  BY LenProperties DEF Sound, Substrates, PrototypesHeard
<1>2. /\ fresh \in Seq(Nat) /\ Len(fresh) = size - Len(shared) /\ Len(fresh) \in Nat
      /\ units \in Seq(Nat) /\ Len(units) = size /\ units # <<>>
      /\ Range(units) \subseteq Range(shared) \cup (n + 1 .. n + size - Len(shared))
      /\ IsInjective(units)
  <2>1. n \in Nat /\ Range(shared) \subseteq 1 .. n
    BY <1>1
  <2> HIDE DEF n
  <2>2. /\ fresh \in Seq(Nat) /\ Len(fresh) = size - Len(shared)
        /\ units \in Seq(Nat) /\ Len(units) = size /\ units # <<>>
        /\ Range(units) \subseteq Range(shared) \cup (n + 1 .. n + size - Len(shared))
        /\ IsInjective(units)
    BY <2>1, Shares
  <2> HIDE DEF fresh, units
  <2> QED
    BY <2>2, LenProperties
<1>3. pop \in Populations /\ reading \in Readings
  BY <1>2 DEF Populations, Readings
<1>4. /\ t.pops = Append(s.pops, pop) /\ t.rep = s.rep \o added
      /\ t.heard = Append(s.heard, reading) /\ a.pop = m + 1
  BY DEF RegisterPopulation
<1>5. added \in Seq(Int) /\ Len(added) = Len(fresh)
  BY <1>2
<1>6. /\ t.rep \in Seq(Int) /\ Len(t.rep) = n + Len(fresh) /\ DOMAIN t.rep = 1 .. n + Len(fresh)
  BY <1>1, <1>2, <1>4, <1>5, ConcatProperties, LenProperties
<1>7. /\ t.pops \in Seq(Populations) /\ Len(t.pops) = m + 1 /\ DOMAIN t.pops = 1 .. m + 1
      /\ t.pops[m + 1] = pop /\ \A i \in 1 .. m : t.pops[i] = s.pops[i]
  BY <1>1, <1>3, <1>4, AppendProperties, LenProperties
<1>8. /\ t.heard \in Seq(Readings) /\ Len(t.heard) = m + 1
      /\ t.heard[m + 1] = reading /\ \A i \in 1 .. m : t.heard[i] = s.heard[i]
  <2>1. PICK h \in Seq(Readings) : h = s.heard
    BY <1>1
  <2>2. t.heard = Append(h, reading) /\ Len(h) = m
    BY <1>1, <1>4, <2>1
  <2> HIDE DEF reading, m, t
  <2> QED
    BY <1>3, <2>1, <2>2, AppendProperties
<1>9. t \in Substrates
  <2>1. t = [pops |-> t.pops, rep |-> t.rep, heard |-> t.heard]
    BY DEF RegisterPopulation
  <2> HIDE DEF t
  <2> QED
    BY <1>6, <1>7, <1>8, <2>1 DEF Substrates
<1>10. /\ pop.scope = scope /\ ~Bootstrap(pop) /\ pop.proto = value /\ pop.units = units
       /\ reading.scope = scope /\ reading.value = value
  BY DEF Bootstrap
<1>11. \A i \in 1 .. m + 1 : i \in 1 .. m \/ i = m + 1
  BY <1>1
<1>12. 1 .. m \subseteq 1 .. m + 1 /\ m + 1 \in 1 .. m + 1
  BY <1>1
<1> HIDE DEF pop, reading, t, a, m, units, fresh, added, n
<1>13. PrototypesHeard(t)
  BY <1>1, <1>7, <1>8, <1>10, <1>11 DEF PrototypesHeard, Sound
<1>14. PrototypesApart(t)
  <2> SUFFICES ASSUME NEW i \in 1 .. m + 1, NEW j \in 1 .. m + 1,
                      ~Bootstrap(t.pops[i]), ~Bootstrap(t.pops[j]),
                      t.pops[i].scope = t.pops[j].scope,
                      Confusable(t.pops[i].scope, t.pops[i].proto, t.pops[j].proto)
               PROVE  i = j
    BY <1>7 DEF PrototypesApart
  <2>1. CASE i \in 1 .. m /\ j \in 1 .. m
    BY <1>1, <1>7, <2>1 DEF Sound, PrototypesApart
  <2>2. CASE i \in 1 .. m /\ j = m + 1
    BY <1>1, <1>7, <1>10, <2>2
  <2>3. CASE i = m + 1 /\ j \in 1 .. m
    BY <1>1, <1>7, <1>10, <2>3
  <2> QED
    BY <1>11, <2>1, <2>2, <2>3
<1>15. Recoverable(t)
  BY <1>1, <1>2, <1>7, <1>10, <1>11 DEF Recoverable, Sound
<1>16. Range(units) \subseteq DOMAIN t.rep /\ DOMAIN s.rep \subseteq DOMAIN t.rep
  <2>1. Range(shared) \subseteq 1 .. n
    BY <1>1
  <2>2. n + 1 .. n + size - Len(shared) \subseteq 1 .. n + Len(fresh)
    BY <1>1, <1>2
  <2>3. 1 .. n \subseteq 1 .. n + Len(fresh)
    BY <1>1, <1>2
  <2> QED
    BY <1>1, <1>2, <1>6, <2>1, <2>2, <2>3
<1>17. UnitsSound(t)
  <2> SUFFICES ASSUME NEW i \in 1 .. m + 1
               PROVE  /\ t.pops[i].units # <<>> /\ Range(t.pops[i].units) \subseteq DOMAIN t.rep
                      /\ IsInjective(t.pops[i].units)
    BY <1>7 DEF UnitsSound
  <2>1. CASE i \in 1 .. m
    BY <1>1, <1>7, <1>16, <2>1 DEF UnitsSound, Sound
  <2>2. CASE i = m + 1
    BY <1>2, <1>7, <1>10, <1>16, <2>2
  <2> QED
    BY <1>11, <2>1, <2>2
<1>18. UnitsApart(t)
  <2>1. ASSUME NEW i \in 1 .. m, s.pops[i].scope # scope,
               scope \in FieldScopes \/ s.pops[i].scope \in FieldScopes
        PROVE  Range(units) \cap Range(s.pops[i].units) = {}
    <3>1. Range(shared) \cap Range(s.pops[i].units) = {}
      BY <1>1, <2>1
    <3>2. Range(s.pops[i].units) \subseteq 1 .. n
      BY <1>1 DEF UnitsSound, Sound
    <3>3. (n + 1 .. n + size - Len(shared)) \cap (1 .. n) = {}
      BY <1>1
    <3> QED
      BY <1>2, <3>1, <3>2, <3>3
  <2> SUFFICES ASSUME NEW i \in 1 .. m + 1, NEW j \in 1 .. m + 1,
                      t.pops[i].scope \in FieldScopes, t.pops[j].scope # t.pops[i].scope
               PROVE  Range(t.pops[i].units) \cap Range(t.pops[j].units) = {}
    BY <1>7 DEF UnitsApart
  <2>2. CASE i \in 1 .. m /\ j \in 1 .. m
    BY <1>1, <1>7, <2>2 DEF Sound, UnitsApart
  <2>3. CASE i \in 1 .. m /\ j = m + 1
    BY <1>7, <1>10, <2>1, <2>3
  <2>4. CASE i = m + 1 /\ j \in 1 .. m
    BY <1>7, <1>10, <2>1, <2>4
  <2>5. CASE i = m + 1 /\ j = m + 1
    BY <2>5
  <2> QED
    BY <1>11, <2>2, <2>3, <2>4, <2>5
<1>19. Sound(t)
  BY <1>9, <1>13, <1>14, <1>15, <1>17, <1>18 DEF Sound
<1>20. Extends(s, t)
  BY <1>1, <1>7, <1>12 DEF Extends
<1> QED
  BY <1>4, <1>7, <1>10, <1>12, <1>19, <1>20 DEF Answers, t, a

-----------------------------------------------------------------------------
(* The projections.                                                        *)

(* The first of a single index is it.                                      *)
LEMMA FirstOfIs ==
    ASSUME NEW is, is \subseteq Nat, is # {}
    PROVE  FirstOf(is) \in is
<1>1. \E i \in is : \A other \in is : i <= other
  BY LeastOf
<1> QED
  BY <1>1 DEF FirstOf

(* The parts of a population.                                              *)
LEMMA PopulationsTyped ==
    ASSUME NEW s, Sound(s), NEW i \in DOMAIN s.pops
    PROVE  i \in Nat /\ s.pops[i] \in Populations /\ s.pops[i].proto \in Int
<1>1. s.pops \in Seq(Populations)
  BY DEF Sound, Substrates
<1>2. i \in 1 .. Len(s.pops) /\ s.pops[i] \in Populations
  BY <1>1, LenProperties, ElementOfSeq
<1> QED
  BY <1>2, LenProperties DEF Populations

(* A population that exists answers without a change of the substrate.     *)
LEMMA ExistingAnswers ==
    ASSUME NEW s, Sound(s), NEW is, is # {}, is \subseteq DOMAIN s.pops, NEW scope,
           \A i \in is : s.pops[i].scope = scope,
           NEW answer \in Existing(s, FirstOf(is))
    PROVE  Answers(s, scope, answer)
<1>1. is \subseteq Nat
  BY LenProperties DEF Sound, Substrates
<1>2. FirstOf(is) \in is
  BY <1>1, FirstOfIs
<1>3. answer.s = s /\ answer.pop = FirstOf(is)
  BY DEF Existing
<1> QED
  BY <1>2, <1>3 DEF Answers, Extends

(* A recruited population answers the projection that recruited it.        *)
LEMMA RecruitedAnswers ==
    ASSUME NEW s, Sound(s), NEW scope \in Scopes, NEW value \in 0..UTop, NEW candidates,
           candidates \subseteq DOMAIN s.rep,
           NEW size \in Nat \ {0}, scope = Unscoped => size = USize,
           \A i \in DOMAIN s.pops :
             /\ ~Bootstrap(s.pops[i]) /\ s.pops[i].scope = scope
                => /\ ~Confusable(scope, s.pops[i].proto, value)
                   /\ ~Confusable(scope, value, s.pops[i].proto)
             /\ (scope \in FieldScopes \/ s.pops[i].scope \in FieldScopes) /\ s.pops[i].scope # scope
                => candidates \cap Range(s.pops[i].units) = {},
           NEW answer \in Recruited(s, scope, value, candidates, size)
    PROVE  Answers(s, scope, answer)
<1>1. PICK shared \in IF candidates = {} THEN {<<>>} ELSE {<<u>> : u \in candidates} :
             answer = RegisterPopulation(s, scope, value, shared, size)
  BY DEF Recruited
<1>2. DOMAIN s.rep \subseteq Nat
  BY LenProperties DEF Sound, Substrates
<1>3. shared \in Seq(Nat) /\ Len(shared) <= 1 /\ Range(shared) \subseteq candidates
  <2>1. CASE shared = <<>>
    BY <2>1 DEF Range
  <2>2. CASE \E u \in candidates : shared = <<u>>
    BY <1>2, <2>2 DEF Range
  <2> QED
    BY <1>1, <2>1, <2>2
<1>4. \A i \in DOMAIN s.pops :
        (scope \in FieldScopes \/ s.pops[i].scope \in FieldScopes) /\ s.pops[i].scope # scope
        => Range(shared) \cap Range(s.pops[i].units) = {}
  BY <1>3
<1> QED
  BY <1>1, <1>3, <1>4, Registering

(* Units that a reading without a scope, or a word, may share serve no     *)
(* field.                                                                  *)
LEMMA Unshared ==
    ASSUME NEW s, Sound(s), NEW value, NEW near
    PROVE  /\ MatchRepresentation(s, value, near) \subseteq DOMAIN s.rep
           /\ \A i \in DOMAIN s.pops : s.pops[i].scope \in FieldScopes
                => MatchRepresentation(s, value, near) \cap Range(s.pops[i].units) = {}
<1>1. MatchRepresentation(s, value, near) \subseteq DOMAIN s.rep \ ScopedUnits(s)
  BY DEF MatchRepresentation, Closest
<1>2. ASSUME NEW i \in DOMAIN s.pops, s.pops[i].scope \in FieldScopes
      PROVE  Range(s.pops[i].units) \subseteq ScopedUnits(s)
  BY <1>2, ScopesDiffer DEF ScopedUnits, Members
<1> QED
  BY <1>1, <1>2

(* A reading without a scope is answered by a population without one       *)
(* (findStableProjectionPopulation and the recruitment after it).          *)
LEMMA StableAnswers ==
    ASSUME NEW s, Sound(s), NEW value \in 0..UTop, NEW noise,
           NEW answer \in ProjectStable(s, value, noise)
    PROVE  Answers(s, Unscoped, answer)
<1> DEFINE match == StableMatch(s, value, noise)
<1>1. Basins(s) \subseteq Nat /\ Basins(s) \subseteq DOMAIN s.pops
      /\ \A i \in Basins(s) : s.pops[i].scope = Unscoped
  BY LenProperties DEF Basins, InScope, Sound, Substrates
<1>2. match \subseteq Basins(s)
  <2> DEFINE exact == {i \in Basins(s) : s.pops[i].proto = value}
             inside == {i \in Basins(s) : Away(s.pops[i].proto, value) <= noise}
  <2>1. exact # {} => FirstOf(exact) \in exact
    BY <1>1, FirstOfIs
  <2> QED
    BY <2>1 DEF StableMatch
<1>3. CASE match # {}
  BY <1>1, <1>2, <1>3, ExistingAnswers DEF ProjectStable
<1>4. CASE match = {}
  <2>1. \A i \in Basins(s) : s.pops[i].proto # value
    <3> DEFINE exact == {i \in Basins(s) : s.pops[i].proto = value}
    <3>1. exact = {}
      BY <1>4 DEF StableMatch
    <3> QED
      BY <3>1
  <2>2. ASSUME NEW i \in DOMAIN s.pops, ~Bootstrap(s.pops[i]), s.pops[i].scope = Unscoped
        PROVE  s.pops[i].proto # value
    <3>1. i \in Basins(s)
      BY <2>2 DEF Basins, InScope, Sound, Recoverable, Bootstrap, Substrates, Populations
    <3> QED
      BY <2>1, <3>1
  <2>3. answer \in Recruited(s, Unscoped, value, MatchRepresentation(s, value, UNear), USize)
    BY <1>4 DEF ProjectStable
  <2>4. Unscoped \in Scopes /\ Unscoped \notin FieldScopes /\ USize \in Nat \ {0}
    BY ScopesDiffer, UAssumption DEF Scopes
  <2>5. \A i \in DOMAIN s.pops :
          /\ ~Bootstrap(s.pops[i]) /\ s.pops[i].scope = Unscoped
             => /\ ~Confusable(Unscoped, s.pops[i].proto, value)
                /\ ~Confusable(Unscoped, value, s.pops[i].proto)
          /\ (Unscoped \in FieldScopes \/ s.pops[i].scope \in FieldScopes) /\ s.pops[i].scope # Unscoped
             => MatchRepresentation(s, value, UNear) \cap Range(s.pops[i].units) = {}
    BY <2>2, <2>4, Unshared DEF Confusable
  <2> QED
    BY <2>3, <2>4, <2>5, Unshared, RecruitedAnswers
<1> QED
  BY <1>3, <1>4

(* So is one observed by the older law of imported vectors.                *)
LEMMA HistoricalAnswers ==
    ASSUME NEW s, Sound(s), NEW value \in 0..UTop, NEW answer \in ProjectHistorical(s, value)
    PROVE  Answers(s, Unscoped, answer)
<1> DEFINE exact == {i \in InScope(s, Unscoped) :
                       IF s.pops[i].bootstrap THEN \E u \in Range(s.pops[i].units) : s.rep[u] = value
                       ELSE s.pops[i].proto = value}
<1>1. exact \subseteq DOMAIN s.pops /\ \A i \in exact : s.pops[i].scope = Unscoped
  BY DEF InScope
<1>2. CASE exact # {}
  <2>1. answer \in Existing(s, FirstOf(exact))
    BY <1>2 DEF ProjectHistorical
  <2> HIDE DEF exact
  <2> QED
    BY <1>1, <1>2, <2>1, ExistingAnswers
<1>3. CASE exact = {}
  <2>1. answer \in Recruited(s, Unscoped, value, MatchRepresentation(s, value, UNear), USize)
    BY <1>3 DEF ProjectHistorical
  <2>2. ASSUME NEW i \in DOMAIN s.pops, ~Bootstrap(s.pops[i]), s.pops[i].scope = Unscoped
        PROVE  s.pops[i].proto # value
    <3>1. i \in InScope(s, Unscoped) /\ i \notin exact
      BY <1>3, <2>2 DEF InScope
    <3>2. ~s.pops[i].bootstrap
      BY <2>2 DEF Bootstrap, Sound, Substrates, Populations
    <3> QED
      BY <3>1, <3>2
  <2> HIDE DEF exact
  <2>4. Unscoped \in Scopes /\ Unscoped \notin FieldScopes /\ USize \in Nat \ {0}
    BY ScopesDiffer, UAssumption DEF Scopes
  <2>5. \A i \in DOMAIN s.pops :
          /\ ~Bootstrap(s.pops[i]) /\ s.pops[i].scope = Unscoped
             => /\ ~Confusable(Unscoped, s.pops[i].proto, value)
                /\ ~Confusable(Unscoped, value, s.pops[i].proto)
          /\ (Unscoped \in FieldScopes \/ s.pops[i].scope \in FieldScopes) /\ s.pops[i].scope # Unscoped
             => MatchRepresentation(s, value, UNear) \cap Range(s.pops[i].units) = {}
    BY <2>2, <2>4, Unshared DEF Confusable
  <2> QED
    BY <2>1, <2>4, <2>5, Unshared, RecruitedAnswers
<1> QED
  BY <1>2, <1>3

(* A written word is answered by its own population                        *)
(* (projectWrittenNumeric).                                                *)
LEMMA WrittenAnswers ==
    ASSUME NEW s, Sound(s), NEW word \in 0..UTop, NEW near, NEW size \in Nat \ {0},
           NEW answer \in ProjectWrittenNumeric(s, word, near, size)
    PROVE  Answers(s, Written, answer)
<1>1. /\ WrittenMatch(s, word) \subseteq DOMAIN s.pops
      /\ \A i \in WrittenMatch(s, word) : s.pops[i].scope = Written
  BY DEF WrittenMatch, InScope
<1>2. CASE WrittenMatch(s, word) # {}
  BY <1>1, <1>2, ExistingAnswers DEF ProjectWrittenNumeric
<1>3. CASE WrittenMatch(s, word) = {}
  <2>1. answer \in Recruited(s, Written, word, MatchRepresentation(s, word, near), size)
    BY <1>3 DEF ProjectWrittenNumeric
  <2>2. \A i \in DOMAIN s.pops : s.pops[i].scope = Written => s.pops[i].proto # word
    BY <1>3 DEF WrittenMatch, InScope
  <2>3. Written \in Scopes /\ Written \notin FieldScopes /\ Written # Unscoped
    BY ScopesDiffer DEF Scopes
  <2>4. \A i \in DOMAIN s.pops :
          /\ ~Bootstrap(s.pops[i]) /\ s.pops[i].scope = Written
             => /\ ~Confusable(Written, s.pops[i].proto, word)
                /\ ~Confusable(Written, word, s.pops[i].proto)
          /\ (Written \in FieldScopes \/ s.pops[i].scope \in FieldScopes) /\ s.pops[i].scope # Written
             => MatchRepresentation(s, word, near) \cap Range(s.pops[i].units) = {}
    BY <2>2, <2>3, Unshared DEF Confusable
  <2> QED
    BY <2>1, <2>3, <2>4, Unshared, RecruitedAnswers
<1> QED
  BY <1>2, <1>3

(* The nearest of the populations within reach is within reach. *)
LEMMA FieldMatches ==
    ASSUME NEW s, Sound(s), NEW scope \in FieldScopes, NEW value \in 0..UTop,
           NEW k \in InScope(s, scope), Away(s.pops[k].proto, value) <= UNear
    PROVE  FieldMatch(s, scope, value) # {}
<1> DEFINE away(i) == Away(s.pops[i].proto, value)
           near == {i \in InScope(s, scope) : away(i) <= UNear}
           least == {away(i) : i \in near}
<1>1. \A i \in near : away(i) \in Nat /\ i \in Nat
  <2>1. \A i \in InScope(s, scope) : i \in Nat /\ s.pops[i].proto \in Int
    BY PopulationsTyped DEF InScope
  <2> QED
    BY <2>1 DEF Away
<1>2. k \in near
  OBVIOUS
<1>3. \E x \in least : \A y \in least : x <= y
  <2>1. least \subseteq Nat /\ least # {}
    BY <1>1, <1>2
  <2> HIDE DEF least
  <2> QED
    BY <2>1, LeastOf
<1>4. PICK i \in near : \A j \in near : away(i) <= away(j)
  BY <1>3
<1> DEFINE ties == {j \in near : away(j) = away(i)}
<1>5. \E x \in ties : \A y \in ties : x <= y
  <2>1. ties \subseteq Nat /\ ties # {}
    BY <1>1, <1>4
  <2> HIDE DEF ties
  <2> QED
    BY <2>1, LeastOf
<1>6. PICK x \in ties : \A y \in ties : x <= y
  BY <1>5
<1>7. \A j \in near : away(x) < away(j) \/ (away(x) = away(j) /\ x <= j)
  BY <1>1, <1>4, <1>6
<1> QED
  BY <1>6, <1>7 DEF FieldMatch

(* A field of a capture is answered by a population of its coordinate      *)
(* system (ProjectSensoryFieldAt).                                         *)
LEMMA FieldAnswers ==
    ASSUME NEW s, Sound(s), NEW scope \in FieldScopes, NEW value \in 0..UTop,
           NEW answer \in ProjectSensoryField(s, scope, value)
    PROVE  Answers(s, scope, answer)
<1>1. /\ FieldMatch(s, scope, value) \subseteq DOMAIN s.pops
      /\ \A i \in FieldMatch(s, scope, value) : s.pops[i].scope = scope
  BY DEF FieldMatch, InScope
<1>2. CASE FieldMatch(s, scope, value) # {}
  BY <1>1, <1>2, ExistingAnswers DEF ProjectSensoryField
<1>3. CASE FieldMatch(s, scope, value) = {}
  <2> DEFINE shareable == Closest(s, Members(s, InScope(s, scope)), value, UNear)
  <2>1. answer \in Recruited(s, scope, value, shareable, USize)
    BY <1>3 DEF ProjectSensoryField
  <2>2. ASSUME NEW i \in DOMAIN s.pops, s.pops[i].scope = scope
        PROVE  /\ ~Confusable(scope, s.pops[i].proto, value)
               /\ ~Confusable(scope, value, s.pops[i].proto)
    <3>1. ~(Away(s.pops[i].proto, value) <= UNear)
      BY <1>3, <2>2, FieldMatches DEF InScope
    <3>2. s.pops[i].proto \in Int
      BY PopulationsTyped
    <3>3. Away(s.pops[i].proto, value) = Away(value, s.pops[i].proto)
      BY <3>2 DEF Away
    <3> QED
      BY <3>1, <3>3 DEF Confusable
  <2>3. shareable \subseteq Members(s, InScope(s, scope))
    BY DEF Closest
  <2>4. shareable \subseteq DOMAIN s.rep
    BY <2>3 DEF Members, InScope, Sound, UnitsSound
  <2>5. \A i \in DOMAIN s.pops : s.pops[i].scope # scope => shareable \cap Range(s.pops[i].units) = {}
    <3>1. ASSUME NEW i \in DOMAIN s.pops, s.pops[i].scope # scope, NEW u \in shareable
          PROVE  u \notin Range(s.pops[i].units)
      <4>1. PICK j \in InScope(s, scope) : u \in Range(s.pops[j].units)
        BY <2>3 DEF Members
      <4> QED
        BY <3>1, <4>1 DEF InScope, Sound, UnitsApart
    <3> QED
      BY <3>1
  <2>6. scope \in Scopes /\ scope # Unscoped /\ USize \in Nat \ {0}
    BY ScopesDiffer, UAssumption DEF Scopes
  <2> HIDE DEF shareable
  <2> QED
    BY <2>1, <2>2, <2>4, <2>5, <2>6, RecruitedAnswers
<1> QED
  BY <1>2, <1>3

-----------------------------------------------------------------------------
(* Several projections in turn.                                            *)

Later(s) == {t \in Substrates : Sound(t) /\ Extends(s, t)}

(* Extension is transitive.                                                *)
LEMMA ExtendsOnward ==
    ASSUME NEW s, NEW t, NEW u, Extends(s, t), Extends(t, u)
    PROVE  Extends(s, u)
BY DEF Extends

(* The step of LearnVectors. *)
LearnedFrom(done, value) ==
    UNION {{answer.s : answer \in ProjectHistorical(each, value)} : each \in done}
LearnedBy(f, s, values) ==
    f = [x \in SUBSET DOMAIN values |->
           IF x = {} THEN {s} ELSE LearnedFrom(f[x \ {Max(x)}], values[Max(x)])]

(* Vectors learned in turn: one more is learned on what the others left.   *)
LEMMA LearnUnfolds ==
    ASSUME NEW s, NEW values, NEW g, LearnedBy(g, s, values)
    PROVE  \E f : LearnedBy(f, s, values) /\ LearnVectors(s, values) = f[DOMAIN values]
<1> DEFINE it == CHOOSE f : f = [x \in SUBSET DOMAIN values |->
                     IF x = {} THEN {s} ELSE LearnedFrom(f[x \ {Max(x)}], values[Max(x)])]
<1>1. LearnVectors(s, values) = it[DOMAIN values]
  BY Zenon DEF LearnVectors, FoldLeft, MapThenFoldSet, LearnedFrom
<1>2. it = CHOOSE f : LearnedBy(f, s, values)
  BY Zenon DEF LearnedBy
<1>3. LearnedBy(it, s, values)
  <2> HIDE DEF it
  <2> QED
    BY <1>2, Zenon
<1> QED
  BY <1>1, <1>3

(* Learning a list of vectors keeps the substrate sound.                   *)
LEMMA LearningSound ==
    ASSUME NEW s, Sound(s), NEW values \in Seq(0..UTop), NEW t \in LearnVectors(s, values)
    PROVE  Sound(t) /\ Extends(s, t)
<1> DEFINE n == Len(values)
           A == SUBSET Later(s)
           step == [p \in A \X (1 .. n) |-> LearnedFrom(p[1], values[p[2]])]
<1>1. n \in Nat /\ DOMAIN values = 1 .. n /\ \A k \in 1 .. n : values[k] \in 0..UTop
  BY LenProperties, ElementOfSeq
<1> HIDE DEF n
<1>2. {s} \in A
  BY DEF Later, Sound, Extends
<1>3. ASSUME NEW done \in A, NEW value \in 0..UTop PROVE LearnedFrom(done, value) \in A
  <2>1. ASSUME NEW each \in done, NEW answer \in ProjectHistorical(each, value)
        PROVE  answer.s \in Later(s)
    <3>1. Sound(each) /\ Extends(s, each)
      BY <1>3 DEF Later
    <3>2. Answers(each, Unscoped, answer)
      BY <3>1, HistoricalAnswers
    <3> QED
      BY <3>1, <3>2, ExtendsOnward DEF Answers, Later, Sound
  <2> QED
    BY <2>1 DEF LearnedFrom
<1>4. step \in [A \X (1 .. n) -> A]
  BY <1>1, <1>3
<1>5. \A done \in A, k \in 1 .. n : step[<<done, k>>] = LearnedFrom(done, values[k])
  OBVIOUS
<1> HIDE DEF step, A
<1>6. PICK g \in [SUBSET (1 .. n) -> A] : Folded(g, n, {s}, step)
  BY <1>1, <1>2, <1>4, FoldExists
<1>7. ASSUME NEW x \in SUBSET (1 .. n)
      PROVE  g[x] = IF x = {} THEN {s} ELSE LearnedFrom(g[x \ {Max(x)}], values[Max(x)])
  <2>1. g[x] = IF x = {} THEN {s} ELSE step[<<g[x \ {Max(x)}], Max(x)>>]
    BY <1>6, Zenon DEF Folded
  <2>2. CASE x # {}
    <3>1. Max(x) \in 1 .. n /\ g[x \ {Max(x)}] \in A
      BY <1>1, <1>6, <2>2, MaxIsIn
    <3> QED
      BY <1>5, <2>1, <2>2, <3>1
  <2> QED
    BY <2>1, <2>2
<1>8. LearnedBy(g, s, values)
  <2>1. g = [x \in SUBSET (1 .. n) |-> g[x]]
    BY <1>6
  <2> QED
    BY <1>1, <1>7, <2>1, Zenon DEF LearnedBy
<1>9. PICK f : LearnedBy(f, s, values) /\ LearnVectors(s, values) = f[1 .. n]
  BY <1>1, <1>8, LearnUnfolds
<1>10. f[1 .. n] = g[1 .. n]
  <2>1. ASSUME NEW x \in SUBSET (1 .. n)
        PROVE  f[x] = IF x = {} THEN {s} ELSE LearnedFrom(f[x \ {Max(x)}], values[Max(x)])
    BY <1>1, <1>9, Zenon DEF LearnedBy
  <2>2. f[{}] = g[{}]
    BY <1>7, <2>1
  <2>3. \A x \in SUBSET (1 .. n) : x # {} /\ f[x \ {Max(x)}] = g[x \ {Max(x)}] => f[x] = g[x]
    BY <1>7, <2>1
  <2> QED
    BY <1>1, <2>2, <2>3, FoldUnique
<1>11. t \in Later(s)
  BY <1>6, <1>9, <1>10 DEF A
<1> QED
  BY <1>11 DEF Later

(* The step of ProjectSensorFields. *)
Projected(done, field) ==
    UNION {{[s |-> answer.s, pops |-> Append(each.pops, answer.pop)] :
              answer \in ProjectSensoryField(each.s, SensorFieldScope(field), field.value)}
             : each \in done}
Unprojected == [s |-> Substrate, pops |-> <<>>]
ProjectedBy(f, capture) ==
    f = [x \in SUBSET DOMAIN capture |->
           IF x = {} THEN {Unprojected} ELSE Projected(f[x \ {Max(x)}], capture[Max(x)])]

(* The fields of a capture are projected in turn, each on what the ones    *)
(* before it left.                                                         *)
LEMMA ProjectUnfolds ==
    ASSUME NEW capture, NEW g, ProjectedBy(g, capture)
    PROVE  \E f : ProjectedBy(f, capture) /\ ProjectSensorFields(capture) = f[DOMAIN capture]
<1> DEFINE it == CHOOSE f : f = [x \in SUBSET DOMAIN capture |->
                     IF x = {} THEN {Unprojected} ELSE Projected(f[x \ {Max(x)}], capture[Max(x)])]
<1>1. ProjectSensorFields(capture) = it[DOMAIN capture]
  BY Zenon DEF ProjectSensorFields, FoldLeft, MapThenFoldSet, Projected, Unprojected
<1>2. it = CHOOSE f : ProjectedBy(f, capture)
  BY Zenon DEF ProjectedBy
<1>3. ProjectedBy(it, capture)
  <2> HIDE DEF it
  <2> QED
    BY <1>2, Zenon
<1> QED
  BY <1>1, <1>3

(* What the projection of the first k fields leaves. *)
Partial == [s : Later(Substrate), pops : Seq(Nat)]
Placed(d, capture, k) ==
    /\ Len(d.pops) = k
    /\ \A j \in 1 .. k : /\ d.pops[j] \in DOMAIN d.s.pops
                         /\ d.s.pops[d.pops[j]].scope = SensorFieldScope(capture[j])

(* One more field keeps what the earlier ones answered.                    *)
LEMMA ProjectingField ==
    ASSUME Sound(Substrate), NEW capture \in UCapture, NEW i \in DOMAIN capture,
           NEW done \in SUBSET Partial, NEW e \in Projected(done, capture[i])
    PROVE  /\ e \in Partial
           /\ (\A d \in done : Placed(d, capture, i - 1)) => Placed(e, capture, i)
<1> DEFINE scope == SensorFieldScope(capture[i])
           value == capture[i].value
<1>1. PICK each \in done : \E answer \in ProjectSensoryField(each.s, scope, value) :
               e = [s |-> answer.s, pops |-> Append(each.pops, answer.pop)]
  BY DEF Projected
<1>2. PICK answer \in ProjectSensoryField(each.s, scope, value) :
               e = [s |-> answer.s, pops |-> Append(each.pops, answer.pop)]
  BY <1>1
<1>3. scope \in FieldScopes /\ value \in 0..UTop /\ i \in Nat \ {0}
  <2> DEFINE F == [id : STRING, kind : STRING \ {"none", "written-neural-v2"},
                   duration : Nat, value : 0..UTop, window : Nat]
  <2>1. capture \in Seq(F)
    BY UAssumption
  <2> HIDE DEF F
  <2>2. capture[i] \in F /\ i \in Nat \ {0}
    BY <2>1, ElementOfSeq, LenProperties
  <2> QED
    BY <2>2 DEF F, FieldScopes
<1> HIDE DEF scope, value
<1>4. /\ each.s \in Substrates /\ Sound(each.s) /\ Extends(Substrate, each.s)
      /\ each.pops \in Seq(Nat)
  BY DEF Partial, Later
<1>5. Answers(each.s, scope, answer)
  BY <1>2, <1>3, <1>4, FieldAnswers
<1>6. answer.s \in Later(Substrate)
  BY <1>4, <1>5, ExtendsOnward DEF Answers, Later, Sound
<1>7. answer.pop \in Nat
  BY <1>5, PopulationsTyped DEF Answers
<1>8. /\ e.s = answer.s /\ e.pops = Append(each.pops, answer.pop)
      /\ e.pops \in Seq(Nat) /\ Len(e.pops) = Len(each.pops) + 1
      /\ e.pops[Len(each.pops) + 1] = answer.pop
      /\ \A j \in 1 .. Len(each.pops) : e.pops[j] = each.pops[j]
  BY <1>2, <1>4, <1>7, AppendProperties
<1>9. e \in Partial
  BY <1>2, <1>6, <1>8 DEF Partial
<1>10. ASSUME \A d \in done : Placed(d, capture, i - 1) PROVE Placed(e, capture, i)
  <2>1. Placed(each, capture, i - 1)
    BY <1>10
  <2>2. Len(each.pops) = i - 1 /\ Len(e.pops) = i
    BY <1>3, <1>8, <2>1 DEF Placed
  <2>3. ASSUME NEW j \in 1 .. i
        PROVE  /\ e.pops[j] \in DOMAIN e.s.pops
               /\ e.s.pops[e.pops[j]].scope = SensorFieldScope(capture[j])
    <3>1. CASE j = i
      BY <1>3, <1>5, <1>8, <2>2, <3>1 DEF Answers, scope
    <3>2. CASE j # i
      <4>1. j \in 1 .. i - 1
        BY <1>3, <3>2
      <4>2. /\ each.pops[j] \in DOMAIN each.s.pops
            /\ each.s.pops[each.pops[j]].scope = SensorFieldScope(capture[j])
        BY <2>1, <4>1 DEF Placed
      <4>3. e.pops[j] = each.pops[j]
        BY <1>8, <2>2, <4>1
      <4> QED
        BY <1>5, <1>8, <4>2, <4>3 DEF Answers, Extends
    <3> QED
      BY <3>1, <3>2
  <2> QED
    BY <2>2, <2>3 DEF Placed
<1> QED
  BY <1>9, <1>10

(* Every field of a capture is answered by a population of its own scope.  *)
LEMMA FieldsPlaced ==
    ASSUME Sound(Substrate), NEW capture \in UCapture, NEW done \in ProjectSensorFields(capture)
    PROVE  done \in Partial /\ Placed(done, capture, Len(capture))
<1> DEFINE n == Len(capture)
           A == SUBSET Partial
           step == [p \in A \X (1 .. n) |-> Projected(p[1], capture[p[2]])]
<1>1. n \in Nat /\ DOMAIN capture = 1 .. n
  BY UAssumption, LenProperties
<1> HIDE DEF n
<1>2. {Unprojected} \in A /\ Placed(Unprojected, capture, 0)
  <2>1. Substrate \in Later(Substrate)
    BY DEF Later, Sound, Extends
  <2>2. <<>> \in Seq(Nat) /\ Len(<<>>) = 0
    OBVIOUS
  <2> QED
    BY <2>1, <2>2 DEF Partial, Placed, Unprojected
<1>3. ASSUME NEW before \in A, NEW i \in 1 .. n PROVE Projected(before, capture[i]) \in A
  BY <1>1, <1>3, ProjectingField
<1>4. step \in [A \X (1 .. n) -> A]
  BY <1>1, <1>3
<1>5. \A before \in A, i \in 1 .. n : step[<<before, i>>] = Projected(before, capture[i])
  OBVIOUS
<1> HIDE DEF step, A
<1>6. PICK g \in [SUBSET (1 .. n) -> A] : Folded(g, n, {Unprojected}, step)
  BY <1>1, <1>2, <1>4, FoldExists
<1>7. ASSUME NEW x \in SUBSET (1 .. n)
      PROVE  g[x] = IF x = {} THEN {Unprojected} ELSE Projected(g[x \ {Max(x)}], capture[Max(x)])
  <2>1. g[x] = IF x = {} THEN {Unprojected} ELSE step[<<g[x \ {Max(x)}], Max(x)>>]
    BY <1>6, Zenon DEF Folded
  <2>2. CASE x # {}
    <3>1. Max(x) \in 1 .. n /\ g[x \ {Max(x)}] \in A
      BY <1>1, <1>6, <2>2, MaxIsIn
    <3> QED
      BY <1>5, <2>1, <2>2, <3>1
  <2> QED
    BY <2>1, <2>2
<1>8. ProjectedBy(g, capture)
  <2>1. g = [x \in SUBSET (1 .. n) |-> g[x]]
    BY <1>6
  <2> QED
    BY <1>1, <1>7, <2>1, Zenon DEF ProjectedBy
<1>9. PICK f : ProjectedBy(f, capture) /\ ProjectSensorFields(capture) = f[1 .. n]
  BY <1>1, <1>8, ProjectUnfolds
<1>10. f[1 .. n] = g[1 .. n]
  <2>1. ASSUME NEW x \in SUBSET (1 .. n)
        PROVE  f[x] = IF x = {} THEN {Unprojected} ELSE Projected(f[x \ {Max(x)}], capture[Max(x)])
    BY <1>1, <1>9, Zenon DEF ProjectedBy
  <2>2. f[{}] = g[{}]
    BY <1>7, <2>1
  <2>3. \A x \in SUBSET (1 .. n) : x # {} /\ f[x \ {Max(x)}] = g[x \ {Max(x)}] => f[x] = g[x]
    BY <1>7, <2>1
  <2> QED
    BY <1>1, <2>2, <2>3, FoldUnique
<1> DEFINE T == {k \in Nat : k <= n => \A d \in g[1 .. k] : Placed(d, capture, k)}
<1>11. 0 \in T
  <2>1. 1 .. 0 = {} /\ {} \in SUBSET (1 .. n)
    OBVIOUS
  <2>2. g[{}] = {Unprojected}
    BY <1>7, <2>1
  <2> QED
    BY <1>2, <2>1, <2>2
<1>12. ASSUME NEW k \in Nat, k \in T PROVE k + 1 \in T
  <2>0. k + 1 \in Nat
    OBVIOUS
  <2>1. ASSUME k + 1 <= n, NEW d \in g[1 .. k + 1] PROVE Placed(d, capture, k + 1)
    <3>0. k <= n /\ k + 1 \in 1 .. n /\ k + 1 \in 1 .. k + 1 /\ k + 1 - 1 = k
      BY <1>1, <2>1
    <3>1. 1 .. k + 1 \in SUBSET (1 .. n) /\ 1 .. k + 1 # {} /\ 1 .. k \in SUBSET (1 .. n)
      <4>1. \A m \in 1 .. k + 1 : m \in 1 .. n
        BY <1>1, <2>1
      <4>2. \A m \in 1 .. k : m \in 1 .. n
        BY <1>1, <2>1
      <4> QED
        BY <3>0, <4>1, <4>2
    <3>2. Max(1 .. k + 1) = k + 1
      BY <3>0, LastFolded
    <3>3. (1 .. k + 1) \ {k + 1} = 1 .. k
      OBVIOUS
    <3>4. g[1 .. k + 1] = Projected(g[1 .. k], capture[k + 1])
      BY <1>7, <3>0, <3>1, <3>2, <3>3
    <3>5. \A b \in g[1 .. k] : Placed(b, capture, k)
      BY <1>12, <3>0
    <3>6. g[1 .. k] \in SUBSET Partial
      BY <1>6, <3>1 DEF A
    <3> QED
      BY <1>1, <2>1, <3>0, <3>4, <3>5, <3>6, ProjectingField
  <2> QED
    BY <2>0, <2>1
<1> HIDE DEF T
<1>13. Nat \subseteq T
  BY <1>11, <1>12, Induction
<1>14. n \in T /\ n <= n /\ 1 .. n \in SUBSET (1 .. n)
  BY <1>1, <1>13
<1>15. done \in g[1 .. n]
  BY <1>9, <1>10
<1>16. \A d \in g[1 .. n] : Placed(d, capture, n)
  BY <1>14, Zenon DEF T
<1> QED
  BY <1>6, <1>14, <1>15, <1>16 DEF A, n

-----------------------------------------------------------------------------
(* Perception: its inductive invariant.                                    *)

(* Captures and what was learned from them name populations of the         *)
(* coordinate system of their field.                                       *)
TracesPlaced ==
    \A source \in UCamera : \A j \in DOMAIN uTrace[source] :
      /\ uTrace[source][j].pop \in DOMAIN uPops
      /\ uPops[uTrace[source][j].pop].scope = SensorFieldScope(uTrace[source][j].field)
LinksPlaced ==
    \A link \in uLinks :
      /\ link[1] \in DOMAIN uPops /\ link[2] \in DOMAIN uPops
      /\ uPops[link[1]].scope = uPops[link[2]].scope

GroundInd ==
    /\ Sound(Substrate) /\ DOMAIN uTrace = UCamera /\ TracesPlaced /\ LinksPlaced

(* Plasticity moves unit activity, never a route.                          *)
LEMMA PlasticityKeeps ==
    ASSUME NEW s, Sound(s), NEW moved, NEW d \in {-1, 1}
    PROVE  Sound(Plasticity(s, moved, d)) /\ Extends(s, Plasticity(s, moved, d))
<1> DEFINE t == Plasticity(s, moved, d)
           moves == [u \in DOMAIN s.rep |-> IF u \in moved THEN Clamped(s.rep[u] + d) ELSE s.rep[u]]
<1>1. /\ s \in Substrates /\ s.pops \in Seq(Populations) /\ s.rep \in Seq(Int)
      /\ s.heard \in Seq(Readings) /\ s = [pops |-> s.pops, rep |-> s.rep, heard |-> s.heard]
  BY DEF Sound, Substrates
<1>2. moves \in Seq(Int) /\ DOMAIN moves = DOMAIN s.rep
  <2>1. /\ Len(s.rep) \in Nat /\ DOMAIN s.rep = 1 .. Len(s.rep)
        /\ \A u \in 1 .. Len(s.rep) : s.rep[u] \in Int
    BY <1>1, LenProperties, ElementOfSeq
  <2>2. UTop \in Int
    BY UAssumption
  <2>3. \A x \in Int : Clamped(x) \in Int
    BY <2>2 DEF Clamped
  <2>4. ASSUME NEW u \in 1 .. Len(s.rep) PROVE moves[u] \in Int
    <3>1. u \in DOMAIN s.rep /\ s.rep[u] \in Int /\ s.rep[u] + d \in Int
      BY <2>1
    <3>2. moves[u] = IF u \in moved THEN Clamped(s.rep[u] + d) ELSE s.rep[u]
      BY <3>1
    <3> QED
      BY <2>3, <3>1, <3>2
  <2>5. moves \in [1 .. Len(s.rep) -> Int]
    BY <2>1, <2>4
  <2> HIDE DEF moves
  <2> QED
    BY <2>1, <2>5
<1>3. t = [s EXCEPT !.rep = moves]
  BY DEF Plasticity
<1> HIDE DEF t, moves
<1>4. t \in Substrates /\ t.pops = s.pops /\ t.heard = s.heard /\ DOMAIN t.rep = DOMAIN s.rep
  BY <1>1, <1>2, <1>3 DEF Substrates
<1>5. PrototypesHeard(t) /\ PrototypesApart(t) /\ Recoverable(t)
  BY <1>4 DEF Sound, PrototypesHeard, PrototypesApart, Recoverable
<1>6. UnitsSound(t) /\ UnitsApart(t)
  BY <1>4 DEF Sound, UnitsSound, UnitsApart
<1>7. Extends(s, t)
  BY <1>4 DEF Extends
<1> QED
  BY <1>4, <1>5, <1>6, <1>7 DEF Sound, t

(* A substrate that is installed is sound when it was.                     *)
LEMMA BecomesIs ==
    ASSUME NEW s, Sound(s), Becomes(s)
    PROVE  Substrate' = s
BY DEF Becomes, Sound, Substrates, Substrate

(* Cognition on a substrate leaves its populations and readings as they    *)
(* are.                                                                    *)
LEMMA CogniseKeeps ==
    ASSUME NEW s, Sound(s), Extends(Substrate, s), NEW actual, Cognise(s, actual)
    PROVE  Sound(Substrate') /\ Extends(s, Substrate')
<1>1. CASE Becomes(s)
  BY <1>1, BecomesIs DEF Extends
<1>2. CASE \E moved \in Reorganised(s, actual) : Becomes(moved)
  <2>1. PICK moved \in Reorganised(s, actual) : Becomes(moved)
    BY <1>2
  <2>2. PICK i \in DOMAIN s.pops : moved \in
           UNION {{Plasticity(s, units, d) : units \in (SUBSET actual) \ {{}}}
                    : d \in Discrepancy(s, actual, Members(s, {i}))}
    BY <2>1 DEF Reorganised
  <2>3. PICK d \in Discrepancy(s, actual, Members(s, {i})) :
           moved \in {Plasticity(s, units, d) : units \in (SUBSET actual) \ {{}}}
    BY <2>2
  <2>4. PICK units : moved = Plasticity(s, units, d)
    BY <2>3
  <2>5. d \in {-1, 1}
    BY DEF Discrepancy
  <2> QED
    BY <2>1, <2>4, <2>5, PlasticityKeeps, BecomesIs
<1> QED
  BY <1>1, <1>2 DEF Cognise

(* Traces and links still point at populations of their scope.             *)
LEMMA PlacesKept ==
    ASSUME GroundInd, Sound(Substrate'), Extends(Substrate, Substrate'),
           UNCHANGED <<uTrace, uLinks>>
    PROVE  GroundInd'
<1>1. \A i \in DOMAIN uPops : i \in DOMAIN uPops' /\ uPops'[i] = uPops[i]
  BY DEF Extends, Substrate
<1>2. TracesPlaced'
  BY <1>1 DEF GroundInd, TracesPlaced
<1>3. LinksPlaced'
  BY <1>1 DEF GroundInd, LinksPlaced
<1> QED
  BY <1>2, <1>3 DEF GroundInd

(* A projection and the plasticity after it keep the invariant.            *)
LEMMA AnswersKept ==
    ASSUME GroundInd, NEW scope, NEW answer, Answers(Substrate, scope, answer),
           \/ Becomes(answer.s)
           \/ \E actual : Cognise(answer.s, actual),
           UNCHANGED <<uTrace, uLinks>>
    PROVE  GroundInd'
<1>1. Sound(answer.s) /\ Extends(Substrate, answer.s)
  BY DEF Answers
<1>2. Sound(Substrate') /\ Extends(Substrate, Substrate')
  BY <1>1, BecomesIs, CogniseKeeps, ExtendsOnward
<1> QED
  BY <1>2, PlacesKept

(* A bootstrapped brain is sound: its first vectors are learned by the     *)
(* older law.                                                              *)
LEMMA StartSound ==
    ASSUME UInit
    PROVE  GroundInd
<1> DEFINE pop == [scope |-> Unscoped, bootstrap |-> TRUE, proto |-> -1, units |-> <<1>>]
           empty == [pops |-> <<pop>>, rep |-> <<0>>, heard |-> <<NoReading>>]
<1>1. PICK s \in Bootstrapped : uPops = s.pops /\ uRep = s.rep /\ uHeard = s.heard
  BY DEF UInit
<1>2. pop \in Populations /\ NoReading \in Readings
  BY DEF Populations, Readings, Scopes, NoReading
<1>3. empty \in Substrates
  <2> HIDE DEF pop
  <2> QED
    BY <1>2 DEF Substrates
<1>4. /\ DOMAIN empty.pops = {1} /\ Len(empty.pops) = 1 /\ empty.pops[1] = pop
      /\ Bootstrap(pop) /\ pop.scope = Unscoped /\ pop.units = <<1>>
      /\ Len(empty.heard) = 1 /\ empty.heard[1] = NoReading /\ DOMAIN empty.rep = {1}
  BY DEF Bootstrap
<1>5. <<1>> # <<>> /\ Range(<<1>>) = {1} /\ IsInjective(<<1>>)
  BY DEF Range, IsInjective
<1> HIDE DEF empty, pop
<1>6. PrototypesHeard(empty) /\ PrototypesApart(empty) /\ Recoverable(empty)
  BY <1>4 DEF PrototypesHeard, PrototypesApart, Recoverable
<1>7. UnitsSound(empty) /\ UnitsApart(empty)
  BY <1>4, <1>5 DEF UnitsSound, UnitsApart
<1>8. Sound(empty)
  BY <1>3, <1>6, <1>7 DEF Sound
<1>9. s \in LearnVectors(empty, UFoundation)
  BY DEF Bootstrapped, empty, pop
<1>10. Sound(s)
  BY <1>8, <1>9, LearningSound, UAssumption
<1>11. Substrate = s
  BY <1>1, <1>10 DEF Substrate, Sound, Substrates
<1>12. /\ uTrace = [source \in UCamera |-> <<>>] /\ uLinks = {}
  BY DEF UInit
<1>13. TracesPlaced /\ LinksPlaced /\ DOMAIN uTrace = UCamera
  BY <1>12 DEF TracesPlaced, LinksPlaced
<1> QED
  BY <1>10, <1>11, <1>13 DEF GroundInd

(* A capture keeps the invariant: its temporal links join populations of   *)
(* one coordinate system.                                                  *)
LEMMA FieldsKeep ==
    ASSUME GroundInd, NEW source \in UCamera, NEW capture \in UCapture,
           SenseFields(source, capture)
    PROVE  GroundInd'
<1>1. PICK done \in ProjectSensorFields(capture) :
           /\ Cognise(done.s, Members(done.s, Range(done.pops)))
           /\ LearnSensorFields(source, capture, done.pops)
  BY DEF SenseFields
<1> DEFINE pops == done.pops
<1>2. /\ Sound(done.s) /\ Extends(Substrate, done.s)
      /\ Placed(done, capture, Len(capture)) /\ DOMAIN capture = 1 .. Len(capture)
  <2>1. done \in Partial /\ Placed(done, capture, Len(capture))
    BY FieldsPlaced DEF GroundInd
  <2> QED
    BY <2>1, LenProperties, UAssumption DEF Partial, Later
<1>3. Sound(Substrate') /\ Extends(done.s, Substrate') /\ Extends(Substrate, Substrate')
  BY <1>1, <1>2, CogniseKeeps, ExtendsOnward
<1>4. \A i \in DOMAIN uPops : i \in DOMAIN uPops' /\ uPops'[i] = uPops[i]
  BY <1>3 DEF Extends, Substrate
<1>5. ASSUME NEW k \in DOMAIN capture
      PROVE  pops[k] \in DOMAIN uPops' /\ uPops'[pops[k]].scope = SensorFieldScope(capture[k])
  BY <1>2, <1>3 DEF Placed, Extends, Substrate
<1>6. PICK late \in SUBSET {f \in Follows(source, capture, pops) : ~f.sure} :
        /\ uLinks' = uLinks \cup WindowsOf(capture, pops)
                        \cup {f.link : f \in {g \in Follows(source, capture, pops) : g.sure} \cup late}
        /\ uTrace' = [uTrace EXCEPT ![source] = [k \in DOMAIN capture |->
                                                   [field |-> capture[k], pop |-> pops[k]]]]
  BY <1>1 DEF LearnSensorFields
<1> DEFINE Same(link) == /\ link[1] \in DOMAIN uPops' /\ link[2] \in DOMAIN uPops'
                         /\ uPops'[link[1]].scope = uPops'[link[2]].scope
<1> HIDE DEF pops
<1>7. ASSUME NEW f \in Follows(source, capture, pops) PROVE Same(f.link)
  <2>1. PICK jk \in (DOMAIN uTrace[source]) \X DOMAIN capture :
          /\ SameField(uTrace[source][jk[1]].field, capture[jk[2]])
          /\ f.link = <<uTrace[source][jk[1]].pop, pops[jk[2]]>>
    BY DEF Follows
  <2>2. jk[1] \in DOMAIN uTrace[source] /\ jk[2] \in DOMAIN capture
    OBVIOUS
  <2>3. /\ uTrace[source][jk[1]].pop \in DOMAIN uPops
        /\ uPops[uTrace[source][jk[1]].pop].scope = SensorFieldScope(capture[jk[2]])
    BY <2>1, <2>2 DEF GroundInd, TracesPlaced, SameField
  <2> QED
    BY <1>4, <1>5, <2>1, <2>2, <2>3
<1>8. ASSUME NEW link \in WindowsOf(capture, pops) PROVE Same(link)
  <2>1. PICK jk \in (DOMAIN capture) \X DOMAIN capture :
          /\ SensorFieldScope(capture[jk[1]]) = SensorFieldScope(capture[jk[2]])
          /\ link = <<pops[jk[1]], pops[jk[2]]>>
    BY DEF WindowsOf
  <2>2. jk[1] \in DOMAIN capture /\ jk[2] \in DOMAIN capture
    OBVIOUS
  <2> QED
    BY <1>5, <2>1, <2>2
<1>9. ASSUME NEW link \in uLinks PROVE Same(link)
  BY <1>4 DEF GroundInd, LinksPlaced
<1> HIDE DEF Same
<1>10. \A link \in uLinks' : Same(link)
  <2>1. \A f \in {g \in Follows(source, capture, pops) : g.sure} \cup late : Same(f.link)
    BY <1>7
  <2> QED
    BY <1>6, <1>8, <1>9, <2>1
<1>11. LinksPlaced'
  BY <1>10 DEF LinksPlaced, Same
<1>12. DOMAIN uTrace' = UCamera /\ \A c \in UCamera : c # source => uTrace'[c] = uTrace[c]
  BY <1>6 DEF GroundInd
<1>13. /\ DOMAIN uTrace'[source] = DOMAIN capture
       /\ \A k \in DOMAIN capture : uTrace'[source][k].field = capture[k] /\ uTrace'[source][k].pop = pops[k]
  BY <1>6 DEF GroundInd
<1>14. TracesPlaced'
  <2> SUFFICES ASSUME NEW c \in UCamera, NEW j \in DOMAIN uTrace'[c]
               PROVE  /\ uTrace'[c][j].pop \in DOMAIN uPops'
                      /\ uPops'[uTrace'[c][j].pop].scope = SensorFieldScope(uTrace'[c][j].field)
    BY DEF TracesPlaced
  <2>1. CASE c = source
    BY <1>5, <1>13, <2>1
  <2>2. CASE c # source
    BY <1>4, <1>12, <2>2 DEF GroundInd, TracesPlaced
  <2> QED
    BY <2>1, <2>2
<1> QED
  BY <1>3, <1>11, <1>12, <1>14 DEF GroundInd

(* The substrate stays sound through every observation, capture, word and  *)
(* document (GroundVectorAt, SenseFields, GroundObservation, StoreSurface, *)
(* ProcessKnowledgeDocument).                                              *)
THEOREM GroundInvariance == USpec => []GroundInd
<1>1. UInit => GroundInd
  BY StartSound
<1>2. ASSUME GroundInd, [UNext]_uVars PROVE GroundInd'
  <2>0. Sound(Substrate) /\ USize \in Nat \ {0} /\ \A word \in UWord : word \in 0..UTop
    <3>1. USize \in Nat /\ USize > 1
      BY UAssumption
    <3>2. UWord \subseteq 0..UTop
      BY UAssumption, Zenon
    <3> QED
      BY <1>2, <3>1, <3>2 DEF GroundInd
  <2>1. ASSUME NEW value \in 0..UTop, GroundVectorAt(value) PROVE GroundInd'
    <3>1. PICK answer \in ProjectStable(Substrate, value, 0) : Becomes(answer.s)
      BY <2>1 DEF GroundVectorAt
    <3>2. Answers(Substrate, Unscoped, answer)
      BY <2>0, StableAnswers
    <3> QED
      BY <1>2, <2>1, <3>1, <3>2, AnswersKept DEF GroundVectorAt
  <2>2. ASSUME NEW value \in 0..UTop, NEW noise \in UNoise, SenseReading(value, noise)
        PROVE  GroundInd'
    <3>1. PICK answer \in ProjectStable(Substrate, value, noise) :
             Cognise(answer.s, Members(answer.s, {answer.pop}))
      BY <2>2 DEF SenseReading
    <3>2. Answers(Substrate, Unscoped, answer)
      BY <2>0, StableAnswers
    <3> QED
      BY <1>2, <2>2, <3>1, <3>2, AnswersKept DEF SenseReading
  <2>3. ASSUME NEW source \in UCamera, NEW capture \in UCapture, SenseFields(source, capture)
        PROVE  GroundInd'
    BY <1>2, <2>3, FieldsKeep
  <2>4. ASSUME NEW word \in UWord, GroundObservation(word) PROVE GroundInd'
    <3>1. PICK answer \in ProjectWrittenNumeric(Substrate, word, UNear, USize) :
             Cognise(answer.s, Members(answer.s, {answer.pop}))
      BY <2>4 DEF GroundObservation
    <3>2. Answers(Substrate, Written, answer)
      BY <2>0, WrittenAnswers
    <3> QED
      BY <1>2, <2>4, <3>1, <3>2, AnswersKept DEF GroundObservation
  <2>5. ASSUME NEW word \in UWord, StoreSurface(word) PROVE GroundInd'
    <3>1. PICK near \in {-1, 0} :
             \E answer \in ProjectWrittenNumeric(Substrate, word, near, 1) : Becomes(answer.s)
      BY <2>5 DEF StoreSurface
    <3>2. PICK answer \in ProjectWrittenNumeric(Substrate, word, near, 1) : Becomes(answer.s)
      BY <3>1
    <3> DEFINE one == 1
    <3>3. one \in Nat \ {0} /\ answer \in ProjectWrittenNumeric(Substrate, word, near, one)
      OBVIOUS
    <3> HIDE DEF one
    <3>4. Answers(Substrate, Written, answer)
      BY <2>0, <3>3, WrittenAnswers
    <3> QED
      BY <1>2, <2>5, <3>2, <3>4, AnswersKept DEF StoreSurface
  <2>6. ASSUME NEW document \in UDocument, ProcessKnowledgeDocument(document) PROVE GroundInd'
    <3> DEFINE states == <<document.before, document.after>>
    <3>1. PICK s \in LearnVectors(Substrate, states) :
             \E answer \in ProjectWrittenNumeric(s, document.word, UNear, USize) :
               Cognise(answer.s, Members(answer.s, {answer.pop}))
      BY <2>6 DEF ProcessKnowledgeDocument
    <3>2. PICK answer \in ProjectWrittenNumeric(s, document.word, UNear, USize) :
             Cognise(answer.s, Members(answer.s, {answer.pop}))
      BY <3>1
    <3>3. document.word \in UWord /\ states \in Seq(0..UTop)
      BY UAssumption
    <3> HIDE DEF states
    <3>4. Sound(s) /\ Extends(Substrate, s)
      BY <2>0, <3>3, LearningSound
    <3>5. Answers(s, Written, answer)
      BY <2>0, <3>3, <3>4, WrittenAnswers
    <3>6. Answers(Substrate, Written, answer)
      BY <3>4, <3>5, ExtendsOnward DEF Answers
    <3> QED
      BY <1>2, <2>6, <3>2, <3>6, AnswersKept DEF ProcessKnowledgeDocument
  <2>7. CASE UNCHANGED uVars
    BY <1>2, <2>7 DEF uVars, GroundInd, Substrate, TracesPlaced, LinksPlaced
  <2> QED
    BY <1>2, <2>1, <2>2, <2>3, <2>4, <2>5, <2>6, <2>7 DEF UNext
<1> QED
  BY <1>1, <1>2, PTL DEF USpec

(* A sound substrate keeps every route: what is apart and present is       *)
(* found.                                                                  *)
LEMMA RoutesFollow == GroundInd => RoutesKept
<1> SUFFICES ASSUME GroundInd PROVE RoutesKept
  OBVIOUS
<1> DEFINE s == Substrate
<1>1. /\ Sound(s) /\ s.pops = uPops /\ s.heard = uHeard /\ s.rep = uRep
      /\ DOMAIN uHeard = DOMAIN uPops
  <2>1. s.pops = uPops /\ s.heard = uHeard /\ s.rep = uRep
    BY DEF Substrate
  <2>2. Sound(s)
    BY DEF GroundInd
  <2> QED
    BY <2>1, <2>2, LenProperties DEF Sound, Substrates, PrototypesHeard
<1> HIDE DEF s
<1>2. ASSUME NEW i \in DOMAIN uHeard, uHeard[i] # NoReading
      PROVE  /\ i \in DOMAIN s.pops /\ ~Bootstrap(s.pops[i]) /\ s.pops[i].bootstrap = FALSE
             /\ uHeard[i].scope = s.pops[i].scope /\ uHeard[i].value = s.pops[i].proto
             /\ s.pops[i].proto \in 0..UTop /\ s.pops[i] \in Populations
  BY <1>1, <1>2, PopulationsTyped DEF Sound, PrototypesHeard, Bootstrap, Populations
<1>3. ASSUME NEW i \in DOMAIN s.pops, NEW j \in DOMAIN s.pops, i # j,
             ~Bootstrap(s.pops[i]), ~Bootstrap(s.pops[j]), s.pops[i].scope = s.pops[j].scope
      PROVE  ~Confusable(s.pops[i].scope, s.pops[i].proto, s.pops[j].proto)
  BY <1>1, <1>3 DEF Sound, PrototypesApart
<1>4. ASSUME NEW i \in DOMAIN uHeard, uHeard[i] # NoReading, uHeard[i].scope = Unscoped, NEW noise
      PROVE  StableMatch(s, uHeard[i].value, noise) = {i}
  <2> DEFINE exact == {j \in Basins(s) : s.pops[j].proto = uHeard[i].value}
  <2>1. i \in exact
    BY <1>1, <1>2, <1>4 DEF Basins, InScope, Sound, Recoverable
  <2>2. \A j \in exact : j = i
    BY <1>2, <1>3, <1>4, ScopesDiffer, ZenonT(40) DEF Basins, InScope, Confusable, Bootstrap
  <2>3. exact = {i} /\ i \in Nat
    BY <1>1, <1>2, <1>4, <2>1, <2>2, PopulationsTyped
  <2>4. FirstOf(exact) = i
    <3> HIDE DEF exact
    <3> QED
      BY <2>3, FirstOfIs
  <2> QED
    BY <2>3, <2>4 DEF StableMatch
<1>5. ASSUME NEW i \in DOMAIN uHeard, uHeard[i] # NoReading, uHeard[i].scope = Written
      PROVE  WrittenMatch(s, uHeard[i].value) = {i}
  <2>1. \A j \in DOMAIN s.pops : s.pops[j].scope = Written => ~Bootstrap(s.pops[j])
    BY <1>1, ScopesDiffer DEF Sound, PrototypesHeard
  <2>2. i \in WrittenMatch(s, uHeard[i].value)
    BY <1>2, <1>5 DEF WrittenMatch, InScope
  <2>3. \A j \in WrittenMatch(s, uHeard[i].value) : j = i
    BY <1>2, <1>3, <1>5, <2>1, ScopesDiffer, ZenonT(40) DEF WrittenMatch, InScope, Confusable
  <2> QED
    BY <2>2, <2>3
<1>6. ASSUME NEW i \in DOMAIN uHeard, uHeard[i] # NoReading,
             uHeard[i].scope # Unscoped, uHeard[i].scope # Written
      PROVE  FieldMatch(s, uHeard[i].scope, uHeard[i].value) = {i}
  <2> DEFINE scope == uHeard[i].scope
             value == uHeard[i].value
  <2>0. scope \in FieldScopes /\ scope = s.pops[i].scope /\ value = s.pops[i].proto
    BY <1>2, <1>6 DEF Populations, Scopes
  <2>1. \A j \in DOMAIN s.pops : s.pops[j].scope = scope => ~Bootstrap(s.pops[j])
    BY <1>1, <1>6, ScopesDiffer DEF Sound, PrototypesHeard
  <2>2. i \in InScope(s, scope) /\ Away(s.pops[i].proto, value) <= UNear
    <3>1. UNear \in Nat /\ 0 <= UNear
      BY UAssumption
    <3>0. value \in Int
      BY <1>1, <1>2, <1>6, <2>0, PopulationsTyped
    <3> HIDE DEF value
    <3>2. PICK v \in Int : v = value
      BY <3>0
    <3>3. Away(v, v) = 0
      BY DEF Away
    <3> QED
      BY <1>2, <1>6, <2>0, <3>1, <3>2, <3>3 DEF InScope, value
  <2>3. ASSUME NEW j \in FieldMatch(s, scope, value) PROVE j = i
    <3>1. j \in InScope(s, scope) /\ Away(s.pops[j].proto, value) <= UNear
      BY <2>3 DEF FieldMatch
    <3> QED
      BY <1>2, <1>3, <1>6, <2>0, <2>1, <3>1 DEF InScope, Confusable
  <2>4. FieldMatch(s, scope, value) # {}
    BY <1>1, <1>2, <1>6, <2>0, <2>2, FieldMatches
  <2> QED
    BY <2>3, <2>4
<1>7. OwnRoute
  BY <1>4, <1>5, <1>6 DEF OwnRoute, s
<1>8. FieldsApart
  <2>1. \A i \in DOMAIN uPops : uPops[i].scope \notin {Unscoped, Written} => uPops[i].scope \in FieldScopes
    BY <1>1, PopulationsTyped DEF Populations, Scopes
  <2>2. \A i, j \in DOMAIN uPops :
          uPops[i].scope \notin {Unscoped, Written} /\ uPops[j].scope # uPops[i].scope
          => Range(uPops[i].units) \cap Range(uPops[j].units) = {}
    BY <1>1, <2>1 DEF Sound, UnitsApart
  <2> QED
    BY <2>2 DEF FieldsApart, GroundInd, LinksPlaced
<1>9. ValidateWrittenNumericState(s)
  <2>1. ASSUME NEW i \in InScope(s, Written), NEW j \in InScope(s, Written),
               s.pops[i].proto = s.pops[j].proto
        PROVE  i = j
    BY <1>1, <1>3, <2>1, ScopesDiffer DEF InScope, Confusable, Sound, PrototypesHeard
  <2>2. \A i \in InScope(s, Written) : i \in DOMAIN s.pops
    BY DEF InScope
  <2> QED
    BY <1>1, <2>1, <2>2 DEF ValidateWrittenNumericState, Sound, UnitsSound
<1> QED
  BY <1>7, <1>8, <1>9 DEF RoutesKept, s

(* A measurement or word recovers the population it recruited after any    *)
(* sequence of observations, sensory captures, words and documents, the    *)
(* units of a field serve its coordinate system alone, and what is saved   *)
(* passes ValidateWrittenNumericState (findStableProjectionPopulation,     *)
(* projectWrittenNumeric, ProjectSensoryFieldAt, learnSensorFieldsLocked). *)
THEOREM RoutesStand == USpec => []RoutesKept
BY GroundInvariance, RoutesFollow, PTL
=============================================================================
