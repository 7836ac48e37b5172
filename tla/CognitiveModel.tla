---------------------------- MODULE CognitiveModel ----------------------------
(***************************************************************************)
(* The recurrent cognitive model inside the Brain: its journaled commands,  *)
(* which parameters each training objective may move, the parameter digest  *)
(* that ties a batch to the weights it was recorded on, the experimental    *)
(* circuits added in phases, and what a checkpoint of the model must pass   *)
(* when it is restored (runtime/cognitive_model.go, runtime/persistence.go, *)
(* knowledge/cognitive_*.go).                                               *)
(*                                                                          *)
(* Abstractions.  A weight group is moved or it is not, and moved weights   *)
(* never return to earlier values, so a digest is current until a group it  *)
(* covers moves.  A gradient moves all of an objective's groups or vanishes.*)
(* Every batch is otherwise well formed, on-policy and backed by evidence.  *)
(* An ordinary event comes later than the weights it charges, or charges    *)
(* nothing.  Every restart finds the same commands in its journal.          *)
(***************************************************************************)
EXTENDS Integers, FiniteSets

CONSTANTS
    MBatch,   \* recorded batches that callers may keep
    MaxMRev   \* bound: revisions

(* Observation GRU; what only terminal plans use: the plan columns of its   *)
(* input and the immediate row of the assessment; the other rows; the       *)
(* reward readout; actor and critic; the world decoder (V1) or the joint    *)
(* categorical head (V2); the head of Phase II; the metapolicy of Phase IV. *)
Parameters == {"recurrent", "plan", "rows", "reward", "actor", "world", "head", "policy"}
(* Parameters outside the digest: the BMPS mixture and the temperatures.    *)
Apart == {"mixture", "temperatures"}

Unkept == "recorded now"

ASSUME MAssumption == MaxMRev \in Nat /\ Unkept \notin MBatch

VARIABLES
    mModel,   \* the topology: version, Phase II circuit, Phase IV, contract
    mMixture, \* the BMPS mixture lies on the simplex
    mClock,   \* OptimizerStep and Phase2V5.HeadSteps
    mRev,     \* revisions
    mDone,    \* command ID -> how often it was applied
    mIndex,   \* cognitiveCommandIndex: a set of IDs, unbuilt after a restart
    mBuilt,   \* whether the index was built
    mSame,    \* kept batches whose ParametersHash is the current digest
    mTaken,   \* kept batches that were recorded
    mLearned, \* how often a kept batch moved the weights
    mLast,    \* the parameters the last revision moved, and why
    mStuck    \* a durable command failed; every replay fails the same way

mVars == <<mModel, mMixture, mClock, mRev, mDone, mIndex, mBuilt,
           mSame, mTaken, mLearned, mLast, mStuck>>

NoModel == [version |-> "none", head |-> "none", gru |-> FALSE,
            phase4 |-> FALSE, contract |-> FALSE]

MInit ==
    /\ mModel = NoModel /\ mMixture = TRUE
    /\ mClock = [opt |-> 0, head |-> 0]
    /\ mRev = 0
    /\ mDone = [id \in 1 .. MaxMRev |-> 0] /\ mIndex = {} /\ mBuilt = FALSE
    /\ mSame = {} /\ mTaken = {} /\ mLearned = [b \in MBatch |-> 0]
    /\ mLast = [by |-> "nothing", moved |-> {}]
    /\ mStuck = FALSE

Modelled == mModel.version # "none"
Native == mModel.version = "v2"

-----------------------------------------------------------------------------
(* Commands and their identities.                                          *)

(* Built at the first command of a process from the processed events. *)
Index == IF mBuilt THEN mIndex ELSE {id \in DOMAIN mDone : mDone[id] > 0}

Revise(by, moved) ==
    /\ mRev < MaxMRev
    /\ mRev' = mRev + 1
    /\ mLast' = [by |-> by, moved |-> moved]
    /\ mSame' = IF moved \cap Parameters = {} THEN mSame ELSE {}
    /\ UNCHANGED mTaken

(* A command whose ID is not in the index is applied, whatever it says. *)
Apply(id, by, moved) ==
    /\ ~mStuck
    /\ id \notin Index
    /\ Revise(by, moved)
    /\ mDone' = [mDone EXCEPT ![id] = @ + 1]
    /\ mIndex' = Index \cup {id} /\ mBuilt' = TRUE
    /\ UNCHANGED mStuck

(* The same command again: a duplicate changes nothing but builds the index. *)
Duplicate(id) ==
    /\ ~mStuck /\ id \in Index
    /\ mIndex' = Index /\ mBuilt' = TRUE
    /\ UNCHANGED <<mModel, mMixture, mClock, mRev, mDone, mSame, mTaken, mLearned, mLast, mStuck>>

(* A command that passes the checks, is durable, and fails when applied. *)
Strand ==
    /\ ~mStuck
    /\ mStuck' = TRUE
    /\ UNCHANGED <<mModel, mMixture, mClock, mRev, mDone, mIndex, mBuilt,
                   mSame, mTaken, mLearned, mLast>>

(* RestoreCheckpoint and the replay: the index is derived again. *)
MRestart ==
    /\ ~mStuck
    /\ mBuilt' = FALSE /\ mIndex' = {}
    /\ UNCHANGED <<mModel, mMixture, mClock, mRev, mDone, mSame, mTaken, mLearned, mLast, mStuck>>

(* A caller records a batch on the current weights and keeps it. *)
RecordBatch(b) ==
    /\ Modelled /\ b \notin mTaken
    /\ mTaken' = mTaken \cup {b} /\ mSame' = mSame \cup {b}
    /\ UNCHANGED <<mModel, mMixture, mClock, mRev, mDone, mIndex, mBuilt, mLearned, mLast, mStuck>>

(* Mutant: the digest is not compared. *)
StaleAccepted(b) == b = Unkept \/ b \in mTaken
(* "stale cognitive training parameter hash" *)
Current(b) == b = Unkept \/ b \in mSame

(* A batch is learned when it is current; its gradient moves the mask. *)
Learn(id, b, by, mask, clock) ==
    /\ Current(b)
    /\ \E moved \in {mask, {}} :
         /\ Apply(id, by, moved)
         /\ mLearned' = [c \in MBatch |-> mLearned[c] + IF c = b /\ moved # {} THEN 1 ELSE 0]
    /\ mClock' = clock
    /\ UNCHANGED mMixture

Stepped == [mClock EXCEPT !.opt = @ + 1]

-----------------------------------------------------------------------------
(* The native model.                                                       *)

(* Mutant: every command is applied to a frozen model. *)
SubstrateAlwaysOpen == TRUE
(* "Phase IV frozen substrate requires explicit metapolicy update" *)
SubstrateOpen == ~mModel.phase4

Topology(version) ==
    {"recurrent", "plan", "rows", "actor", "world"} \cup IF version = "v2" THEN {"reward"} ELSE {}

InitializeCognitiveModel(id, version) ==
    /\ ~Modelled
    /\ Apply(id, "allocation", Topology(version) \cup Apart)
    /\ mModel' = [mModel EXCEPT !.version = version]
    /\ UNCHANGED <<mMixture, mClock, mLearned>>

(* Activations of the units move, no parameter does. *)
AdvanceCognitiveModel(id) ==
    /\ Modelled /\ SubstrateOpen
    /\ Apply(id, "input", {})
    /\ UNCHANGED <<mModel, mMixture, mClock, mLearned>>

TerminalReadout == {"plan", "rows", "reward"}

(* The masks of a training batch: all, the terminal readout, one component. *)
TrainingMask ==
    {Topology(mModel.version)}
    \cup IF Native THEN {TerminalReadout, {"world"}, {"actor"}} ELSE {}

LearnCognitiveBatch(id, b, mask) ==
    /\ Modelled /\ SubstrateOpen /\ mModel.head = "none"
    /\ mask \in TrainingMask
    /\ Learn(id, b, "training", mask, Stepped)
    /\ UNCHANGED mModel

(* Finite rewards whose returns overflow: the gradient is refused after the *)
(* command is durable.                                                      *)
LearnOverflowing(b) ==
    /\ Modelled /\ SubstrateOpen /\ mModel.head = "none"
    /\ Current(b)
    /\ Strand

(* Fits the temperatures.  A V1 model or a batch of the actor component     *)
(* passes every check made before the command is durable.                   *)
CalibrateNeuralMeta(id, b) ==
    /\ Modelled /\ SubstrateOpen /\ mModel.head = "none"
    /\ Current(b)
    /\ \/ Native /\ Apply(id, "calibration", {"temperatures"})
                 /\ UNCHANGED <<mModel, mMixture, mClock, mLearned>>
       \/ Strand

(* The mixture of the best of the proposed points, which lies on the simplex. *)
FitCognitiveBMPS(id) ==
    /\ Modelled
    /\ SubstrateOpen \/ mModel.contract
    /\ Apply(id, "search", {"mixture"})
    /\ mMixture' = TRUE
    /\ UNCHANGED <<mModel, mClock, mLearned>>

-----------------------------------------------------------------------------
(* Phases II and III.                                                      *)

InitializePhase2V5(id, head, gru) ==
    /\ Native /\ mModel.head = "none" /\ SubstrateOpen
    /\ Apply(id, "allocation", IF head = "categorical" THEN {} ELSE {"head"})
    /\ mModel' = [mModel EXCEPT !.head = head, !.gru = gru]
    /\ UNCHANGED <<mMixture, mClock, mLearned>>

(* phase2MutableV5, and FreezeHead. *)
Phase2Mask(frozen) ==
    (IF frozen THEN {} ELSE IF mModel.head = "categorical" THEN {"world"} ELSE {"head"})
    \cup IF mModel.gru THEN {"recurrent"} ELSE {}

LearnPhase2V5(id, b, frozen) ==
    /\ mModel.head # "none" /\ SubstrateOpen
    /\ Learn(id, b, "phase2", Phase2Mask(frozen),
             [opt |-> mClock.opt + 1, head |-> mClock.head + IF frozen THEN 0 ELSE 1])
    /\ UNCHANGED mModel

(* The terminal readout of an experimental model. *)
LearnPhase3(id, b) ==
    /\ mModel.head # "none" /\ SubstrateOpen
    /\ Learn(id, b, "phase3", TerminalReadout, Stepped)
    /\ UNCHANGED mModel

-----------------------------------------------------------------------------
(* Phase IV: a metapolicy on the frozen model, then coordinated learning.  *)

InitializePhase4V5(id) ==
    /\ mModel.head # "none" /\ SubstrateOpen
    /\ Apply(id, "allocation", {"policy"})
    /\ mModel' = [mModel EXCEPT !.phase4 = TRUE]
    /\ UNCHANGED <<mMixture, mClock, mLearned>>

(* Updates of the metapolicy alone end with the first coordinated batch.    *)
LearnPhase4V5(id, b) ==
    /\ mModel.phase4 /\ ~mModel.contract
    /\ Learn(id, b, "phase4", {"policy"}, mClock)
    /\ UNCHANGED mModel

Coordinate(id, b, by, mask, clock) ==
    /\ mModel.phase4
    /\ Learn(id, b, by, mask, clock)
    /\ mModel' = [mModel EXCEPT !.contract = TRUE]

LearnCoordinatedV5(id, b) ==
    Coordinate(id, b, "coordinated", {"policy", "plan", "reward"}, Stepped)

(* An assessment batch trains no policy; the GRU may be held.               *)
FidelityMask(assessment, frozen) ==
    {"plan"} \cup (IF assessment THEN {} ELSE {"policy"})
             \cup (IF assessment \/ frozen THEN {} ELSE {"recurrent"})

LearnFidelityV5(id, b, assessment, frozen) ==
    Coordinate(id, b, IF assessment \/ frozen THEN "fidelity, held" ELSE "fidelity",
               FidelityMask(assessment, frozen), Stepped)

LearnTerminalUtilityV5(id, b) ==
    Coordinate(id, b, "utility", {"policy"}, mClock)

-----------------------------------------------------------------------------
(* Any other event of the journal settles retention first: every weight     *)
(* decays, the frozen ones and the mixture too.                             *)
OrdinaryEvent(charged) ==
    /\ ~mStuck /\ Modelled
    /\ Revise("retention", IF charged THEN Parameters \cup Apart ELSE {})
    /\ mMixture' = (mMixture /\ ~charged)
    /\ UNCHANGED <<mModel, mClock, mDone, mIndex, mBuilt, mLearned, mStuck>>

(* The next ID; an ID in use is only ever a duplicate. *)
NewID == {id \in DOMAIN mDone : id = mRev + 1 \/ mDone[id] > 0}

MNext ==
    \/ MRestart
    \/ \E charged \in BOOLEAN : OrdinaryEvent(charged)
    \/ \E b \in MBatch : RecordBatch(b)
    \/ \E b \in MBatch \cup {Unkept} : LearnOverflowing(b)
    \/ \E id \in NewID :
         \/ Duplicate(id)
         \/ \E version \in {"v1", "v2"} : InitializeCognitiveModel(id, version)
         \/ AdvanceCognitiveModel(id) \/ FitCognitiveBMPS(id) \/ InitializePhase4V5(id)
         \/ \E head \in {"categorical", "pairwise"}, gru \in BOOLEAN : InitializePhase2V5(id, head, gru)
         \/ \E b \in MBatch \cup {Unkept} :
              \/ CalibrateNeuralMeta(id, b)
              \/ \E mask \in TrainingMask : LearnCognitiveBatch(id, b, mask)
              \/ \E frozen \in BOOLEAN : LearnPhase2V5(id, b, frozen)
              \/ LearnPhase3(id, b) \/ LearnPhase4V5(id, b)
              \/ LearnCoordinatedV5(id, b) \/ LearnTerminalUtilityV5(id, b)
              \/ \E assessment, frozen \in BOOLEAN : LearnFidelityV5(id, b, assessment, frozen)

MSpec == MInit /\ [][MNext]_mVars

-----------------------------------------------------------------------------
(* Checkpoints of the model.                                               *)

(* checkpointLocked: the newest contract the model uses. *)
CheckpointSchema ==
    CASE mModel.contract        -> 19
      [] mModel.phase4 /\ ~mModel.contract -> 18
      [] mModel.head # "none" /\ ~mModel.phase4 -> 17
      [] OTHER -> IF Native THEN 16 ELSE 15

CanonicalSchema == IF mModel.contract THEN 6 ELSE IF Native THEN 5 ELSE 4

(* ValidateCognitiveModelState: topology and signed parameters are as they  *)
(* were allocated; the clocks and the mixture may have changed.             *)
ModelValidates(schema) ==
    /\ schema = 4 <=> mModel.version = "v1"
    /\ schema = 6 <=> mModel.contract
    /\ mModel.head # "none" => mClock.head <= mClock.opt
    /\ mMixture

(* RestoreCheckpoint, as far as it looks at the model. *)
Restores(version, schema) ==
    /\ mModel.head # "none" <=> version \in {17, 18, 19}
    /\ mModel.phase4 <=> version \in {18, 19}
    /\ Native => version >= 16
    /\ mModel.contract <=> version = 19
    /\ ModelValidates(schema)

-----------------------------------------------------------------------------
(* Properties.                                                             *)

(* A cognitive command is applied once under its ID, also by the process    *)
(* that derives its index again from the events it replayed                 *)
(* (runtime/cognitive_model.go:156-170); and a recorded batch moves the     *)
(* weights once, under whatever command and ID it is sent again: it is      *)
(* bound to the digest of the weights it was recorded on, and decay between *)
(* recording and learning makes it stale (knowledge/cognitive_learning.go:  *)
(* 283 and the same check of every phase).                                  *)
EvidenceOnce ==
    /\ \A id \in DOMAIN mDone : mDone[id] <= 1
    /\ \A b \in MBatch : mLearned[b] <= 1

(* Once the metapolicy exists, training moves the observation GRU only by a *)
(* complete fidelity batch that does not hold it, and the world, the actor, *)
(* the critic and the Phase II head not at all; what else moves them is     *)
(* retention (docs/research/V5_THREE_MECHANISMS.md, "remain protected").    *)
SubstrateProtected ==
    mModel.phase4 /\ mLast.by # "retention" =>
        /\ mLast.moved \cap {"world", "actor", "rows", "head"} = {}
        /\ "recurrent" \in mLast.moved => mLast.by = "fidelity"

(* A checkpoint the runtime writes of a model it serves can be restored:    *)
(* cognitive_model.go says of the mixture "BMPS constraints: simplex        *)
(* mixture; cost multiplier in [1,h]".                                      *)
CheckpointRestores == Modelled => Restores(CheckpointSchema, CanonicalSchema)
=============================================================================
