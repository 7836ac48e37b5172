--------------------------- MODULE ActionLoopProofs ---------------------------
(***************************************************************************)
(* What ActionLoop keeps for any request identities, reporters, groups,    *)
(* synapses and bounds: one dispatch of a request per process, one move of *)
(* the device per composition action over all processes, a scene that      *)
(* stands still while an action is on its way, promotions that two         *)
(* independent reports support; and for any experience and inputs of       *)
(* Inquiry, answers that are credited only with what they told.            *)
(***************************************************************************)
EXTENDS ActionLoop, Inquiry, FoldTheorems, FiniteSetTheorems, SequenceTheorems, TLAPS
-----------------------------------------------------------------------------
(* The types of the variables. *)
Proposal == [seq : Nat, scene : Nat]
Request  == [id : Id, motor : BOOLEAN, level : Level, human : BOOLEAN,
             expiry : Nat, numeric : BOOLEAN]
Binding  == [ref : Nat, syn : Synapse \cup {"none", "unbound"}]
Lease    == [id : Id, ref : Nat, scene : Nat, expiry : Nat \ {0}]

BrainTypes ==
    /\ now \in Nat \ {0} /\ rev \in Nat /\ scene \in Nat
    /\ binding \in [Id -> Binding]
    /\ gain \in Nat /\ ledger \subseteq Report /\ IsFiniteSet(ledger)

ProcessTypes ==
    /\ held \subseteq Request /\ admitted \subseteq Request
    /\ proposals \subseteq Proposal
    /\ lease \in Lease \cup {NoLease}
    /\ acts \in [Id -> Nat] /\ moved \in [Id -> Nat]

(* The composition action that owns the mutation lease has a journaled     *)
(* binding of its own, has not moved the device, and was computed on the   *)
(* revision and the scene the Brain still has.                             *)
LeaseOwned ==
    lease # NoLease =>
        /\ Bound(lease.id) /\ moved[lease.id] = 0
        /\ rev = lease.ref + 1 /\ scene = lease.scene

(* The gateway holds no numeric request but that of the lease, and callers *)
(* hold none.                                                              *)
NumericUnderLease ==
    /\ \A request \in held : ~request.numeric
    /\ \A request \in admitted :
          request.numeric => lease # NoLease /\ request = Leased

(* An ID that moved the device is bound for good. *)
MovedIsBound == \A id \in Id : moved[id] <= 1 /\ (~Bound(id) => moved[id] = 0)

(* What was dispatched is recorded. *)
DispatchedIsExecuted ==
    \A id \in Id : acts[id] <= 1 /\ (id \notin executed => acts[id] = 0)

AInd ==
    /\ BrainTypes /\ ProcessTypes
    /\ LeaseOwned /\ NumericUnderLease /\ MovedIsBound /\ DispatchedIsExecuted

LEMMA AInitInd == AInit => AInd
<1> SUFFICES ASSUME AInit PROVE AInd
  OBVIOUS
<1>1. BrainTypes
  BY FS_EmptySet DEF AInit, BrainTypes, Binding, NoBinding
<1>2. ProcessTypes
  BY DEF AInit, ProcessTypes
<1>3. LeaseOwned /\ NumericUnderLease /\ MovedIsBound /\ DispatchedIsExecuted
  BY DEF AInit, LeaseOwned, NumericUnderLease, MovedIsBound, DispatchedIsExecuted
<1> QED
  BY <1>1, <1>2, <1>3 DEF AInd
-----------------------------------------------------------------------------
(* Commands of the Brain. They wait for the lease, so nothing is leased.   *)

(* A command that changes the scene at most: only time and revision count. *)
LEMMA ObservationsKeep ==
    ASSUME AInd,
           \/ Tick \/ OtherCommand
           \/ \E t \in 1 .. MaxTime : SceneObserved(t) \/ InputPerceived(t)
           \/ \E before, after \in 1 .. MaxTime : LessonLearned(before, after)
    PROVE  AInd'
<1> USE DEF AInd, Mutable, aBrain, gateway, caller
<1>1. CASE Tick
  BY <1>1 DEF Tick, BrainTypes, ProcessTypes, LeaseOwned, NumericUnderLease, MovedIsBound,
     DispatchedIsExecuted, Bound, Leased
<1>2. CASE OtherCommand
  BY <1>2 DEF OtherCommand, BrainTypes, ProcessTypes, LeaseOwned, NumericUnderLease,
     MovedIsBound, DispatchedIsExecuted, Bound
<1>3. ASSUME NEW t \in 1 .. MaxTime, SceneObserved(t) \/ InputPerceived(t) PROVE AInd'
  BY <1>3, ABoundAssumption DEF SceneObserved, InputPerceived, BrainTypes, ProcessTypes,
     LeaseOwned, NumericUnderLease, MovedIsBound, DispatchedIsExecuted, Bound
<1>4. ASSUME NEW before \in 1 .. MaxTime, NEW after \in 1 .. MaxTime,
             LessonLearned(before, after)
      PROVE  AInd'
  <2>1. scene' \in Nat
    BY <1>4, ABoundAssumption DEF LessonLearned, BrainTypes
  <2> QED
    BY <1>4, <2>1 DEF LessonLearned, BrainTypes, ProcessTypes,
       LeaseOwned, NumericUnderLease, MovedIsBound, DispatchedIsExecuted, Bound
<1> QED
  BY <1>1, <1>2, <1>3, <1>4

LEMMA RegisterActionBindingKeeps ==
    ASSUME AInd, NEW id \in Id, NEW syn \in Synapse \cup {"none"}, RegisterActionBinding(id, syn)
    PROVE  AInd'
<1> USE DEF AInd, RegisterActionBinding, Mutable, gateway, caller
<1>1. BrainTypes'
  BY DEF BrainTypes, Binding
<1>2. \A k \in Id : Bound(k) => Bound(k)'
  BY DEF Bound, BrainTypes
<1>3. ProcessTypes' /\ LeaseOwned' /\ NumericUnderLease' /\ DispatchedIsExecuted'
  BY DEF ProcessTypes, LeaseOwned, NumericUnderLease, DispatchedIsExecuted
<1>4. MovedIsBound'
  BY <1>2 DEF MovedIsBound
<1> QED
  BY <1>1, <1>3, <1>4

(* A report, alone or with its inquiry: ledger and gain move.              *)
LEMMA ApplyOutcomeKeeps ==
    ASSUME AInd, NEW record \in Report, ApplyOutcome(record), Mutable, rev' = rev + 1,
           UNCHANGED <<now, scene, binding, gateway, caller, lease>>
    PROVE  AInd'
<1> USE DEF AInd, gateway, caller
<1>1. ledger' \subseteq Report /\ IsFiniteSet(ledger')
  BY FS_AddElement DEF ApplyOutcome, BrainTypes
<1>2. gain' \in Nat
  BY DEF ApplyOutcome, BrainTypes
<1>3. BrainTypes'
  BY <1>1, <1>2 DEF BrainTypes
<1>4. /\ ProcessTypes' /\ LeaseOwned' /\ NumericUnderLease' /\ MovedIsBound'
      /\ DispatchedIsExecuted'
  BY DEF Mutable, ProcessTypes, LeaseOwned, NumericUnderLease, MovedIsBound,
     DispatchedIsExecuted, Bound
<1> QED
  BY <1>3, <1>4

LEMMA BeginCompositionActionKeeps ==
    ASSUME AInd, NEW p \in proposals, NEW id \in Id, NEW approver \in BOOLEAN,
           NEW life \in 1 .. Life, BeginCompositionAction(p, id, approver, life)
    PROVE  AInd'
<1> USE DEF AInd, BeginCompositionAction, Mutable, gateway, caller
<1>1. /\ p.seq \in Nat /\ p.scene \in Nat /\ p.seq = rev /\ p.scene = scene
      /\ life \in Nat \ {0} /\ ~Bound(id)
  BY ABoundAssumption DEF ProcessTypes, Proposal, CurrentProposal, Bindable
<1> DEFINE bound == binding' = [binding EXCEPT ![id] = [ref |-> p.seq + 1, syn |-> "none"]]
<1>2. bound => BrainTypes' /\ Bound(id)' /\ \A k \in Id : Bound(k) => Bound(k)'
  BY <1>1 DEF BrainTypes, Binding, Bound, NoBinding
<1>3. CASE bound /\ rev' = rev + 1
           /\ lease' = [id |-> id, ref |-> p.seq, scene |-> p.scene, expiry |-> now + life]
  <2>1. lease' \in Lease
    BY <1>1, <1>3 DEF Lease, BrainTypes
  <2>2. moved[id] = 0
    BY <1>1 DEF MovedIsBound
  <2>3. LeaseOwned'
    BY <1>1, <1>2, <1>3, <2>2 DEF LeaseOwned
  <2>4. NumericUnderLease'
    BY DEF NumericUnderLease
  <2>5. ProcessTypes' /\ MovedIsBound' /\ DispatchedIsExecuted'
    BY <1>2, <1>3, <2>1 DEF ProcessTypes, MovedIsBound, DispatchedIsExecuted
  <2> QED
    BY <1>2, <1>3, <2>3, <2>4, <2>5
<1>4. CASE lease' = lease /\ bound /\ rev' = rev + 1
  BY <1>2, <1>4 DEF ProcessTypes, LeaseOwned, NumericUnderLease, MovedIsBound,
     DispatchedIsExecuted
<1>5. CASE lease' = lease /\ UNCHANGED <<binding, rev>>
  BY <1>5 DEF BrainTypes, ProcessTypes, LeaseOwned, NumericUnderLease, MovedIsBound,
     DispatchedIsExecuted, Bound
<1> QED
  BY <1>3, <1>4, <1>5
-----------------------------------------------------------------------------
(* Callers and gateway. *)

LEMMA CallersKeep ==
    ASSUME AInd, ReadProposal \/ RegisterMotorActuator \/ ProcessRecovers
    PROVE  AInd'
<1> USE DEF AInd, aBrain, gateway, caller
<1>1. CASE ReadProposal
  BY <1>1 DEF ReadProposal, Proposal, BrainTypes, ProcessTypes, LeaseOwned, NumericUnderLease,
     MovedIsBound, DispatchedIsExecuted, Bound, Leased
<1>2. CASE RegisterMotorActuator \/ ProcessRecovers
  BY <1>2 DEF RegisterMotorActuator, ProcessRecovers, BrainTypes, ProcessTypes, LeaseOwned,
     NumericUnderLease, MovedIsBound, DispatchedIsExecuted, Bound, Leased
<1> QED
  BY <1>1, <1>2

LEMMA AuthorizeKeeps ==
    ASSUME AInd, NEW id \in Id, NEW motor \in BOOLEAN, NEW level \in Level,
           NEW approver \in BOOLEAN, NEW life \in 1 .. Life,
           Authorize(id, motor, level, approver, life)
    PROVE  AInd'
<1> USE DEF AInd, Authorize, aBrain, gateway
<1> DEFINE new == [id |-> id, motor |-> motor, level |-> level,
                   human |-> RequiresHuman(level), expiry |-> now + life, numeric |-> FALSE]
<1>1. new \in Request
  BY ABoundAssumption DEF Request, BrainTypes, RequiresHuman
<1>2. ProcessTypes'
  BY <1>1 DEF ProcessTypes
<1>3. NumericUnderLease'
  BY DEF NumericUnderLease, Leased
<1>4. BrainTypes' /\ LeaseOwned' /\ MovedIsBound' /\ DispatchedIsExecuted'
  BY DEF BrainTypes, LeaseOwned, MovedIsBound, DispatchedIsExecuted, Bound
<1> QED
  BY <1>2, <1>3, <1>4

LEMMA AdmitKeeps ==
    ASSUME AInd, NEW request \in Executable, Admit(request)
    PROVE  AInd'
<1> USE DEF AInd, Admit, aBrain, caller
<1>1. request \in Request /\ (request.numeric => lease # NoLease /\ request = Leased)
  <2>1. CASE request \in held
    BY <2>1 DEF ProcessTypes, NumericUnderLease
  <2>2. CASE lease # NoLease /\ request = Leased
    BY <2>2 DEF ProcessTypes, Leased, Lease, Request, Level
  <2> QED
    BY <2>1, <2>2 DEF Executable
<1>2. ProcessTypes' /\ NumericUnderLease'
  BY <1>1 DEF ProcessTypes, NumericUnderLease, Leased
<1>3. BrainTypes' /\ LeaseOwned' /\ MovedIsBound' /\ DispatchedIsExecuted'
  BY DEF BrainTypes, LeaseOwned, MovedIsBound, DispatchedIsExecuted, Bound
<1> QED
  BY <1>2, <1>3

(* The lease ends with the request it was taken for, which is the only     *)
(* numeric one: none outlives it.                                          *)
LEMMA EndLeaseKeeps ==
    ASSUME AInd, NEW request \in admitted, EndLease(request), admitted' = admitted \ {request},
           UNCHANGED held
    PROVE  /\ NumericUnderLease'
           /\ lease' \in Lease \cup {NoLease}
           /\ request \in Request
           /\ request.numeric => lease # NoLease /\ request.id = lease.id /\ lease' = NoLease
           /\ ~request.numeric => lease' = lease
BY DEF AInd, EndLease, NumericUnderLease, ProcessTypes, Request, Leased

LEMMA RefusalsKeep ==
    ASSUME AInd, RefuseLeased \/ \E request \in admitted : RefuseRequest(request)
    PROVE  AInd'
<1> USE DEF AInd, aBrain, gateway, caller
<1>1. CASE RefuseLeased
  BY <1>1 DEF RefuseLeased, BrainTypes, ProcessTypes, LeaseOwned, NumericUnderLease,
     MovedIsBound, DispatchedIsExecuted, Bound
<1>2. ASSUME NEW request \in admitted, RefuseRequest(request) PROVE AInd'
  <2>1. NumericUnderLease' /\ lease' \in Lease \cup {NoLease}
    BY <1>2, EndLeaseKeeps DEF RefuseRequest
  <2>2. LeaseOwned'
    BY <1>2 DEF RefuseRequest, EndLease, LeaseOwned, Bound
  <2>3. BrainTypes' /\ ProcessTypes' /\ MovedIsBound' /\ DispatchedIsExecuted'
    BY <1>2, <2>1 DEF RefuseRequest, BrainTypes, ProcessTypes, MovedIsBound,
       DispatchedIsExecuted, Bound
  <2> QED
    BY <2>1, <2>2, <2>3
<1> QED
  BY <1>1, <1>2

(* A dispatch: the ID is recorded whatever became of it, and a numeric     *)
(* request that moved the device ends its lease.                           *)
LEMMA DispatchKeeps ==
    ASSUME AInd, NEW request \in admitted, DispatchMotor(request) \/ DispatchPlugins(request)
    PROVE  AInd'
<1>1. /\ EndLease(request) /\ admitted' = admitted \ {request}
      /\ request.id \notin executed /\ executed' = executed \cup {request.id}
      /\ Acted(request) \/ NotActed
      /\ UNCHANGED <<now, aBrain, held, proposals>>
  BY DEF DispatchMotor, DispatchPlugins, caller
<1>2. /\ NumericUnderLease' /\ lease' \in Lease \cup {NoLease} /\ request \in Request
      /\ request.numeric => lease # NoLease /\ request.id = lease.id /\ lease' = NoLease
      /\ ~request.numeric => lease' = lease
  BY <1>1, EndLeaseKeeps
<1>3. /\ acts \in [Id -> Nat] /\ moved \in [Id -> Nat] /\ request.id \in Id
      /\ LeaseOwned /\ MovedIsBound /\ DispatchedIsExecuted
  BY <1>2 DEF AInd, ProcessTypes, Request
<1>4. BrainTypes' /\ \A k \in Id : Bound(k)' <=> Bound(k)
  BY <1>1 DEF aBrain, AInd, BrainTypes, Bound
<1>5. CASE Acted(request)
  <2>1. ProcessTypes'
    BY <1>1, <1>2, <1>3, <1>5 DEF AInd, ProcessTypes, Acted
  <2>2. DispatchedIsExecuted'
    BY <1>1, <1>3, <1>5 DEF DispatchedIsExecuted, Acted
  <2>3. MovedIsBound'
    <3>1. request.numeric => Bound(request.id) /\ moved[request.id] = 0
      BY <1>2, <1>3 DEF LeaseOwned
    <3> QED
      BY <1>3, <1>4, <1>5, <3>1 DEF MovedIsBound, Acted
  <2>4. LeaseOwned'
    BY <1>1, <1>2, <1>3, <1>4, <1>5 DEF LeaseOwned, Acted, Bound, aBrain
  <2> QED
    BY <1>2, <1>4, <2>1, <2>2, <2>3, <2>4 DEF AInd
<1>6. CASE NotActed
  <2>1. ProcessTypes' /\ DispatchedIsExecuted' /\ MovedIsBound'
    BY <1>1, <1>2, <1>3, <1>4, <1>6 DEF AInd, ProcessTypes, DispatchedIsExecuted, MovedIsBound,
       NotActed
  <2>2. LeaseOwned'
    BY <1>1, <1>2, <1>3, <1>4, <1>6 DEF LeaseOwned, NotActed, Bound, aBrain
  <2> QED
    BY <1>2, <1>4, <2>1, <2>2 DEF AInd
<1> QED
  BY <1>1, <1>5, <1>6

LEMMA ProcessEndsKeeps == ASSUME AInd, ProcessEnds PROVE AInd'
BY DEF AInd, ProcessEnds, aBrain, BrainTypes, ProcessTypes, LeaseOwned, NumericUnderLease,
   MovedIsBound, DispatchedIsExecuted, Bound
-----------------------------------------------------------------------------
LEMMA AIndStep == ASSUME AInd, [ANext]_aVars PROVE AInd'
<1>1. CASE UNCHANGED aVars
  BY <1>1 DEF aVars, AInd, BrainTypes, ProcessTypes, LeaseOwned, NumericUnderLease,
     MovedIsBound, DispatchedIsExecuted, Bound, Leased
<1>2. CASE \/ Tick \/ OtherCommand
           \/ \E t \in 1 .. MaxTime : SceneObserved(t) \/ InputPerceived(t)
           \/ \E before, after \in 1 .. MaxTime : LessonLearned(before, after)
  BY <1>2, ObservationsKeep
<1>3. CASE ReadProposal \/ RegisterMotorActuator \/ ProcessRecovers
  BY <1>3, CallersKeep
<1>4. CASE RefuseLeased \/ \E request \in admitted : RefuseRequest(request)
  BY <1>4, RefusalsKeep
<1>5. CASE ProcessEnds
  BY <1>5, ProcessEndsKeeps
<1>6. ASSUME NEW id \in Id, NEW syn \in Synapse \cup {"none"}, RegisterActionBinding(id, syn)
      PROVE  AInd'
  BY <1>6, RegisterActionBindingKeeps
<1>7. ASSUME NEW id \in Id, NEW motor \in BOOLEAN, NEW level \in Level,
             NEW approver \in BOOLEAN, NEW life \in 1 .. Life,
             Authorize(id, motor, level, approver, life)
      PROVE  AInd'
  BY <1>7, AuthorizeKeeps
<1>8. ASSUME NEW p \in proposals, NEW id \in Id, NEW approver \in BOOLEAN,
             NEW life \in 1 .. Life, BeginCompositionAction(p, id, approver, life)
      PROVE  AInd'
  BY <1>8, BeginCompositionActionKeeps
<1>9. ASSUME NEW request \in Executable, Admit(request) PROVE AInd'
  BY <1>9, AdmitKeeps
<1>10. ASSUME NEW request \in admitted, DispatchMotor(request) \/ DispatchPlugins(request)
       PROVE  AInd'
  BY <1>10, DispatchKeeps
<1>11. ASSUME NEW request \in held, CaptureInquiryPrediction(request) PROVE AInd'
  BY <1>11 DEF CaptureInquiryPrediction, aBrain, gateway, AInd, BrainTypes, ProcessTypes,
     LeaseOwned, NumericUnderLease, MovedIsBound, DispatchedIsExecuted, Bound, Leased
<1>12. ASSUME NEW record \in Report,
              ObserveOutcome(record) \/ \E request \in held : ProcessInquiryOutcome(request, record)
       PROVE  AInd'
  BY <1>12, ApplyOutcomeKeeps DEF ObserveOutcome, ProcessInquiryOutcome
<1> QED
  BY <1>1, <1>2, <1>3, <1>4, <1>5, <1>6, <1>7, <1>8, <1>9, <1>10, <1>11, <1>12 DEF ANext

THEOREM AInvariance == ASpec => []AInd
BY AInitInd, AIndStep, PTL DEF ASpec

(* One process dispatches a request ID at most once, whatever answer the   *)
(* actuator gave: the ID is recorded before the call (gateway.go Execute). *)
THEOREM OneDispatch == ASpec => []DispatchedOnce
<1>1. AInd => DispatchedOnce
  BY DEF AInd, DispatchedIsExecuted, DispatchedOnce
<1> QED
  BY <1>1, AInvariance, PTL

(* A composition action moves the device at most once under its ID, over   *)
(* any number of processes: its journaled binding refuses the second       *)
(* (composition_action.go RequestCompositionAction).                       *)
THEOREM OneMove == ASpec => []NumericActionOnce
<1>1. AInd => NumericActionOnce
  BY DEF AInd, MovedIsBound, NumericActionOnce
<1> QED
  BY <1>1, AInvariance, PTL

(* While a composition action is on its way the Brain keeps the revision   *)
(* and the scene it was computed on: every other command waits for the     *)
(* mutation lease (core/neural_composition.go).                            *)
THEOREM ReferenceStands == ASpec => []ReferenceHeld
<1>1. AInd => ReferenceHeld
  BY DEF AInd, LeaseOwned, ReferenceHeld
<1> QED
  BY <1>1, AInvariance, PTL
-----------------------------------------------------------------------------
(* Independent support.                                                    *)

(* Reports of one source join the groups they declare in one component.    *)
LEMMA SameSourceSameComponent ==
    ASSUME NEW records \in SUBSET Report, NEW r \in records, NEW q \in records,
           r.group \in Group, q.group \in Group, r.source = q.source
    PROVE  Component(r.group, records) = Component(q.group, records)
<1>1. ASSUME NEW c \in SUBSET Label, Closed(c, records) PROVE r.group \in c <=> q.group \in c
  BY <1>1 DEF Closed
<1> QED
  BY <1>1 DEF Component

(* Two independent components come from two sources and two groups.        *)
LEMMA IndependentSupport ==
    ASSUME NEW records \in SUBSET Report, IsFiniteSet(records), Independent(records) >= 2
    PROVE  \E r, q \in records : /\ {r.group, q.group} \subseteq Group
                                 /\ r.source # q.source /\ r.group # q.group
<1> DEFINE declared   == {r.group : r \in records} \cap Group
           components == {Component(l, records) : l \in declared}
<1>1. IsFiniteSet(components)
  <2>1. IsFiniteSet({r \in records : r.group \in Group})
    BY FS_Subset
  <2> DEFINE f == [r \in {r \in records : r.group \in Group} |-> Component(r.group, records)]
  <2>2. f \in Surjection({r \in records : r.group \in Group}, components)
    BY DEF Surjection
  <2> HIDE DEF f, components
  <2> QED
    BY <2>1, <2>2, FS_Surjection
<1>2. PICK a \in components, b \in components : a # b
  <2> HIDE DEF components
  <2>1. Cardinality(components) >= 2
    BY DEF Independent, components
  <2>2. components # {}
    BY <1>1, <2>1, FS_EmptySet
  <2>3. PICK a : a \in components
    BY <2>2
  <2>4. Cardinality({a}) = 1
    BY FS_Singleton
  <2>5. components # {a}
    BY <2>1, <2>4
  <2> QED
    BY <2>3, <2>5
<1>3. PICK r \in records : r.group \in Group /\ a = Component(r.group, records)
  BY <1>2
<1>4. PICK q \in records : q.group \in Group /\ b = Component(q.group, records)
  BY <1>2
<1> QED
  BY <1>2, <1>3, <1>4, SameSourceSameComponent

LEMMA GainedMeansSupported ==
    ASSUME BrainTypes, NEW record \in Report, ApplyOutcome(record), gain' > gain
    PROVE  /\ \A r \in ledger' : r.success
           /\ \E r, q \in ledger' : /\ {r.group, q.group} \subseteq Group
                                    /\ r.source # q.source /\ r.group # q.group
<1>1. Evaluate(ledger') = "accepted"
  BY DEF ApplyOutcome, BrainTypes
<1>2. (\A r \in ledger' : r.success) /\ Independent(ledger') >= 2
  BY <1>1 DEF Evaluate
<1>3. ledger' \in SUBSET Report /\ IsFiniteSet(ledger')
  BY FS_AddElement DEF ApplyOutcome, BrainTypes
<1> QED
  BY <1>2, <1>3, IndependentSupport

(* The target is promoted only on successes that two sources of different  *)
(* declared groups report, for any number of reports in any order          *)
(* (learning/policy.go Evaluate, CountEvidenceProvenance).                 *)
THEOREM PromotionsSupported == ASpec => PromotionSupported
<1> DEFINE Supported ==
        gain' > gain =>
          /\ \A r \in ledger' : r.success
          /\ \E r, q \in ledger' : /\ {r.group, q.group} \subseteq Group
                                   /\ r.source # q.source /\ r.group # q.group
<1>1. ASSUME AInd, ANext PROVE Supported
  <2> USE DEF AInd
  <2>1. ASSUME NEW record \in Report, ApplyOutcome(record) PROVE Supported
    BY <1>1, <2>1, GainedMeansSupported
  <2>2. CASE UNCHANGED gain
    BY <1>1, <2>2 DEF BrainTypes
  <2>3. UNCHANGED gain \/ \E record \in Report : ApplyOutcome(record)
    BY <1>1 DEF ANext, aBrain, Tick, OtherCommand, ReadProposal, RegisterMotorActuator,
       RefuseLeased, ProcessEnds, ProcessRecovers, SceneObserved, InputPerceived, LessonLearned,
       RegisterActionBinding, Authorize, BeginCompositionAction, Admit, RefuseRequest,
       DispatchMotor, DispatchPlugins, CaptureInquiryPrediction, ObserveOutcome,
       ProcessInquiryOutcome
  <2> QED
    BY <2>1, <2>2, <2>3
<1>2. AInd /\ [ANext]_aVars => [Supported]_aVars
  BY <1>1
<1> QED
  BY <1>2, AInvariance, PTL DEF ASpec, PromotionSupported
-----------------------------------------------------------------------------
(* The inquiries: what they are credited with had been earned.             *)

(* SumOf is a sum over the domain of its function.                         *)
LEMMA SumOfIs ==
    ASSUME NEW D, IsFiniteSet(D), NEW f \in [D -> Int]
    PROVE  \E g \in [SUBSET D -> Int] : Summed(g, f, D) /\ SumOf(f) = g[D]
<1> DEFINE it == CHOOSE g : g = [s \in SUBSET DOMAIN f |->
                     IF s = {} THEN 0 ELSE f[Element(s)] + g[s \ {Element(s)}]]
<1>1. SumOf(f) = it[DOMAIN f]
  BY Zenon DEF SumOf, FoldFunction, FoldFunctionOnSet, MapThenFoldSet, Element
<1>2. DOMAIN f = D
  OBVIOUS
<1>3. it = SumMap(f, D)
  BY <1>2, Zenon DEF Summed, SumMap
<1> HIDE DEF it
<1> QED
  BY <1>1, <1>2, <1>3, SumChosen

-----------------------------------------------------------------------------
(* The types of the experience and of the boundary of the forecast.        *)
ExperienceTyped ==
    /\ qTaught \in [Pairs -> Nat] /\ qEver \in [Pairs -> Nat] /\ qTraces \in Seq(Pairs)
    /\ qPrior \in QPop \cup {0}
    /\ qBoundary \in [pop : QPop \cup {0}, credit : SUBSET QPop]
    /\ qBoundary.credit # {} => qBoundary.pop # 0

(* What was taught and what is still traced has happened. *)
Happened == \A p \in Pairs : qTaught[p] + Seen(p) <= qEver[p]

(* A forecast names populations that had followed, none surer than its     *)
(* exposures allow, and all of them together leave something unknown.      *)
FoundedOn(foretold, ever) ==
    /\ DOMAIN foretold.known \subseteq QPop
    /\ foretold.known \in [DOMAIN foretold.known -> Nat]
    /\ foretold.chosen \in DOMAIN foretold.known \cup {0}
    /\ \A next \in DOMAIN foretold.known :
         foretold.known[next] * (ever[next] + 1) <= Whole * ever[next]
    /\ SumOf(foretold.known) \in 0 .. Whole

(* An agenda or a request: what was uncertain and known when it was planned.*)
Asked(a) ==
    /\ "forecast" \in DOMAIN a
    /\ a.uncertainty \in 0 .. Whole
    /\ a.ever \in [QPop -> Nat]
    /\ FoundedOn(a.forecast, a.ever)

(* The latest answer brought no more than was asked, and nothing for news. *)
ResultEarned ==
    /\ qResult.gain \in Nat /\ qResult.of \in Nat
    /\ qResult.gain <= qResult.of /\ (qResult.gain > 0 => qResult.before > 0)

(* The inductive invariant of the inquiries.                               *)
QInd ==
    /\ ExperienceTyped
    /\ Happened
    /\ qAgenda # NoAgenda => Asked(qAgenda)
    /\ \A request \in qRequests : Asked(request)
    /\ ResultEarned

-----------------------------------------------------------------------------
(* Products of naturals grow with each factor.                             *)
LEMMA Products ==
    ASSUME NEW a \in Nat, NEW b \in Nat, NEW c \in Nat, a <= b
    PROVE  a * c <= b * c /\ c * a <= c * b /\ a * c \in Nat /\ c * a = a * c
<1>1. PICK d \in Nat : b = a + d
  <2>1. b - a \in Nat /\ b = a + (b - a)
    OBVIOUS
  <2> QED BY <2>1
<1>2. (a + d) * c = a * c + d * c /\ d * c \in Nat /\ a * c \in Nat
  OBVIOUS
<1>3. c * (a + d) = c * a + c * d /\ c * d \in Nat /\ c * a \in Nat
  OBVIOUS
<1>4. c * a = a * c
  OBVIOUS
<1> QED BY <1>1, <1>2, <1>3, <1>4

(* Evidence of strength s from c exposures, in a mass of which it is part. *)
LEMMA ShareBounded ==
    ASSUME NEW c \in Nat, NEW e \in Nat, c <= e, NEW s \in 0 .. Whole, NEW q \in 0 .. Whole,
           NEW sum \in Nat, c * s <= sum
    PROVE  LET v == (q * (c * s)) \div (Whole + sum)
           IN  /\ v \in Nat
               /\ v * (e + 1) <= Whole * e
               /\ (Whole + sum) * v <= q * (c * s)
<1>1. PICK m \in Nat : m = c * s
  OBVIOUS
<1>2. PICK t \in Nat : t = q * m
  OBVIOUS
<1>3. PICK n \in Nat \ {0} : n = Whole + sum
  BY DEF Whole
<1>4. PICK v : v = t \div n
  OBVIOUS
<1>5. v \in Nat /\ n * v <= t
  BY <1>4
<1>6. t <= Whole * m
  BY <1>2, Products DEF Whole
<1>7. v <= 1000
  <2>1. SUFFICES ASSUME v >= 1001 PROVE FALSE
    BY <1>5
  <2>2. 1001 * n <= v * n /\ n * v = v * n
    BY <1>5, <2>1, Products
  <2>3. m <= sum
    BY <1>1
  <2> QED
    BY <1>3, <1>5, <1>6, <2>2, <2>3 DEF Whole
<1>8. v * Whole + v * m <= Whole * m
  <2>1. v * (Whole + m) = v * Whole + v * m
    BY <1>5, <1>1 DEF Whole
  <2>2. Whole + m <= n /\ Whole + m \in Nat
    BY <1>1, <1>3 DEF Whole
  <2>3. v * (Whole + m) <= v * n /\ v * n = n * v
    BY <1>3, <1>5, <2>2, Products
  <2>4. v * (Whole + m) \in Nat /\ n * v \in Nat /\ Whole * m \in Nat
    BY <1>1, <1>3, <1>5, <2>2 DEF Whole
  <2> QED
    BY <1>2, <1>5, <1>6, <2>1, <2>3, <2>4
<1>9. v * (e + 1) <= Whole * e
  <2>1. PICK d \in Nat : d = Whole - v
    BY <1>5, <1>7 DEF Whole
  <2>2. d * m = Whole * m - v * m
    BY <1>1, <1>5, <2>1 DEF Whole
  <2>3. v * Whole <= d * m
    BY <1>1, <1>5, <1>8, <2>2 DEF Whole
  <2>4. m <= e * Whole
    <3>1. c * s <= c * Whole
      BY Products DEF Whole
    <3>2. c * Whole <= e * Whole
      BY Products DEF Whole
    <3> QED
      BY <1>1, <3>1, <3>2 DEF Whole
  <2>5. d * m <= d * (e * Whole)
    BY <2>1, <2>4, <1>1, Products DEF Whole
  <2>6. d * (e * Whole) = (d * e) * Whole
    BY <2>1 DEF Whole
  <2>7. PICK k \in Nat : k = d * e
    BY <2>1
  <2>8. v * 1000 <= k * 1000
    <3>1. d * m \in Nat
      BY <1>1, <2>1
    <3> QED
      BY <1>5, <3>1, <2>3, <2>5, <2>6, <2>7 DEF Whole
  <2>9. v <= k
    BY <1>5, <2>8
  <2>10. k = Whole * e - v * e
    BY <1>5, <2>1, <2>7 DEF Whole
  <2>11. v * (e + 1) = v * e + v
    BY <1>5
  <2> QED
    BY <1>5, <2>9, <2>10, <2>11 DEF Whole
<1> QED
  BY <1>1, <1>2, <1>3, <1>4, <1>5, <1>9

(* A part of naturals between 0 and a whole.                               *)
LEMMA TimesBounded ==
    ASSUME NEW m \in Nat, NEW n \in 0 .. Whole
    PROVE  Times(m, n) \in Nat /\ Times(m, n) <= m /\ (Times(m, n) > 0 => n > 0)
<1>1. PICK t \in Nat : t = m * n
  OBVIOUS
<1>2. t <= m * Whole
  BY <1>1, Products DEF Whole
<1>3. n = 0 => t = 0
  BY <1>1
<1> QED
  BY <1>1, <1>2, <1>3 DEF Times, Whole

(* A forecast from evidence is founded on what had happened.               *)
LEMMA AssessedFounded ==
    ASSUME NEW D \in SUBSET QPop, NEW count \in [D -> Nat], NEW strength \in [D -> QStrength],
           NEW quality \in 0 .. Whole, NEW ever \in [QPop -> Nat],
           \A next \in D : count[next] <= ever[next],
           NEW a \in Assessed([next \in DOMAIN count |-> count[next] * strength[next]], quality)
    PROVE  FoundedOn(a, ever)
<1> DEFINE mass == [next \in D |-> count[next] * strength[next]]
           backed == {next \in D : mass[next] > 0 /\ quality > 0}
           part == [next \in backed |-> mass[next]]
           known == [next \in backed |-> (quality * mass[next]) \div (Whole + SumOf(part))]
<1>0. QStrength \subseteq 0 .. Whole /\ IsFiniteSet(QPop) /\ QPop \subseteq Nat \ {0}
  BY QAssumption
<1>1. PICK c \in backed \cup {0} : a = [known |-> known, chosen |-> c]
  BY DEF Assessed
<1>2. \A next \in D : mass[next] = count[next] * strength[next] /\ mass[next] \in Nat
  <2> TAKE next \in D
  <2>0. strength[next] \in QStrength /\ count[next] \in Nat
    OBVIOUS
  <2>1. count[next] \in Nat /\ strength[next] \in 0 .. Whole
    BY <1>0, <2>0
  <2>4. \A z \in 0 .. Whole : z \in Nat
    OBVIOUS
  <2>2. PICK m \in Nat, n \in Nat : m = count[next] /\ n = strength[next]
    BY <2>1, <2>4, Zenon
  <2>3. m * n \in Nat
    OBVIOUS
  <2> QED
    BY <2>2, <2>3
<1> HIDE DEF mass
<1>3. backed \in SUBSET QPop /\ IsFiniteSet(backed) /\ part \in [backed -> Nat] /\ part \in [backed -> Int]
  <2>1. backed \in SUBSET QPop /\ part \in [backed -> Nat]
    BY <1>2
  <2>2. IsFiniteSet(backed)
    BY <1>0, <2>1, FS_Subset
  <2> QED
    BY <2>1, <2>2
<1> HIDE DEF backed
<1>4. PICK g \in [SUBSET backed -> Int] : Summed(g, part, backed) /\ SumOf(part) = g[backed]
  BY <1>3, SumOfIs
<1>5. PICK sum \in Nat : sum = SumOf(part) /\ \A x \in backed : part[x] <= sum
  BY <1>3, <1>4, SumsMember
<1>6. \A next \in backed : part[next] = mass[next] /\ next \in D
  BY DEF backed
<1> HIDE DEF part
<1>7. ASSUME NEW next \in backed
      PROVE  /\ known[next] \in Nat
             /\ known[next] * (ever[next] + 1) <= Whole * ever[next]
             /\ (Whole + sum) * known[next] <= quality * part[next]
  <2>1. /\ count[next] \in Nat /\ ever[next] \in Nat /\ count[next] <= ever[next]
        /\ strength[next] \in 0 .. Whole
    BY <1>0, <1>3, <1>6
  <2>2. count[next] * strength[next] <= sum /\ part[next] = count[next] * strength[next]
    BY <1>2, <1>5, <1>6
  <2>3. known[next] = (quality * (count[next] * strength[next])) \div (Whole + sum)
    BY <1>2, <1>5, <1>6
  <2>4. PICK v : v = (quality * (count[next] * strength[next])) \div (Whole + sum)
    OBVIOUS
  <2>5. /\ v \in Nat /\ v * (ever[next] + 1) <= Whole * ever[next]
        /\ (Whole + sum) * v <= quality * (count[next] * strength[next])
    BY <2>1, <2>2, <2>4, ShareBounded
  <2> HIDE DEF known
  <2> QED
    BY <2>2, <2>3, <2>4, <2>5
<1>8. known \in [backed -> Nat] /\ known \in [backed -> Int] /\ DOMAIN known = backed
  BY <1>7
<1>9. PICK k \in [backed -> Int] : k = known
  BY <1>8
<1>10. PICK h \in [SUBSET backed -> Int] : Summed(h, k, backed) /\ SumOf(k) = h[backed]
  BY <1>3, SumOfIs
<1>11. k \in [backed -> Nat]
  BY <1>8, <1>9
<1>12. h[backed] \in Nat
  BY <1>3, <1>10, <1>11, SumsMember
<1>13. (Whole + sum) * h[backed] <= quality * g[backed]
  <2>1. Whole + sum \in Int /\ quality \in Int
    BY DEF Whole
  <2>2. \A x \in backed : (Whole + sum) * k[x] <= quality * part[x]
    BY <1>7, <1>9
  <2> HIDE DEF known
  <2> QED
    BY <1>3, <1>4, <1>10, <2>1, <2>2, SumsCompare
<1>14. h[backed] <= Whole
  <2>1. PICK v \in Nat, n \in Nat : v = h[backed] /\ n = Whole + sum
    BY <1>12 DEF Whole
  <2>2. SUFFICES ASSUME v >= 1001 PROVE FALSE
    BY <2>1 DEF Whole
  <2>3. 1001 * n <= v * n /\ n * v = v * n
    BY <2>1, <2>2, Products
  <2>4. quality * sum <= Whole * sum
    BY Products DEF Whole
  <2>5. n * v <= quality * sum
    BY <1>4, <1>5, <1>13, <2>1
  <2>6. quality * sum \in Int /\ n * v \in Int /\ v * n \in Int
    BY <2>1
  <2> QED
    BY <2>1, <2>3, <2>4, <2>5, <2>6 DEF Whole
<1>15. a.known = k /\ a.chosen \in backed \cup {0}
  BY <1>1, <1>9
<1>16. \A next \in backed : k[next] * (ever[next] + 1) <= Whole * ever[next]
  BY <1>7, <1>9
<1>17. SumOf(a.known) \in 0 .. Whole
  BY <1>10, <1>12, <1>14, <1>15
<1> HIDE DEF known
<1> QED
  BY <1>3, <1>11, <1>15, <1>16, <1>17 DEF FoundedOn

(* A forecast read from the brain is founded on what has happened after    *)
(* the population of the boundary.                                         *)
LEMMA PredictionFounded ==
    ASSUME ExperienceTyped, Happened,
           NEW b \in [pop : QPop \cup {0}, credit : SUBSET QPop],
           b.credit # {} => b.pop # 0,
           NEW ever \in [QPop -> Nat],
           b.pop # 0 => \A q \in QPop : ever[q] = qEver[<<b.pop, q>>],
           NEW a \in Predictions(b)
    PROVE  FoundedOn(a, ever)
<1>0. \A p \in Pairs : Seen(p) \in Nat /\ qTaught[p] \in Nat /\ qEver[p] \in Nat
                       /\ qTaught[p] <= qEver[p] /\ Seen(p) <= qEver[p]
  <2> TAKE p \in Pairs
  <2>1. {i \in DOMAIN qTraces : qTraces[i] = p} \in SUBSET (1 .. Len(qTraces))
        /\ Len(qTraces) \in Nat
    BY DEF ExperienceTyped
  <2>2. IsFiniteSet(1 .. Len(qTraces))
    <3>1. PICK n \in Int : n = Len(qTraces)
      BY <2>1
    <3> QED
      BY <3>1, FS_Interval
  <2>3. IsFiniteSet({i \in DOMAIN qTraces : qTraces[i] = p})
    BY <2>1, <2>2, FS_Subset
  <2>4. Seen(p) \in Nat
    BY <2>3, FS_CardinalityType DEF Seen
  <2> QED
    BY <2>4 DEF ExperienceTyped, Happened
<1> DEFINE count == Counted(b)
<1>2. /\ DOMAIN count \in SUBSET QPop
      /\ count \in [DOMAIN count -> Nat]
      /\ \A next \in DOMAIN count : count[next] <= ever[next]
  <2>1. CASE b.credit # {}
    <3>1. count = [next \in b.credit |-> qTaught[<<b.pop, next>>]]
      BY <2>1 DEF Counted
    <3>2. \A next \in b.credit : <<b.pop, next>> \in Pairs /\ next \in QPop
      BY <2>1 DEF Pairs
    <3> QED
      BY <1>0, <2>1, <3>1, <3>2
  <2>2. CASE b.credit = {}
    <3> DEFINE S == {q \in QPop : Seen(<<b.pop, q>>) > 0}
    <3>1. count = [next \in S |-> Seen(<<b.pop, next>>)]
      BY <2>2 DEF Counted
    <3>2. CASE b.pop # 0
      <4>1. \A next \in QPop : <<b.pop, next>> \in Pairs
        BY <3>2 DEF Pairs
      <4> QED
        BY <1>0, <3>1, <3>2, <4>1
    <3>3. CASE b.pop = 0
      <4>1. ASSUME NEW q \in QPop PROVE Seen(<<b.pop, q>>) = 0
        <5>1. 0 \notin QPop
          BY QAssumption
        <5>2. {i \in DOMAIN qTraces : qTraces[i] = <<b.pop, q>>} = {}
          BY <3>3, <5>1 DEF ExperienceTyped, Pairs
        <5> QED
          BY <5>2, FS_EmptySet DEF Seen
      <4>2. S = {}
        BY <4>1
      <4> QED
        BY <3>1, <4>2
    <3> QED
      BY <3>2, <3>3
  <2> QED
    BY <2>1, <2>2
<1>3. PICK strength \in [DOMAIN count -> QStrength], quality \in QQuality :
        a \in Assessed([next \in DOMAIN count |-> count[next] * strength[next]],
                       IF b.credit = {} THEN Whole ELSE quality)
  BY DEF Predictions
<1>4. (IF b.credit = {} THEN Whole ELSE quality) \in 0 .. Whole
  <2>1. QQuality \subseteq 0 .. Whole /\ Whole \in 0 .. Whole
    <3>1. QQuality \subseteq 0 .. Whole
      BY QAssumption
    <3> QED
      BY <3>1 DEF Whole
  <2> QED
    BY <2>1
<1> HIDE DEF count
<1> QED
  BY <1>2, <1>3, <1>4, AssessedFounded

-----------------------------------------------------------------------------
(* How often an element is in a sequence.                                  *)
TimesIn(s, p) == Cardinality({i \in DOMAIN s : s[i] = p})

(* A sequence has finitely many places for an element.                     *)
LEMMA PlacesFinite ==
    ASSUME NEW S, NEW s \in Seq(S), NEW p
    PROVE  IsFiniteSet({i \in DOMAIN s : s[i] = p}) /\ TimesIn(s, p) \in Nat
<1>1. PICK n \in Nat : n = Len(s) /\ DOMAIN s = 1 .. n
  OBVIOUS
<1>2. IsFiniteSet(1 .. n)
  BY FS_Interval
<1>3. {i \in DOMAIN s : s[i] = p} \in SUBSET (1 .. n)
  BY <1>1
<1>4. IsFiniteSet({i \in DOMAIN s : s[i] = p})
  BY <1>2, <1>3, FS_Subset
<1> QED
  BY <1>4, FS_CardinalityType DEF TimesIn

(* The end of a sequence has an element no more often.                     *)
LEMMA EndHasNoMore ==
    ASSUME NEW S, NEW s \in Seq(S), NEW k \in Nat \ {0}, NEW p
    PROVE  /\ SubSeq(s, k, Len(s)) \in Seq(S)
           /\ TimesIn(SubSeq(s, k, Len(s)), p) <= TimesIn(s, p)
<1> DEFINE end == SubSeq(s, k, Len(s))
           A == {i \in DOMAIN end : end[i] = p}
           B == {i \in DOMAIN s : s[i] = p}
           f == [i \in A |-> i + k - 1]
<1>1. PICK n \in Nat : n = Len(s) /\ DOMAIN s = 1 .. n
  OBVIOUS
<1>2. end \in Seq(S) /\ \A i \in DOMAIN end : i \in Nat /\ i + k - 1 \in 1 .. n /\ end[i] = s[i + k - 1]
  BY <1>1
<1> HIDE DEF end
<1>3. f \in Injection(A, B)
  BY <1>1, <1>2 DEF Injection, IsInjective
<1>4. IsFiniteSet(B)
  BY PlacesFinite
<1>5. Cardinality(A) <= Cardinality(B)
  BY <1>3, <1>4, FS_Injection
<1> QED
  BY <1>2, <1>5 DEF TimesIn, end

(* One element more is one place more, for itself alone.                   *)
LEMMA OneMorePlace ==
    ASSUME NEW S, NEW s \in Seq(S), NEW x \in S, NEW p
    PROVE  /\ s \o <<x>> \in Seq(S)
           /\ TimesIn(s \o <<x>>, p) = TimesIn(s, p) + IF p = x THEN 1 ELSE 0
<1> DEFINE A == {i \in DOMAIN s : s[i] = p}
           B == {i \in DOMAIN (s \o <<x>>) : (s \o <<x>>)[i] = p}
<1>1. PICK n \in Nat : n = Len(s) /\ DOMAIN s = 1 .. n
  OBVIOUS
<1>2. /\ DOMAIN (s \o <<x>>) = 1 .. n + 1 /\ (s \o <<x>>)[n + 1] = x
      /\ \A i \in 1 .. n : (s \o <<x>>)[i] = s[i]
      /\ s \o <<x>> \in Seq(S)
  BY <1>1
<1>0. IsFiniteSet(A)
  BY PlacesFinite
<1>3. IsFiniteSet(A) /\ Cardinality(A) \in Nat /\ n + 1 \notin A
  BY <1>0, <1>1, FS_CardinalityType
<1>4. CASE p = x
  <2>1. B = A \cup {n + 1}
    BY <1>1, <1>2, <1>4
  <2>2. Cardinality(A \cup {n + 1}) = Cardinality(A) + 1
    BY <1>3, FS_AddElement
  <2> QED
    BY <1>2, <1>4, <2>1, <2>2 DEF TimesIn
<1>5. CASE p # x
  <2>1. B = A
    BY <1>1, <1>2, <1>5
  <2>2. TimesIn(s \o <<x>>, p) = Cardinality(B) /\ TimesIn(s, p) = Cardinality(A)
    BY DEF TimesIn
  <2>3. PICK c \in Nat : c = Cardinality(A)
    BY <1>3
  <2> HIDE DEF A, B
  <2> QED
    BY <1>2, <1>5, <2>1, <2>2, <2>3
<1> QED
  BY <1>4, <1>5

(* Counting once more counts one pair, and nothing when there is none.     *)
LEMMA CountedOnceMore ==
    ASSUME NEW f \in [Pairs -> Nat], NEW x
    PROVE  /\ OnceMore(f, x) \in [Pairs -> Nat]
           /\ \A p \in Pairs : OnceMore(f, x)[p] = f[p] + IF p = x THEN 1 ELSE 0
<1>1. ASSUME NEW p \in Pairs PROVE p # <<>>
  <2>1. PICK m \in QPop, n \in QPop : p = <<m, n>>
    BY DEF Pairs
  <2> QED
    BY <2>1
<1>2. CASE x = <<>>
  BY <1>1, <1>2 DEF OnceMore
<1>3. CASE x # <<>> /\ x \in Pairs
  BY <1>3 DEF OnceMore
<1>4. CASE x # <<>> /\ x \notin Pairs
  <2>1. OnceMore(f, x) = f
    BY <1>4 DEF OnceMore
  <2> QED
    BY <1>4, <2>1
<1> QED
  BY <1>2, <1>3, <1>4

(* What an observation teaches is counted as having happened.              *)
LEMMA LearningCounted ==
    ASSUME ExperienceTyped, Happened, NEW input, input.pop \in QPop \cup {0}, NEW lesson,
           LearnFrom(input, lesson)
    PROVE  /\ qTaught' \in [Pairs -> Nat] /\ qEver' \in [Pairs -> Nat]
           /\ qTraces' \in Seq(Pairs) /\ qPrior' \in QPop \cup {0}
           /\ Happened'
<1> DEFINE prior == IF input.reset THEN 0 ELSE qPrior
           step == IF prior # 0 /\ input.pop # 0 THEN <<<<prior, input.pop>>>> ELSE <<>>
           all == qTraces \o step
           from == Max({1, Len(all) - QTraces + 1})
           last == IF step = <<>> THEN <<>> ELSE step[1]
<1>1. /\ qTraces' = SubSeq(all, from, Len(all)) /\ qPrior' = input.pop
      /\ qTaught' = OnceMore(qTaught, lesson)
      /\ qEver' = OnceMore(OnceMore(qEver, lesson), last)
  BY DEF LearnFrom
<1>2. prior \in QPop \cup {0}
  BY DEF ExperienceTyped
<1> HIDE DEF prior
<1>3. /\ all \in Seq(Pairs)
      /\ \A p \in Pairs : TimesIn(all, p) = Seen(p) + IF p = last THEN 1 ELSE 0
  <2>1. \A p : Seen(p) = TimesIn(qTraces, p)
    BY DEF Seen, TimesIn
  <2>2. qTraces \in Seq(Pairs)
    BY DEF ExperienceTyped
  <2>3. CASE prior # 0 /\ input.pop # 0
    <3>1. PICK x \in Pairs : x = <<prior, input.pop>>
      BY <1>2, <2>3 DEF Pairs
    <3>2. step = <<x>> /\ last = x
      BY <2>3, <3>1
    <3>3. all = qTraces \o <<x>>
      BY <3>2
    <3> HIDE DEF all, step, last
    <3> QED
      BY <2>1, <2>2, <3>2, <3>3, OneMorePlace
  <2>4. CASE ~(prior # 0 /\ input.pop # 0)
    <3>1. step = <<>> /\ last = <<>>
      BY <2>4
    <3>2. all = qTraces
      BY <2>2, <3>1
    <3>3. ASSUME NEW p \in Pairs PROVE p # <<>> /\ Seen(p) \in Nat
      <4>1. TimesIn(qTraces, p) \in Nat
        BY <2>2, PlacesFinite
      <4>2. p # <<>>
        BY DEF Pairs
      <4> QED
        BY <2>1, <4>1, <4>2
    <3> HIDE DEF all, step, last
    <3> QED
      BY <2>1, <2>2, <3>1, <3>2, <3>3
  <2> QED
    BY <2>3, <2>4
<1> HIDE DEF all, step, last
<1>4. from \in Nat \ {0}
  <2>1. PICK n \in Int : n = Len(all) - QTraces + 1
    BY <1>3, QAssumption
  <2>2. PICK y : y = Max({1, n})
    OBVIOUS
  <2>3. \E x \in {1, n} : \A z \in {1, n} : x >= z
    <3>1. CASE n >= 1
      BY <3>1
    <3>2. CASE ~(n >= 1)
      BY <3>2
    <3> QED
      BY <3>1, <3>2
  <2>4. y \in {1, n} /\ y >= 1
    BY <2>2, <2>3 DEF Max
  <2> QED
    BY <2>1, <2>2, <2>4
<1> HIDE DEF from
<1>5. /\ qTraces' \in Seq(Pairs)
      /\ \A p \in Pairs : TimesIn(qTraces', p) <= TimesIn(all, p)
  BY <1>1, <1>3, <1>4, EndHasNoMore
<1>6. /\ qTaught' \in [Pairs -> Nat]
      /\ \A p \in Pairs : qTaught'[p] = qTaught[p] + IF p = lesson THEN 1 ELSE 0
  BY <1>1, CountedOnceMore DEF ExperienceTyped
<1>7. PICK g \in [Pairs -> Nat] :
        /\ g = OnceMore(qEver, lesson)
        /\ \A p \in Pairs : g[p] = qEver[p] + IF p = lesson THEN 1 ELSE 0
  <2>1. qEver \in [Pairs -> Nat]
    BY DEF ExperienceTyped
  <2> QED
    BY <2>1, CountedOnceMore
<1>8. /\ qEver' \in [Pairs -> Nat]
      /\ \A p \in Pairs : qEver'[p] = g[p] + IF p = last THEN 1 ELSE 0
  BY <1>1, <1>7, CountedOnceMore
<1>9. ASSUME NEW p \in Pairs PROVE qTaught'[p] + TimesIn(qTraces', p) <= qEver'[p]
  <2>1. TimesIn(all, p) \in Nat /\ TimesIn(qTraces', p) \in Nat /\ Seen(p) \in Nat
    <3>1. TimesIn(all, p) \in Nat
      BY <1>3, PlacesFinite
    <3>2. TimesIn(qTraces', p) \in Nat
      BY <1>5, PlacesFinite
    <3>3. TimesIn(qTraces, p) \in Nat
      BY PlacesFinite DEF ExperienceTyped
    <3> QED
      BY <3>1, <3>2, <3>3 DEF Seen, TimesIn
  <2>2. qTaught[p] \in Nat /\ qEver[p] \in Nat /\ qTaught[p] + Seen(p) <= qEver[p]
    BY DEF ExperienceTyped, Happened
  <2>3. /\ TimesIn(all, p) = Seen(p) + IF p = last THEN 1 ELSE 0
        /\ TimesIn(qTraces', p) <= TimesIn(all, p)
        /\ qTaught'[p] = qTaught[p] + IF p = lesson THEN 1 ELSE 0
        /\ qEver'[p] = g[p] + IF p = last THEN 1 ELSE 0
        /\ g[p] = qEver[p] + IF p = lesson THEN 1 ELSE 0
    BY <1>3, <1>5, <1>6, <1>7, <1>8
  <2>4. PICK a \in Nat, b \in Nat, c \in Nat, d \in Nat, e \in Nat :
          /\ a = TimesIn(all, p) /\ b = TimesIn(qTraces', p) /\ c = Seen(p)
          /\ d = qTaught[p] /\ e = qEver[p]
    BY <2>1, <2>2
  <2> QED
    BY <2>2, <2>3, <2>4
<1>10. Happened'
  BY <1>9 DEF Happened, Seen, TimesIn
<1> QED
  BY <1>1, <1>5, <1>6, <1>8, <1>10

-----------------------------------------------------------------------------
(* Who is forecast had followed, and is not certain.                       *)
LEMMA NeverCertain ==
    ASSUME NEW v \in Nat, NEW e \in Nat, v * (e + 1) <= Whole * e
    PROVE  v <= Whole /\ (v > 0 => e > 0)
<1>1. v * (e + 1) = v * e + v /\ v * e \in Nat
  OBVIOUS
<1>2. ASSUME v >= 1001 PROVE FALSE
  <2>1. 1001 * e <= v * e
    BY <1>2, Products
  <2> QED
    BY <1>1, <1>2, <2>1 DEF Whole
<1>3. e = 0 => v = 0
  BY <1>1 DEF Whole
<1> QED
  BY <1>2, <1>3 DEF Whole

(* The numbers of a forecast that is founded stay within their scale, and  *)
(* nothing that had never followed is expected.                            *)
LEMMA FoundedBounds ==
    ASSUME NEW ever \in [QPop -> Nat], NEW foretold, FoundedOn(foretold, ever)
    PROVE  /\ Uncertain(foretold) \in 0 .. Whole
           /\ \A next \in DOMAIN foretold.known : foretold.known[next] > 0 => ever[next] > 0
           /\ KnownShare(foretold) \in 0 .. Whole
<1>1. ASSUME NEW next \in DOMAIN foretold.known
      PROVE  /\ foretold.known[next] \in Nat /\ foretold.known[next] <= Whole
             /\ foretold.known[next] > 0 => ever[next] > 0
  <2>1. PICK v \in Nat, e \in Nat : v = foretold.known[next] /\ e = ever[next]
    BY DEF FoundedOn
  <2>2. v * (e + 1) <= Whole * e
    BY <2>1 DEF FoundedOn
  <2> QED
    BY <2>1, <2>2, NeverCertain
<1>2. Confidence(foretold) \in 0 .. Whole
  <2>1. CASE foretold.chosen = 0
    BY <2>1 DEF Confidence, Whole
  <2>2. CASE foretold.chosen # 0
    <3>1. PICK c \in DOMAIN foretold.known : c = foretold.chosen
      BY <2>2 DEF FoundedOn
    <3>2. Confidence(foretold) = foretold.known[c]
      BY <2>2, <3>1 DEF Confidence
    <3> QED
      BY <1>1, <3>2 DEF Whole
  <2> QED
    BY <2>1, <2>2
<1> QED
  BY <1>1, <1>2 DEF Uncertain, KnownShare, FoundedOn, Whole

(* To expect nothing needs no foundation.                                  *)
LEMMA UnknownFounded ==
    ASSUME NEW ever \in [QPop -> Nat]
    PROVE  FoundedOn(UnknownPrediction, ever)
<1>1. DOMAIN <<>> = {} /\ <<>> \in [{} -> Nat] /\ <<>> \in [{} -> Int]
  OBVIOUS
<1>2. PICK f \in [{} -> Int] : f = <<>>
  BY <1>1
<1>3. IsFiniteSet({})
  BY FS_EmptySet
<1>4. PICK g \in [SUBSET {} -> Int] : Summed(g, f, {}) /\ SumOf(f) = g[{}]
  BY <1>3, SumOfIs
<1>5. SumOf(<<>>) = 0
  BY <1>2, <1>4, SumSteps
<1> QED
  BY <1>1, <1>5 DEF FoundedOn, UnknownPrediction, Whole

(* What is planned on a founded forecast may be asked.                     *)
LEMMA PlanAsked ==
    ASSUME NEW at, NEW policy, NEW foretold, NEW entropy, NEW from,
           from = 0 \/ from \in QPop, qEver \in [Pairs -> Nat],
           NEW ever, ever = [q \in QPop |-> IF from = 0 THEN 0 ELSE qEver[<<from, q>>]],
           FoundedOn(foretold, ever)
    PROVE  Asked(PlanInquiry(at, policy, foretold, entropy, from))
<1>1. ever \in [QPop -> Nat]
  BY DEF Pairs
<1>2. Uncertain(foretold) \in 0 .. Whole
  BY <1>1, FoundedBounds
<1>3. PICK a : a = PlanInquiry(at, policy, foretold, entropy, from)
  OBVIOUS
<1>4. PICK action, expected :
        a = [seq |-> at, action |-> action, expected |-> expected,
             uncertainty |-> Uncertain(foretold), forecast |-> foretold, from |-> from,
             ever |-> ever]
  BY <1>3 DEF PlanInquiry
<1>5. "forecast" \in DOMAIN a /\ a.uncertainty = Uncertain(foretold) /\ a.ever = ever
      /\ a.forecast = foretold
  BY <1>4
<1> QED
  BY <1>1, <1>2, <1>3, <1>5 DEF Asked

(* What the answer to a request resolves.                                  *)
LEMMA ResolvedEarned ==
    ASSUME NEW request, Asked(request), NEW last
    PROVE  LET told == ResolvedInformation(request, last)
           IN  /\ told \in Nat /\ told <= request.uncertainty
               /\ told > 0 => last \in QPop /\ request.ever[last] > 0
<1>1. PICK u \in Nat, k \in 0 .. Whole :
        u = request.uncertainty /\ k = KnownShare(request.forecast)
  BY FoundedBounds DEF Asked
<1>2. Times(u, k) \in Nat /\ Times(u, k) <= u
  BY <1>1, TimesBounded
<1>3. CASE last \in DOMAIN request.forecast.known /\ request.forecast.known[last] > 0
  <2>1. last \in QPop /\ request.ever[last] > 0
    BY <1>3, FoundedBounds DEF Asked, FoundedOn
  <2>2. ResolvedInformation(request, last) = Times(u, k)
    BY <1>1, <1>3 DEF ResolvedInformation
  <2> QED
    BY <1>1, <1>2, <2>1, <2>2
<1>4. CASE ~(last \in DOMAIN request.forecast.known /\ request.forecast.known[last] > 0)
  <2>1. ResolvedInformation(request, last) = 0
    BY <1>4 DEF ResolvedInformation
  <2> QED
    BY <1>1, <2>1
<1> QED
  BY <1>3, <1>4

(* An observation, with or without an answer, keeps all of it.             *)
LEMMA ObservationKeeps ==
    ASSUME QInd, NEW input, input.pop \in QPop \cup {0}, NEW lesson, NEW asked,
           asked = <<>> \/ \E request : asked = <<request>> /\ Asked(request),
           NEW plan \in BOOLEAN, Observing(input, lesson, asked, plan)
    PROVE  QInd'
<1>1. PICK credit \in SUBSET Successors(input.pop), entropy \in QLevel, error \in QLevel :
        \E foretold \in PredictionsAfter(input, BoundaryAfter(input, credit)) :
           ApplyObservation(input, lesson, asked, plan, credit, foretold, entropy, error)
  BY Zenon DEF Observing
<1>2. PICK foretold \in PredictionsAfter(input, BoundaryAfter(input, credit)) :
        ApplyObservation(input, lesson, asked, plan, credit, foretold, entropy, error)
  BY <1>1, Zenon
<1> DEFINE b == BoundaryAfter(input, credit)
           told == ResolvedInformation(asked[1], b.pop)
<1>3. /\ b \in [pop : QPop \cup {0}, credit : SUBSET QPop]
      /\ b.credit # {} => b.pop # 0
  <2>1. Successors(input.pop) \subseteq QPop
    BY DEF Successors
  <2> QED
    BY <2>1 DEF BoundaryAfter, NoBoundary, QInd, ExperienceTyped
<1> HIDE DEF b
<1>4. qBoundary' = b /\ qRequests' = qRequests /\ LearnFrom(input, lesson)
  BY <1>2 DEF ApplyObservation, b
<1>5. ExperienceTyped' /\ Happened'
  BY <1>3, <1>4, LearningCounted DEF QInd, ExperienceTyped
<1> DEFINE ever == [q \in QPop |-> IF b.pop = 0 THEN 0 ELSE qEver[<<b.pop, q>>]]
<1>6. ever \in [QPop -> Nat] /\ b.pop # 0 => \A q \in QPop : ever[q] = qEver[<<b.pop, q>>]
  BY <1>3 DEF QInd, ExperienceTyped, Pairs
<1>7. ever \in [QPop -> Nat]
  BY <1>3 DEF QInd, ExperienceTyped, Pairs
<1> HIDE DEF ever
<1>8. FoundedOn(foretold, ever)
  <2>1. CASE foretold \in Predictions(b)
    BY <1>3, <1>6, <1>7, <2>1, PredictionFounded DEF QInd
  <2>2. CASE foretold = UnknownPrediction
    BY <1>7, <2>2, UnknownFounded
  <2> QED
    BY <2>1, <2>2 DEF PredictionsAfter, b
<1>9. (qAgenda # NoAgenda => Asked(qAgenda))'
  <2>1. CASE plan
    <3>1. PICK policy : qAgenda' = PlanInquiry(qRev', policy, foretold, entropy, b.pop)
      BY <1>2, <1>4, <2>1 DEF ApplyObservation
    <3>2. Asked(qAgenda')
      BY <1>3, <1>8, <3>1, PlanAsked DEF QInd, ExperienceTyped, ever
    <3> QED
      BY <3>2 DEF Asked
  <2>2. CASE ~plan
    <3>1. qAgenda' = qAgenda
      BY <1>2, <2>2 DEF ApplyObservation
    <3> QED
      BY <3>1 DEF QInd, Asked
  <2> QED
    BY <2>1, <2>2
<1>10. (\A request \in qRequests : Asked(request))'
  BY <1>4 DEF QInd, Asked
<1>11. ResultEarned'
  <2>1. CASE asked = <<>>
    <3>1. qResult' = qResult
      BY <1>2, <2>1 DEF ApplyObservation
    <3> QED
      BY <3>1 DEF QInd, ResultEarned
  <2>2. CASE asked # <<>>
    <3>1. PICK request : asked = <<request>> /\ Asked(request)
      BY <2>2
    <3>2. qResult' = [gain |-> ResolvedInformation(request, b.pop), of |-> request.uncertainty,
                      before |-> IF b.pop = 0 THEN 0 ELSE request.ever[b.pop]]
      BY <1>2, <1>4, <2>2, <3>1 DEF ApplyObservation
    <3>3. PICK g : g = ResolvedInformation(request, b.pop)
      OBVIOUS
    <3>4. /\ g \in Nat /\ g <= request.uncertainty
          /\ g > 0 => b.pop \in QPop /\ request.ever[b.pop] > 0
      BY <3>1, <3>3, ResolvedEarned
    <3>5. 0 \notin QPop
      BY QAssumption
    <3>6. request.uncertainty \in Nat
      BY <3>1 DEF Asked, Whole
    <3> QED
      BY <3>2, <3>3, <3>4, <3>5, <3>6 DEF ResultEarned
  <2> QED
    BY <2>1, <2>2
<1> QED
  BY <1>5, <1>9, <1>10, <1>11 DEF QInd

(* What only adds to the experience keeps what is counted.                 *)
LEMMA TeachingKeeps ==
    ASSUME QInd, NEW lesson,
           qTaught' = OnceMore(qTaught, lesson), qEver' = OnceMore(qEver, lesson),
           UNCHANGED <<qBoundary, qPrior, qTraces, qClient, qResult>>
    PROVE  QInd'
<1>1. /\ qTaught' \in [Pairs -> Nat] /\ qEver' \in [Pairs -> Nat]
      /\ \A p \in Pairs : /\ qTaught'[p] = qTaught[p] + IF p = lesson THEN 1 ELSE 0
                          /\ qEver'[p] = qEver[p] + IF p = lesson THEN 1 ELSE 0
  <2>1. qTaught \in [Pairs -> Nat] /\ qEver \in [Pairs -> Nat]
    BY DEF QInd, ExperienceTyped
  <2>2. /\ OnceMore(qTaught, lesson) \in [Pairs -> Nat]
        /\ \A p \in Pairs : OnceMore(qTaught, lesson)[p] = qTaught[p] + IF p = lesson THEN 1 ELSE 0
    BY <2>1, CountedOnceMore
  <2>3. /\ OnceMore(qEver, lesson) \in [Pairs -> Nat]
        /\ \A p \in Pairs : OnceMore(qEver, lesson)[p] = qEver[p] + IF p = lesson THEN 1 ELSE 0
    BY <2>1, CountedOnceMore
  <2> QED
    BY <2>2, <2>3
<1>2. ASSUME NEW p \in Pairs PROVE qTaught'[p] + Seen(p)' <= qEver'[p]
  <2>1. Seen(p)' = Seen(p)
    BY DEF Seen
  <2>2. TimesIn(qTraces, p) \in Nat
    BY PlacesFinite DEF QInd, ExperienceTyped
  <2>3. PICK s \in Nat : s = Seen(p)
    BY <2>2 DEF Seen, TimesIn
  <2>4. qTaught[p] \in Nat /\ qEver[p] \in Nat /\ qTaught[p] + s <= qEver[p]
    BY <2>3 DEF QInd, ExperienceTyped, Happened
  <2> QED
    BY <1>1, <2>1, <2>3, <2>4
<1>3. Happened'
  BY <1>2 DEF Happened, Seen
<1> QED
  BY <1>1, <1>3 DEF QInd, ExperienceTyped, Asked, ResultEarned, qClient

(* Every command and every request keeps the invariant.                    *)
LEMMA InquiryStep == ASSUME QInd, [QNext]_qVars PROVE QInd'
<1>1. CASE UNCHANGED <<qExperience, qClient, qResult>>
  BY <1>1 DEF QInd, ExperienceTyped, Happened, Seen, Asked, ResultEarned, qExperience, qClient
<1>2. ASSUME NEW input \in QInput, NEW lesson, ProcessObservation(input, lesson)
      PROVE  QInd'
  BY <1>2, QAssumption, ObservationKeeps DEF ProcessObservation
<1>3. ASSUME NEW input \in QInput, NEW lesson, NEW request \in qRequests,
             ProcessInquiryObservation(request, input, lesson)
      PROVE  QInd'
  <2>1. Asked(request) /\ input.pop \in QPop \cup {0}
    BY QAssumption DEF QInd
  <2> QED
    BY <1>3, <2>1, ObservationKeeps DEF ProcessInquiryObservation
<1>4. ASSUME NEW pop \in QPop, ProcessSensorObservation(pop) PROVE QInd'
  BY <1>4, ObservationKeeps DEF ProcessSensorObservation
<1>5. CASE RequestInquiry
  <2>1. PICK foretold \in {IF qAgenda.seq = qRev THEN qAgenda.forecast ELSE UnknownPrediction} :
          qRequests' = qRequests \cup {[qAgenda EXCEPT !.forecast = foretold]}
    BY <1>5, Zenon DEF RequestInquiry
  <2>2. Asked(qAgenda) /\ UNCHANGED <<qExperience, qAgenda, qResult>>
    BY <1>5 DEF RequestInquiry, QInd
  <2>3. FoundedOn(foretold, qAgenda.ever)
    BY <2>1, <2>2, UnknownFounded DEF Asked
  <2>4. Asked([qAgenda EXCEPT !.forecast = foretold])
    BY <2>2, <2>3 DEF Asked
  <2> QED
    BY <2>1, <2>2, <2>4 DEF QInd, ExperienceTyped, Happened, Seen, ResultEarned, Asked, qExperience
<1>6. CASE CognitiveThink
  BY <1>1, <1>6 DEF CognitiveThink
<1>7. ASSUME NEW lesson, TeachExperience(lesson) PROVE QInd'
  BY <1>7, TeachingKeeps DEF TeachExperience
<1>8. ASSUME NEW report, RecordInquiryConsequence(report) PROVE QInd'
  BY <1>8, TeachingKeeps DEF RecordInquiryConsequence
<1>9. ASSUME NEW pending, RecordNumericInquiry(pending) PROVE QInd'
  BY <1>1, <1>9 DEF RecordNumericInquiry
<1>10. CASE UNCHANGED qVars
  BY <1>1, <1>10 DEF qVars
<1> QED
  BY <1>2, <1>3, <1>4, <1>5, <1>6, <1>7, <1>8, <1>9, <1>10 DEF QNext

(* Agendas, requests and answers stay founded on what had happened, however*)
(* late a request is made or answered (BuildInquiryRequest,                *)
(* applyObservationCommandLocked).                                         *)
THEOREM InquiryInvariance == QSpec => []QInd
<1>1. ASSUME QInit PROVE QInd
  <2>1. PICK past \in QPast :
          /\ qTraces = past.traces
          /\ qTaught = [p \in Pairs |-> IF p \in past.taught THEN 1 ELSE 0]
          /\ qEver = [p \in Pairs |-> qTaught[p] + Seen(p)]
    BY <1>1, Zenon DEF QInit
  <2>2. qTraces \in Seq(Pairs)
    BY <2>1, QAssumption DEF Pairs
  <2>3. ASSUME NEW p \in Pairs PROVE Seen(p) \in Nat /\ qTaught[p] \in Nat
    <3>1. TimesIn(qTraces, p) \in Nat
      BY <2>2, PlacesFinite
    <3> QED
      BY <2>1, <3>1 DEF Seen, TimesIn
  <2>4. qTaught \in [Pairs -> Nat] /\ qEver \in [Pairs -> Nat]
    BY <2>1, <2>3
  <2>5. Happened
    BY <2>1, <2>3 DEF Happened
  <2>6. /\ qBoundary = NoBoundary /\ qPrior = 0 /\ qAgenda = NoAgenda /\ qRequests = {}
        /\ qResult = NoResult
    BY <1>1 DEF QInit
  <2> QED
    BY <2>2, <2>4, <2>5, <2>6 DEF QInd, ExperienceTyped, NoBoundary, NoResult, ResultEarned
<1>2. QInd /\ [QNext]_qVars => QInd'
  BY InquiryStep
<1> QED
  BY <1>1, <1>2, PTL DEF QSpec

(* An answer is credited only for what had followed before the question was*)
(* asked, never for more than was uncertain, and n exposures leave one part*)
(* in n + 1 unknown (resolvedPredictionInformation,                        *)
(* assessPopulationEvidence).                                              *)
THEOREM InquiriesEarn == QSpec => []GainEarned
<1>1. ASSUME QInd PROVE GainEarned
  <2>1. ASSUME qAgenda # NoAgenda, Confidence(qAgenda.forecast) > 0
        PROVE  Confidence(qAgenda.forecast) * (qAgenda.ever[qAgenda.forecast.chosen] + 1)
                 <= Whole * qAgenda.ever[qAgenda.forecast.chosen]
    <3>1. FoundedOn(qAgenda.forecast, qAgenda.ever)
      BY <1>1, <2>1 DEF QInd, Asked
    <3>2. qAgenda.forecast.chosen # 0
      BY <2>1 DEF Confidence
    <3> QED
      BY <3>1, <3>2 DEF FoundedOn, Confidence
  <2> QED
    BY <1>1, <2>1 DEF GainEarned, QInd, ResultEarned
<1> QED
  BY <1>1, InquiryInvariance, PTL
=============================================================================
