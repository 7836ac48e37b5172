------------------------------ MODULE ActionLoop ------------------------------
(***************************************************************************)
(* From a recommendation to an external action and back to learning: the   *)
(* safety boundary, the execution gateway, numeric composition actions,    *)
(* action bindings, and the outcomes that promote the bound neural targets *)
(* (runtime/safety.go, execution/, core/engine.go,                         *)
(* core/neural_composition.go, runtime/composition_action.go,              *)
(* runtime/contract.go, runtime/inquiry_*.go, learning/).                  *)
(*                                                                         *)
(* An authorised request lives in the memory of the process that built it, *)
(* and so do the gateway's executed IDs.  Bindings, evidence and processed *)
(* events are journaled and come back with a recovery; JournaledRuntime is *)
(* about that recovery, here it is one step.                               *)
(*                                                                         *)
(* Abstractions.  One bound target node.  Risk is low or not: an unset     *)
(* level, medium, high and critical all require a human.  Outcomes are     *)
(* reliable.  A readout is the revision and the scene it was computed on.  *)
(***************************************************************************)
EXTENDS Integers, FiniteSets

CONSTANTS
    Id,        \* request identities
    Source,    \* who reports an outcome
    Group,     \* independence groups a report may declare
    Synapse,   \* synapses a binding may name, besides none
    Linked,    \* those of them the Brain has
    Life,      \* longest validity a caller asks for
    MaxAge,    \* CompositionConfig.MaxSceneAgeNS
    MaxTime,   \* bound: clock
    MaxRev,    \* bound: committed revisions
    MaxHeld    \* bound: authorised requests a process keeps

ASSUME ALinkAssumption  == Linked \subseteq Synapse
ASSUME ABoundAssumption == /\ Life \in Nat /\ MaxAge \in Nat
                          /\ MaxTime \in Nat /\ MaxRev \in Nat /\ MaxHeld \in Nat

VARIABLES
    now,        \* the clock; 0 is before the first observation
    (* the Brain: journaled and recovered *)
    rev,        \* r.seq
    scene,      \* composition.Scene.ObservedAt, 0 when there is none
    seqAt,      \* composition.SequenceObservedAt, 0 when there is none
    binding,    \* r.actions
    ledger,     \* the evidence ledger: typed outcome records
    seen,       \* processed IDs of inquiry outcome events
    gain,       \* promotions of the target
    stranded,   \* a durable record cannot be applied, now or on replay
    (* the process *)
    phase,      \* "serving"; "retired" by an uncertain write; "down" after a crash
    registered, \* a motor actuator is registered
    held,       \* authorised requests
    forecast,   \* IDs whose caller captured the prediction before acting
    proposals,  \* composition readouts a caller holds
    lease,      \* the composition request that owns the mutation lease
    admitted,   \* requests that passed the gateway's checks and wait for g.mu
    executed,   \* g.executedIDs
    (* the outside world: history *)
    acts,       \* dispatches of each ID since the process started
    moved       \* composition dispatches of each ID, over all processes

aBrain   == <<rev, scene, seqAt, binding, ledger, seen, gain, stranded>>
gateway == <<registered, admitted, executed, acts, moved>>
caller  == <<held, forecast, proposals>>
aVars    == <<now, rev, scene, seqAt, binding, ledger, seen, gain, stranded, phase,
             registered, held, forecast, proposals, lease, admitted, executed,
             acts, moved>>

NoBinding == [ref |-> 0, syn |-> "unbound"]
NoLease   == [id |-> "nobody", ref |-> 0, scene |-> 0, expiry |-> 0]
Level     == {"low", "medium"}

Bound(id) == binding[id] # NoBinding

AInit ==
    /\ now = 1
    /\ rev = 0 /\ scene = 0 /\ seqAt = 0
    /\ binding = [id \in Id |-> NoBinding]
    /\ ledger = {} /\ seen = {} /\ gain = 0 /\ stranded = FALSE
    /\ phase = "serving" /\ registered = FALSE
    /\ held = {} /\ forecast = {} /\ proposals = {}
    /\ lease = NoLease
    /\ admitted = {} /\ executed = {}
    /\ acts = [id \in Id |-> 0] /\ moved = [id \in Id |-> 0]

Tick ==
    /\ now < MaxTime
    /\ now' = now + 1
    /\ UNCHANGED <<aBrain, phase, gateway, caller, lease>>
-----------------------------------------------------------------------------
(* Every managed command takes the mutation lease, then the runtime's lock. *)

(* Mutant: a command does not wait for the lease of a composition action. *)
MutableUnleased == phase = "serving" /\ rev < MaxRev

Mutable ==
    /\ phase = "serving" /\ lease = NoLease
    /\ rev < MaxRev

(* Any command that changes neither bindings, evidence nor the scene. *)
OtherCommand ==
    /\ Mutable
    /\ rev' = rev + 1
    /\ UNCHANGED <<now, scene, seqAt, binding, ledger, seen, gain, stranded, phase,
                   gateway, caller, lease>>

(* Lessons and perceptions must lie in the past; a sensor sets its own time. *)
InThePast(t) == t <= now

(* A simulator scene through the sensor transaction; an older one is refused. *)
SceneObserved(t) ==
    /\ Mutable
    /\ t >= scene
    /\ scene' = t /\ rev' = rev + 1
    /\ UNCHANGED <<now, seqAt, binding, ledger, seen, gain, stranded, phase,
                   gateway, caller, lease>>

(* A perceived sequence is ordered against earlier sequences only, and its *)
(* scene replaces the current one whatever that one's age.                 *)
InputPerceived(t) ==
    /\ Mutable
    /\ InThePast(t)
    /\ t >= seqAt
    /\ scene' = t /\ seqAt' = t /\ rev' = rev + 1
    /\ UNCHANGED <<now, binding, ledger, seen, gain, stranded, phase,
                   gateway, caller, lease>>

(* A lesson about the scenes before and after a demonstrated action. *)
LessonLearned(before, after) ==
    /\ Mutable
    /\ before <= after /\ InThePast(after)
    /\ scene' = IF scene = 0 \/ after >= scene THEN after ELSE scene
    /\ seqAt' \in {seqAt, IF before >= seqAt THEN before ELSE seqAt}
    /\ rev' = rev + 1
    /\ UNCHANGED <<now, binding, ledger, seen, gain, stranded, phase,
                   gateway, caller, lease>>

(* registerActionBindingLocked: the same binding again changes nothing, a  *)
(* different one under a used ID is refused.                               *)
RegisterActionBinding(id, syn) ==
    /\ Mutable
    /\ ~Bound(id)
    /\ binding' = [binding EXCEPT ![id] = [ref |-> 0, syn |-> syn]]
    /\ rev' = rev + 1
    /\ UNCHANGED <<now, scene, seqAt, ledger, seen, gain, stranded, phase,
                   gateway, caller, lease>>
-----------------------------------------------------------------------------
(* SafetyBoundary: assess, authorise, build.                               *)
RequiresHuman(level) == level # "low"

Permitted(level, approver) == RequiresHuman(level) => approver

(* RequestAction and PrepareInquiryExecution up to the authorised request. *)
Authorize(id, motor, level, approver, life) ==
    /\ phase # "down"
    /\ Cardinality(held) < MaxHeld
    /\ Permitted(level, approver)
    /\ held' = held \cup {[id |-> id, motor |-> motor, level |-> level,
                           human |-> RequiresHuman(level), expiry |-> now + life,
                           numeric |-> FALSE]}
    /\ UNCHANGED <<now, aBrain, phase, gateway, forecast, proposals, lease>>

Expired(request) == request.expiry <= now

(* CaptureInquiryPrediction: the forecast a later outcome is compared with. *)
CaptureInquiryPrediction(request) ==
    /\ phase = "serving"
    /\ ~request.numeric /\ ~Expired(request)
    /\ forecast' = forecast \cup {request.id}
    /\ UNCHANGED <<now, aBrain, phase, gateway, held, proposals, lease>>

(* ReadComposition accepts only a scene that is present and recent. *)
Fresh == scene # 0 /\ now >= scene /\ now - scene <= MaxAge

ReadProposal ==
    /\ phase = "serving" /\ Fresh
    /\ proposals' = {[seq |-> rev, scene |-> scene]}
    /\ UNCHANGED <<now, aBrain, phase, gateway, held, forecast, lease>>

(* validateCompositionActionLocked *)
CurrentProposal(p) == p.seq = rev /\ p.scene = scene /\ Fresh

(* Mutant: a reused request ID is bound again instead of refused. *)
BindableAgain(id) == TRUE

(* A request ID is bound once.  The code accepts the same binding again,   *)
(* but this one carries the revision of its readout, and binding it ends   *)
(* that revision: no later readout that validates makes an equal binding.  *)
Bindable(id) == ~Bound(id)

(* RequestCompositionAction under the mutation lease, up to the dispatch.  *)
(* An uncertain append retires the runtime, with the binding or without.   *)
BeginCompositionAction(p, id, approver, life) ==
    /\ Mutable
    /\ CurrentProposal(p)
    /\ Permitted("medium", approver)
    /\ Bindable(id)
    /\ LET bound == binding' = [binding EXCEPT ![id] = [ref |-> p.seq + 1, syn |-> "none"]]
       IN  \/ /\ bound /\ rev' = rev + 1
              /\ lease' = [id |-> id, ref |-> p.seq, scene |-> p.scene, expiry |-> now + life]
              /\ UNCHANGED phase
           \/ /\ phase' = "retired"
              /\ \/ bound /\ rev' = rev + 1
                 \/ UNCHANGED <<binding, rev>>
              /\ UNCHANGED lease
    /\ UNCHANGED <<now, scene, seqAt, ledger, seen, gain, stranded, gateway, caller>>
-----------------------------------------------------------------------------
(* ExecutionGateway                                                        *)
RegisterMotorActuator ==
    /\ ~registered
    /\ registered' = TRUE
    /\ UNCHANGED <<now, aBrain, phase, admitted, executed, acts, moved, caller, lease>>

Leased == [id |-> lease.id, motor |-> TRUE, level |-> "medium", human |-> TRUE,
           expiry |-> lease.expiry, numeric |-> TRUE]

Executable == held \cup (IF lease = NoLease THEN {} ELSE {Leased})

(* Execute up to g.mu: the expiry is checked before the lock is waited for. *)
Admit(request) ==
    /\ request \notin admitted
    /\ ~Expired(request)
    /\ request.human <=> request.level # "low"
    /\ admitted' = admitted \cup {request}
    /\ UNCHANGED <<now, aBrain, phase, registered, executed, acts, moved, caller, lease>>

(* The owner's mutation ends with the call, however it ended. *)
EndLease(request) == lease' = IF request.numeric THEN NoLease ELSE lease

(* A composition request that expired before it reached the gateway. *)
RefuseLeased ==
    /\ lease # NoLease /\ Leased \notin admitted /\ Expired(Leased)
    /\ lease' = NoLease
    /\ UNCHANGED <<now, aBrain, phase, gateway, caller>>

RefuseRequest(request) ==
    /\ \/ request.id \in executed
       \/ request.motor /\ ~registered
    /\ admitted' = admitted \ {request}
    /\ EndLease(request)
    /\ UNCHANGED <<now, aBrain, phase, registered, executed, acts, moved, caller>>

Acted(request) ==
    /\ acts' = [acts EXCEPT ![request.id] = @ + 1]
    /\ moved' = IF request.numeric THEN [moved EXCEPT ![request.id] = @ + 1] ELSE moved

NotActed == UNCHANGED <<acts, moved>>

(* The adapter's context ends at the expiry of the request. *)
WithinDeadline(request) == ~Expired(request)

(* Mutant: the ID of a motor request is recorded when the actuator says so. *)
DispatchMotorUnreserved(request) ==
    /\ request.motor /\ registered
    /\ request.id \notin executed
    /\ \/ WithinDeadline(request) /\ Acted(request)
       \/ NotActed
    /\ executed' \in {executed, executed \cup {request.id}}
    /\ admitted' = admitted \ {request}
    /\ EndLease(request)
    /\ UNCHANGED <<now, aBrain, phase, registered, caller>>

(* The ID is reserved first: whether the actuator moved is not known from   *)
(* its error, and the request is never repeated by this process.            *)
DispatchMotor(request) ==
    /\ request.motor /\ registered
    /\ request.id \notin executed
    /\ executed' = executed \cup {request.id}
    /\ \/ WithinDeadline(request) /\ Acted(request)
       \/ NotActed
    /\ admitted' = admitted \ {request}
    /\ EndLease(request)
    /\ UNCHANGED <<now, aBrain, phase, registered, caller>>

(* Every plugin of the intent is triggered, late or not. *)
DispatchPlugins(request) ==
    /\ ~request.motor
    /\ request.id \notin executed
    /\ Acted(request)
    /\ executed' = executed \cup {request.id}
    /\ admitted' = admitted \ {request}
    /\ EndLease(request)
    /\ UNCHANGED <<now, aBrain, phase, registered, caller>>
-----------------------------------------------------------------------------
(* Evidence.  CountEvidenceProvenance joins the source, the declared group *)
(* and the cause of a record; support is independent per component.        *)
Label == Source \cup Group

Closed(labels, records) ==
    \A r \in records : r.group \in Group => (r.source \in labels <=> r.group \in labels)

Component(l, records) ==
    {m \in Label : \A c \in SUBSET Label : l \in c /\ Closed(c, records) => m \in c}

(* Mutant: every attributed report is support of its own. *)
IndependentByCount(records) == Cardinality({r \in records : r.group \in Group})

Independent(records) ==
    Cardinality({Component(l, records) : l \in {r.group : r \in records} \cap Group})

(* LearningPolicy.Evaluate under DefaultLearningPolicy. *)
Evaluate(records) ==
    IF \E r \in records : ~r.success THEN "rejected"
    ELSE IF Independent(records) >= 2 THEN "accepted" ELSE "candidate"

(* EvidenceLedger.Record: one report per request and source. *)
Recorded(record) ==
    \E r \in ledger : r.id = record.id /\ r.source = record.source

(* applyOutcomeLocked after the record is durable.  A promotion reinforces *)
(* the bound synapse, and fails when the Brain has no such synapse: the    *)
(* runtime is retired, and a replay of the record fails the same way.      *)
ApplyOutcome(record) ==
    LET fresh    == ~Recorded(record)
        after    == IF fresh THEN ledger \cup {record} ELSE ledger
        accepted == fresh /\ Evaluate(after) = "accepted"
        broken   == accepted /\ binding[record.id].syn \in Synapse \ Linked
    IN  /\ ledger' = after
        /\ gain' = IF accepted THEN gain + 1 ELSE gain
        /\ stranded' = broken
        /\ phase' = IF broken THEN "retired" ELSE phase

(* A retry is journaled again and changes nothing but the revision. *)
ObserveOutcome(record) ==
    /\ Mutable
    /\ Bound(record.id)
    /\ ApplyOutcome(record)
    /\ rev' = rev + 1
    /\ UNCHANGED <<now, scene, seqAt, binding, seen, gateway, caller, lease>>

(* An inquiry outcome is refused once its request has expired, and when    *)
(* the event or the report is known; otherwise it commits as one revision  *)
(* together with its observation.                                          *)
ProcessInquiryOutcome(request, record) ==
    /\ Mutable
    /\ record.id = request.id /\ ~request.numeric
    /\ ~Expired(request)
    /\ request.id \in forecast
    /\ request.id \notin seen
    /\ Bound(request.id)
    /\ ~Recorded(record)
    /\ ApplyOutcome(record)
    /\ seen' = seen \cup {request.id}
    /\ rev' = rev + 1
    /\ UNCHANGED <<now, scene, seqAt, binding, gateway, caller, lease>>
-----------------------------------------------------------------------------
(* The process ends, or its recovery begins: callers, gateway and lease go. *)
ProcessEnds ==
    /\ phase # "down"
    /\ phase' = "down"
    /\ held' = {} /\ forecast' = {} /\ proposals' = {}
    /\ lease' = NoLease
    /\ registered' = FALSE /\ admitted' = {} /\ executed' = {}
    /\ acts' = [id \in Id |-> 0]
    /\ UNCHANGED <<now, aBrain, moved>>

(* A new process replays the journal; one bad record ends every attempt. *)
ProcessRecovers ==
    /\ phase # "serving" /\ ~stranded
    /\ phase' = "serving"
    /\ UNCHANGED <<now, aBrain, gateway, caller, lease>>

Report == [id : Id, source : Source, group : Group \cup {"undeclared"}, success : BOOLEAN]

ANext ==
    \/ Tick \/ OtherCommand \/ ReadProposal \/ RegisterMotorActuator
    \/ RefuseLeased \/ ProcessEnds \/ ProcessRecovers
    \/ \E t \in 1 .. MaxTime : SceneObserved(t) \/ InputPerceived(t)
    \/ \E before, after \in 1 .. MaxTime : LessonLearned(before, after)
    \/ \E id \in Id, syn \in Synapse \cup {"none"} : RegisterActionBinding(id, syn)
    \/ \E id \in Id, motor \in BOOLEAN, level \in Level, approver \in BOOLEAN, life \in 1 .. Life :
         Authorize(id, motor, level, approver, life)
    \/ \E p \in proposals, id \in Id, approver \in BOOLEAN, life \in 1 .. Life :
         BeginCompositionAction(p, id, approver, life)
    \/ \E request \in Executable : Admit(request)
    \/ \E request \in admitted :
         RefuseRequest(request) \/ DispatchMotor(request) \/ DispatchPlugins(request)
    \/ \E request \in held : CaptureInquiryPrediction(request)
    \/ \E record \in Report :
         \/ ObserveOutcome(record)
         \/ \E request \in held : ProcessInquiryOutcome(request, record)

ASpec == AInit /\ [][ANext]_aVars

-----------------------------------------------------------------------------
(* One process dispatches a request ID at most once, plugin or actuator,   *)
(* answered or not (gateway.go Execute, numeric_motor.go).                 *)
DispatchedOnce == \A id \in Id : acts[id] <= 1

(* A composition action moves the device at most once under its ID even     *)
(* when the process that dispatched it is gone and its executed IDs with    *)
(* it: the journaled binding stands in for them (composition_action.go).    *)
NumericActionOnce == \A id \in Id : moved[id] <= 1

(* While a composition action is on its way to the actuator, nothing else   *)
(* commits: what moves was computed on the scene the Brain still has        *)
(* (core/neural_composition.go RequestCompositionAction).                   *)
ReferenceHeld ==
    lease # NoLease => rev = lease.ref + 1 /\ scene = lease.scene

(* The target is promoted only on successes that two sources of different   *)
(* declared groups report, and never once a failure is known: one sensor    *)
(* that repeats itself is not independent support (learning/policy.go).     *)
PromotionSupported ==
    [][gain' > gain =>
         /\ \A r \in ledger' : r.success
         /\ \E r, q \in ledger' : /\ {r.group, q.group} \subseteq Group
                                  /\ r.source # q.source /\ r.group # q.group]_aVars

(* What COGNITIVE_JOURNAL.md says of a complete command: once durable it is *)
(* a redo commitment, recovery applies it.                                  *)
RedoCommitment == ~stranded
=============================================================================
