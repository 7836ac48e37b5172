---------------------------- MODULE MonitorStream ----------------------------
(***************************************************************************)
(* The managed runtime as its monitors see it: the RuntimeSupervisor and   *)
(* its lock, the telemetry hub of the current runtime, and the bridge      *)
(* goroutines that serve /v1/brain/stream                                  *)
(* (runtime/runtime_supervisor*.go, runtime/telemetry*.go,                 *)
(* bridge/server.go, bridge/managed_runtime.go).                           *)
(*                                                                         *)
(* A mutation and a handover hold the supervisor lock exclusively; a       *)
(* stream takes it shared, briefly, to subscribe, to read the journal and  *)
(* for every frame it writes, and holds nothing in between.                *)
(*                                                                         *)
(* Abstractions.  A committed event is its revision; what a mutation does  *)
(* to journal and brain is JournaledRuntime, here one step.  A runtime is  *)
(* its epoch.  The hub of a retired runtime is closed and forgotten.       *)
(***************************************************************************)
EXTENDS Integers, Sequences, FiniteSets

CONSTANTS
    Stream,     \* stream goroutines of the bridge, one WebSocket each at a time
    Capacity,   \* buffer of a TelemetrySubscriber
    MaxRev,     \* bound: committed events
    MaxEpoch    \* bound: handovers, plus one

ASSUME CapacityAssumption == Capacity \in Nat \ {0}
ASSUME BoundAssumption    == MaxRev \in Nat /\ MaxEpoch \in Nat \ {0}

VARIABLES
    (* RuntimeSupervisor.mu, a sync.RWMutex *)
    writer,     \* who asked for it exclusively: "none", "mutation" or "owner"
    readers,    \* streams that hold it shared
    waiting,    \* streams blocked behind the writer
    (* RuntimeSupervisor and the current BrainRuntime *)
    epoch,      \* which runtime is published; a new one at each handover
    closed,     \* the supervisor is shut down
    poisoned,   \* the current runtime is recoveryRequired
    journal,    \* number of committed events
    (* the current runtime's TelemetryHub *)
    subs,       \* streams whose subscriber is registered, hence open
    queue,      \* what is buffered in each subscriber's channel
    building,   \* the event being built and its recipients
    published,  \* history: revisions that have been delivered to the hub
    (* the bridge *)
    pc,         \* where each stream goroutine is
    bound,      \* the epoch each stream subscribed in
    after,      \* the revision below which live events are skipped
    from,       \* history: the cursor the client asked for
    todo,       \* frames to write before the stream goes on; 0: the handshake
    writing,    \* streams that checked their epoch and are writing a frame
    sent        \* history: revisions written on this connection

lock    == <<writer, readers, waiting>>
brain   == <<epoch, closed, poisoned, journal>>
hub     == <<subs, queue, building, published>>
session == <<pc, bound, after, from, todo, writing, sent>>
vars    == <<writer, readers, waiting, epoch, closed, poisoned, journal, subs,
             queue, building, published, pc, bound, after, from, todo, writing, sent>>

NoBuild == [rev |-> 0, to |-> {}]

Sending == {"greet", "replay", "relay"}       \* a frame is to be written
Leased  == {"subscribe", "history"} \cup Sending

Items(seq) == {seq[i] : i \in 1 .. Len(seq)}

Init ==
    /\ writer = "none" /\ readers = {} /\ waiting = {}
    /\ epoch = 1 /\ closed = FALSE /\ poisoned = FALSE /\ journal = 0
    /\ subs = {} /\ queue = [s \in Stream |-> <<>>]
    /\ building = NoBuild /\ published = {}
    /\ pc = [s \in Stream |-> "off"]
    /\ bound = [s \in Stream |-> 0] /\ after = [s \in Stream |-> 0]
    /\ from = [s \in Stream |-> 0] /\ todo = [s \in Stream |-> <<>>]
    /\ writing = {} /\ sent = [s \in Stream |-> {}]

Usable     == ~closed /\ ~poisoned
Current(s) == Usable /\ bound[s] = epoch
-----------------------------------------------------------------------------
(* sync.RWMutex.  A writer announces itself, which stops new readers, and  *)
(* owns the lock once the readers inside are gone; when it unlocks, the    *)
(* readers that waited for it enter before any other writer.               *)
Lock(w) ==
    /\ writer = "none"
    /\ writer' = w
    /\ UNCHANGED <<readers, waiting, brain, hub, session>>

Exclusive(w) == writer = w /\ readers = {}

Unlock ==
    /\ writer' = "none"
    /\ readers' = waiting /\ waiting' = {}

RLock(s) ==
    /\ pc[s] \in Leased
    /\ s \notin readers \cup waiting
    /\ IF writer = "none"
       THEN readers' = readers \cup {s} /\ UNCHANGED waiting
       ELSE waiting' = waiting \cup {s} /\ UNCHANGED readers
    /\ UNCHANGED <<writer, brain, hub, session>>

RUnlock(s) ==
    /\ readers' = readers \ {s}
    /\ UNCHANGED <<writer, waiting>>
-----------------------------------------------------------------------------
(* A managed mutation that finds the owner closed or the runtime poisoned. *)
MutationRefused ==
    /\ Exclusive("mutation") /\ ~Usable
    /\ Unlock
    /\ UNCHANGED <<brain, hub, session>>

(* It commits one revision.  An operation that publishes chooses its       *)
(* recipients before it builds the event; others publish nothing.          *)
Commit ==
    /\ Exclusive("mutation") /\ Usable /\ building = NoBuild
    /\ journal < MaxRev
    /\ journal' = journal + 1
    /\ \/ /\ subs # {}
          /\ building' = [rev |-> journal + 1, to |-> subs]
          /\ UNCHANGED lock
       \/ /\ Unlock
          /\ UNCHANGED building
    /\ UNCHANGED <<epoch, closed, poisoned, subs, queue, published, session>>

(* Mutant: a full buffer drops the event and keeps the subscription. *)
DeliverDropping ==
    /\ building # NoBuild
    /\ LET ready == {s \in building.to \cap subs : Len(queue[s]) < Capacity}
       IN  /\ queue' = [s \in Stream |-> IF s \in ready
                                         THEN Append(queue[s], building.rev)
                                         ELSE queue[s]]
           /\ subs' = subs
    /\ published' = published \cup {building.rev}
    /\ building' = NoBuild
    /\ Unlock
    /\ UNCHANGED <<brain, session>>

(* The built event goes to the recipients still subscribed; one whose      *)
(* buffer is full is closed, and all are when the event cannot be encoded. *)
Deliver ==
    /\ building # NoBuild
    /\ \E encoded \in BOOLEAN :
         LET live  == building.to \cap subs
             ready == IF encoded THEN {s \in live : Len(queue[s]) < Capacity} ELSE {}
         IN  /\ queue' = [s \in Stream |-> IF s \in ready
                                           THEN Append(queue[s], building.rev)
                                           ELSE queue[s]]
             /\ subs' = subs \ (live \ ready)
    /\ published' = published \cup {building.rev}
    /\ building' = NoBuild
    /\ Unlock
    /\ UNCHANGED <<brain, session>>

(* The mutation fails after it may have written its event: the runtime is  *)
(* poisoned and its hub closed, what is buffered can still be drained.     *)
CommitFails ==
    /\ Exclusive("mutation") /\ Usable /\ building = NoBuild
    /\ journal' \in {journal, journal + 1} /\ journal' <= MaxRev
    /\ poisoned' = TRUE
    /\ subs' = {}
    /\ Unlock
    /\ UNCHANGED <<epoch, closed, queue, building, published, session>>

(* A mutation refused by its own checks changes nothing. *)
MutationInvalid ==
    /\ Exclusive("mutation") /\ Usable /\ building = NoBuild
    /\ Unlock
    /\ UNCHANGED <<brain, hub, session>>
-----------------------------------------------------------------------------
(* Recovery publishes a private runtime rebuilt from the journal: the old  *)
(* one is retired with its hub, the epoch it had is closed.                *)
Handover ==
    /\ Exclusive("owner") /\ ~closed
    /\ epoch < MaxEpoch
    /\ epoch' = epoch + 1
    /\ poisoned' = FALSE
    /\ subs' = {}
    /\ Unlock
    /\ UNCHANGED <<closed, journal, queue, building, published, session>>

(* The rebuild is refused: the old runtime stays in place. *)
HandoverAborted ==
    /\ Exclusive("owner")
    /\ Unlock
    /\ UNCHANGED <<brain, hub, session>>

Close ==
    /\ Exclusive("owner") /\ ~closed
    /\ closed' = TRUE /\ poisoned' = TRUE
    /\ subs' = {}
    /\ Unlock
    /\ UNCHANGED <<epoch, journal, queue, building, published, session>>
-----------------------------------------------------------------------------
(* The goroutine returns, its locals with it. *)
Gone(s) ==
    /\ pc'    = [pc EXCEPT ![s] = "off"]
    /\ bound' = [bound EXCEPT ![s] = 0]
    /\ after' = [after EXCEPT ![s] = 0]
    /\ from'  = [from EXCEPT ![s] = 0]
    /\ todo'  = [todo EXCEPT ![s] = <<>>]
    /\ sent'  = [sent EXCEPT ![s] = {}]

(* A client opens a WebSocket with the last revision it knows. *)
Connect(s) ==
    /\ pc[s] = "off"
    /\ \E r \in 0 .. journal :
          /\ after' = [after EXCEPT ![s] = r]
          /\ from'  = [from EXCEPT ![s] = r]
    /\ pc' = [pc EXCEPT ![s] = "subscribe"]
    /\ UNCHANGED <<lock, brain, hub, bound, todo, writing, sent>>

(* Subscription, handshake snapshot and epoch belong to one lease.  If the *)
(* runtime is unusable or cannot make the handshake, the answer is 503.    *)
Subscribe(s) ==
    /\ pc[s] = "subscribe" /\ s \in readers
    /\ \/ /\ Usable
          /\ subs' = subs \cup {s}
          /\ bound' = [bound EXCEPT ![s] = epoch]
          /\ todo' = [todo EXCEPT ![s] = <<0>>]
          /\ pc' = [pc EXCEPT ![s] = "greet"]
          /\ UNCHANGED <<after, from, sent>>
       \/ Gone(s) /\ UNCHANGED subs
    /\ RUnlock(s)
    /\ UNCHANGED <<brain, queue, building, published, writing>>

Leave(s) == pc' = [pc EXCEPT ![s] = "end"]

(* Mutant: the lease covers the epoch check and not the write. *)
CheckEpochOnly(s) ==
    /\ pc[s] \in Sending /\ s \in readers /\ s \notin writing
    /\ IF Current(s)
       THEN writing' = writing \cup {s} /\ UNCHANGED pc
       ELSE Leave(s) /\ UNCHANGED writing
    /\ RUnlock(s)
    /\ UNCHANGED <<brain, hub, bound, after, from, todo, sent>>

(* A frame is written under a lease, after a check that the runtime is     *)
(* still the one subscribed to.                                            *)
CheckEpoch(s) ==
    /\ pc[s] \in Sending /\ s \in readers /\ s \notin writing
    /\ IF Current(s)
       THEN writing' = writing \cup {s} /\ UNCHANGED <<pc, lock>>
       ELSE Leave(s) /\ RUnlock(s) /\ UNCHANGED writing
    /\ UNCHANGED <<brain, hub, bound, after, from, todo, sent>>

(* Mutant: the lease is kept when the stream goes live. *)
WriteFramePinned(s) ==
    /\ s \in writing
    /\ writing' = writing \ {s}
    /\ sent' = [sent EXCEPT ![s] = @ \cup ({Head(todo[s])} \ {0})]
    /\ todo' = [todo EXCEPT ![s] = Tail(@)]
    /\ IF Len(todo[s]) > 1
       THEN UNCHANGED pc
       ELSE pc' = [pc EXCEPT ![s] = IF @ = "greet" THEN "history" ELSE "live"]
    /\ after' = IF pc[s] = "relay" THEN [after EXCEPT ![s] = Head(todo[s])] ELSE after
    /\ UNCHANGED <<lock, brain, hub, bound, from>>

(* The write succeeds; after its last frame the stream goes on, and a live *)
(* event moves the cursor.                                                 *)
WriteFrame(s) ==
    /\ s \in writing
    /\ writing' = writing \ {s}
    /\ sent' = [sent EXCEPT ![s] = @ \cup ({Head(todo[s])} \ {0})]
    /\ todo' = [todo EXCEPT ![s] = Tail(@)]
    /\ IF Len(todo[s]) > 1
       THEN UNCHANGED pc
       ELSE pc' = [pc EXCEPT ![s] = IF @ = "greet" THEN "history" ELSE "live"]
    /\ after' = IF pc[s] = "relay" THEN [after EXCEPT ![s] = Head(todo[s])] ELSE after
    /\ RUnlock(s)
    /\ UNCHANGED <<brain, hub, bound, from>>

(* The peer is gone, or does not read before the write deadline. *)
WriteFails(s) ==
    /\ s \in writing
    /\ writing' = writing \ {s}
    /\ Leave(s)
    /\ RUnlock(s)
    /\ UNCHANGED <<brain, hub, bound, after, from, todo, sent>>

(* The committed events behind the cursor, read after the subscription. *)
ReadHistory(s) ==
    /\ pc[s] = "history" /\ s \in readers
    /\ \/ /\ Current(s)
          /\ todo' = [todo EXCEPT ![s] = [i \in 1 .. journal - after[s] |-> after[s] + i]]
          /\ pc' = [pc EXCEPT ![s] = IF after[s] < journal THEN "replay" ELSE "live"]
       \/ Leave(s) /\ UNCHANGED todo
    /\ RUnlock(s)
    /\ UNCHANGED <<brain, hub, bound, after, from, writing, sent>>

(* The select of the live loop: the client closed, the epoch ended, an     *)
(* event is buffered, or the channel is closed and drained.                *)
ClientCloses(s) ==
    /\ pc[s] = "live"
    /\ Leave(s)
    /\ UNCHANGED <<lock, brain, hub, bound, after, from, todo, writing, sent>>

Invalidated(s) ==
    /\ pc[s] = "live"
    /\ bound[s] # epoch \/ closed
    /\ Leave(s)
    /\ UNCHANGED <<lock, brain, hub, bound, after, from, todo, writing, sent>>

TakeEvent(s) ==
    /\ pc[s] = "live" /\ queue[s] # <<>>
    /\ queue' = [queue EXCEPT ![s] = Tail(@)]
    /\ IF Head(queue[s]) <= after[s]
       THEN UNCHANGED <<pc, todo>>
       ELSE /\ todo' = [todo EXCEPT ![s] = <<Head(queue[s])>>]
            /\ pc' = [pc EXCEPT ![s] = "relay"]
    /\ UNCHANGED <<lock, brain, subs, building, published, bound, after, from, writing, sent>>

(* Mutant: leaving the select is not leaving the loop. *)
DrainedSpins(s) ==
    /\ pc[s] = "live" /\ queue[s] = <<>> /\ s \notin subs
    /\ UNCHANGED vars

Drained(s) ==
    /\ pc[s] = "live" /\ queue[s] = <<>> /\ s \notin subs
    /\ Leave(s)
    /\ UNCHANGED <<lock, brain, hub, bound, after, from, todo, writing, sent>>

(* The handler returns: the subscriber leaves the hub, the socket closes.  *)
(* No lease is needed, so this can fall into the build of an event.        *)
End(s) ==
    /\ pc[s] = "end"
    /\ subs' = subs \ {s}
    /\ queue' = [queue EXCEPT ![s] = <<>>]
    /\ Gone(s)
    /\ UNCHANGED <<lock, brain, building, published, writing>>
-----------------------------------------------------------------------------
Mutation == MutationRefused \/ Commit \/ Deliver \/ CommitFails \/ MutationInvalid
Owner    == Handover \/ HandoverAborted \/ Close
Session(s) ==
    \/ RLock(s) \/ Subscribe(s)
    \/ CheckEpoch(s) \/ WriteFrame(s) \/ WriteFails(s) \/ ReadHistory(s)
    \/ Invalidated(s) \/ TakeEvent(s) \/ Drained(s) \/ End(s)

Next ==
    \/ Lock("mutation") \/ Lock("owner")
    \/ Mutation \/ Owner
    \/ \E s \in Stream : Connect(s) \/ Session(s) \/ ClientCloses(s)

Spec == Init /\ [][Next]_vars

(* Nothing obliges a client to connect or leave, or an operator to recover *)
(* or close.  A goroutine that can run does: a lock holder finishes (reads *)
(* are bounded, a write has a five second deadline), a stream that is      *)
(* ready in its select or its code goes on.                                *)
Fairness ==
    /\ WF_vars(Mutation) /\ WF_vars(Owner)
    /\ \A s \in Stream : WF_vars(Session(s))

FairSpec == Spec /\ Fairness
-----------------------------------------------------------------------------
TypeOK ==
    /\ writer \in {"none", "mutation", "owner"}
    /\ readers \subseteq Stream /\ waiting \subseteq Stream
    /\ readers \cap waiting = {}
    /\ writer = "none" => waiting = {}
    /\ epoch \in 1 .. MaxEpoch /\ closed \in BOOLEAN /\ poisoned \in BOOLEAN
    /\ journal \in 0 .. MaxRev
    /\ subs \subseteq Stream
    /\ queue \in [Stream -> Seq(1 .. MaxRev)]
    /\ \A s \in Stream : Len(queue[s]) <= Capacity
    /\ building \in [rev : 0 .. MaxRev, to : SUBSET Stream]
    /\ published \subseteq 1 .. journal
    /\ pc \in [Stream -> {"off", "live", "end"} \cup Leased]
    /\ bound \in [Stream -> 0 .. MaxEpoch]
    /\ after \in [Stream -> 0 .. MaxRev] /\ from \in [Stream -> 0 .. MaxRev]
    /\ todo \in [Stream -> Seq(0 .. MaxRev)]
    /\ writing \subseteq readers
    /\ sent \in [Stream -> SUBSET (1 .. MaxRev)]

(* A live stream whose subscription is open owes its client nothing it     *)
(* cannot still send: every published revision behind the client's cursor  *)
(* was written or is buffered.  Subscribing before reading the history, in *)
(* one epoch, leaves no gap; a full buffer ends the stream instead of      *)
(* skipping (stream, publishBuilt).                                        *)
NoLostEvent ==
    \A s \in subs : pc[s] \in {"live", "relay"} =>
        \A r \in published : r > from[s] =>
            r \in sent[s] \cup Items(queue[s]) \cup Items(todo[s])

(* A connection that is gone keeps no subscriber in the hub: every path    *)
(* out of the handler, failures included, unsubscribes (stream).           *)
NoLeakedSubscriber == \A s \in subs : pc[s] \notin {"off", "subscribe"}

(* No frame of a runtime is written once another one is published or the   *)
(* owner is closed: a swap cannot overtake an outgoing frame               *)
(* (writeJSONFrame).                                                       *)
FramesCurrent ==
    [][\A s \in Stream :
          s \in writing /\ s \notin writing' => Current(s) /\ epoch' = epoch]_vars

(* Whoever asks for the supervisor lock exclusively gets it and gives it   *)
(* back: no stream pins a runtime (With, the frame leases).                *)
WriterProgress == writer # "none" ~> writer = "none"

(* A stream of a retired, closed or poisoned runtime ends, so that its     *)
(* client reconnects to the runtime that replaced it (epoch, hub.Close).   *)
StaleStreamEnds ==
    \A s \in Stream :
        pc[s] \notin {"off", "subscribe"} /\ ~Current(s) ~> pc[s] = "off"
=============================================================================
