-------------------------- MODULE ProductionStartup --------------------------
(***************************************************************************)
(* How the production process comes to serve one brain, over any number of *)
(* crashes and restarts: initializeProductionHorizon (services/ai/         *)
(* startup.go), the first-run bootstrap, the continuous service and the    *)
(* bridge's observations as main.go wires them, and the three files they   *)
(* leave: journal, brain memory, checkpoint.                               *)
(*                                                                         *)
(* Abstractions.  A brain is its foundation and the events applied to it.  *)
(* Every write of a file is atomic (temporary file and rename).  What one  *)
(* command does to journal and runtime is JournaledRuntime; here it is one *)
(* step, or a crash that leaves a record no reader accepts.  Power         *)
(* failures, and a record that lost only its newline, are left to that     *)
(* module and to JournalFile.                                              *)
(***************************************************************************)
EXTENDS Integers, Sequences, SequencesExt

CONSTANTS
    Event,      \* the commands of service and bridge
    Legacy,     \* whether a memory file of an older release may be there at first
    MaxEvents   \* bound: the journal is not extended beyond this length

Bootstrap == "bootstrap"
Compose   == "compose"    \* enables serving memory that is a full checkpoint
Command   == Event \cup {Bootstrap, Compose}

ASSUME EventAssumption == Event \cap {Bootstrap, Compose} = {}
ASSUME BoundAssumption == Legacy \in BOOLEAN /\ MaxEvents \in Nat

Foundation == {"seed", "legacy"}
Brain      == [base : Foundation, events : Seq(Command)]
None       == [base |-> "none", events |-> <<>>]

VARIABLES
    journal,   \* the committed events on disk
    torn,      \* a partial record follows them
    memory,    \* the brain memory file: [brain, complete], brain None if absent
    ckpt,      \* the checkpoint file: a brain whose events it is anchored to
    pc,        \* "down", "anchor", "main", "boot", "ready" or "serving"
    brain,     \* the supervised runtime
    loaded,    \* main's loadedBrain
    owes,      \* files the mutation in progress still has to write
    refused,   \* how the last start ended: "no", "init", "main", "disk"
    removed,   \* history: the operator has taken the checkpoint away
    origin     \* history: the foundation that was served first, or "none"

disk    == <<journal, torn, memory, ckpt>>
process == <<pc, brain, loaded, owes, refused>>
vars    == <<journal, torn, memory, ckpt, pc, brain, loaded, owes, refused, removed, origin>>

Absent == [brain |-> None, complete |-> FALSE]

OldMemory == [brain |-> [base |-> "legacy", events |-> <<>>], complete |-> FALSE]

Exists(b) == b # None
Has(b, e) == \E i \in 1 .. Len(b.events) : b.events[i] = e

Init ==
    /\ journal = <<>> /\ torn = FALSE
    /\ memory \in {Absent} \cup (IF Legacy THEN {OldMemory} ELSE {})
    /\ ckpt = None
    /\ pc = "down" /\ brain = None /\ loaded = FALSE /\ owes = <<>>
    /\ refused = "no" /\ removed = FALSE /\ origin = "none"
-----------------------------------------------------------------------------
(* What SaveBrain writes: the neural graph, or a complete checkpoint once  *)
(* neural composition is enabled.                                          *)
Saved(b) == [brain |-> b, complete |-> Has(b, Compose)]

(* Mutant: a checkpoint is accepted at the end of the journal only. *)
AnchorsExactly(c) == c.events = journal

(* RecoverFromCheckpoint: the anchor must be a prefix of the journal.      *)
Recovered(c) == [base |-> c.base, events |-> journal]
Anchors(c)   == IsPrefix(c.events, journal)

(* initializeProductionHorizon returns b and whether it asks for the       *)
(* bootstrap; main calls that result loadedBrain.                          *)
Return(b, result, next) ==
    /\ brain' = b /\ loaded' = result /\ pc' = next
    /\ refused' = "no"
    /\ UNCHANGED <<disk, owes, removed, origin>>

Refuse ==
    /\ refused' = "init"
    /\ UNCHANGED <<disk, pc, brain, loaded, owes, removed, origin>>

(* A checkpoint is authoritative. *)
StartFromCheckpoint ==
    /\ pc = "down" /\ ~torn /\ Exists(ckpt)
    /\ IF Anchors(ckpt)
       THEN Return(Recovered(ckpt), journal = <<>> /\ ~Exists(memory.brain), "main")
       ELSE Refuse

(* A complete serving memory stands in for it. *)
StartFromServingMemory ==
    /\ pc = "down" /\ ~torn /\ ~Exists(ckpt)
    /\ Exists(memory.brain) /\ memory.complete
    /\ IF Anchors(memory.brain)
       THEN Return(Recovered(memory.brain), FALSE, "anchor")
       ELSE Refuse

(* Mutant: the memory file is not compared with the replayed journal. *)
StartFromJournalUnchecked ==
    LET replayed == [base |-> "seed", events |-> journal] IN
    /\ pc = "down" /\ ~torn /\ ~Exists(ckpt) /\ journal # <<>>
    /\ ~(Exists(memory.brain) /\ memory.complete)
    /\ Return(replayed, FALSE, "anchor")

(* Otherwise a nonempty journal is replayed from the bootstrap brain; it   *)
(* must give the brain of the memory file, if there is one.                *)
StartFromJournal ==
    LET replayed == [base |-> "seed", events |-> journal] IN
    /\ pc = "down" /\ ~torn /\ ~Exists(ckpt) /\ journal # <<>>
    /\ ~(Exists(memory.brain) /\ memory.complete)
    /\ IF Exists(memory.brain) /\ memory.brain # replayed
       THEN Refuse
       ELSE Return(replayed, FALSE, "anchor")

(* An empty journal: a new deployment, or the import of an old memory.     *)
StartFresh ==
    /\ pc = "down" /\ ~torn /\ ~Exists(ckpt) /\ journal = <<>>
    /\ ~(Exists(memory.brain) /\ memory.complete)
    /\ IF Exists(memory.brain)
       THEN Return([memory.brain EXCEPT !.events = <<>>], FALSE, "anchor")
       ELSE Return([base |-> "seed", events |-> <<>>], TRUE, "anchor")

(* The journal does not read as committed. *)
StartUnreadable ==
    /\ pc = "down" /\ torn
    /\ Refuse

(* The brain is anchored before it accepts its first write. *)
Anchor ==
    /\ pc = "anchor"
    /\ ckpt' = brain
    /\ pc' = "main"
    /\ UNCHANGED <<journal, torn, memory, brain, loaded, owes, refused, removed, origin>>
-----------------------------------------------------------------------------
Extend(e) ==
    /\ journal' = Append(journal, e)
    /\ brain' = [brain EXCEPT !.events = Append(@, e)]

(* main runs the bootstrap event if the result says so; a duplicate event  *)
(* ID is an error and the process exits.                                   *)
MainBootstraps ==
    /\ pc = "main" /\ ~loaded
    /\ IF Has(brain, Bootstrap)
       THEN /\ pc' = "down" /\ brain' = None /\ refused' = "main"
            /\ UNCHANGED <<journal, owes>>
       ELSE /\ Len(journal) < MaxEvents
            /\ Extend(Bootstrap)
            /\ owes' = <<"memory", "checkpoint">>
            /\ pc' = "boot"
            /\ UNCHANGED refused
    /\ UNCHANGED <<torn, memory, ckpt, loaded, removed, origin>>

MainReady ==
    /\ \/ pc = "main" /\ loaded
       \/ pc = "boot" /\ owes = <<>>
    /\ pc' = "ready"
    /\ UNCHANGED <<disk, brain, loaded, owes, refused, removed, origin>>

(* Startup administration: composition is enabled once and checkpointed.   *)
EnableComposition ==
    /\ pc = "ready" /\ owes = <<>> /\ ~Has(brain, Compose)
    /\ Len(journal) < MaxEvents
    /\ Extend(Compose)
    /\ owes' = <<"checkpoint">>
    /\ UNCHANGED <<torn, memory, ckpt, pc, loaded, refused, removed, origin>>

MainServes ==
    /\ pc = "ready" /\ owes = <<>>
    /\ pc' = "serving"
    /\ origin' = IF origin = "none" THEN brain.base ELSE origin
    /\ UNCHANGED <<disk, brain, loaded, owes, refused, removed>>

(* A cycle of the continuous service; its callback then saves memory and   *)
(* checkpoint under a lease of their own.                                  *)
ServiceCycle ==
    /\ pc = "serving" /\ owes = <<>> /\ Len(journal) < MaxEvents
    /\ \E e \in Event : Extend(e)
    /\ owes' = <<"memory", "checkpoint">>
    /\ UNCHANGED <<torn, memory, ckpt, pc, loaded, refused, removed, origin>>

(* Mutant: an observation does not wait for the lease of the callback. *)
ObservationUnleased ==
    /\ pc = "serving" /\ Len(journal) < MaxEvents
    /\ \E e \in Event : Extend(e)
    /\ owes' = <<"memory">> \o owes
    /\ UNCHANGED <<torn, memory, ckpt, pc, loaded, refused, removed, origin>>

(* An observation through the bridge: committed and saved under one lease, *)
(* which can fall before the lease of the callback and not inside it.      *)
Observation ==
    /\ pc = "serving" /\ owes \in {<<>>, <<"memory", "checkpoint">>}
    /\ Len(journal) < MaxEvents
    /\ \E e \in Event : Extend(e)
    /\ owes' = <<"memory">> \o owes
    /\ UNCHANGED <<torn, memory, ckpt, pc, loaded, refused, removed, origin>>

(* SaveBrain and Checkpoint. *)
Write ==
    /\ owes # <<>>
    /\ owes' = Tail(owes)
    /\ IF Head(owes) = "memory"
       THEN memory' = Saved(brain) /\ UNCHANGED ckpt
       ELSE ckpt' = brain /\ UNCHANGED memory
    /\ UNCHANGED <<journal, torn, pc, brain, loaded, refused, removed, origin>>

(* One of them fails: startup gives up, service and bridge only            *)
(* report it.                                                              *)
WriteFails ==
    /\ owes # <<>>
    /\ IF pc \in {"boot", "ready"}
       THEN pc' = "down" /\ brain' = None /\ refused' = "disk" /\ owes' = <<>>
       ELSE /\ owes' = IF Len(owes) = 3 THEN Tail(owes) ELSE <<>>
            /\ UNCHANGED <<pc, brain, refused>>
    /\ UNCHANGED <<disk, loaded, removed, origin>>
-----------------------------------------------------------------------------
(* The process dies, possibly with a record half written. *)
Crash ==
    /\ pc # "down"
    /\ pc' = "down" /\ brain' = None /\ owes' = <<>>
    /\ torn' \in IF pc \in {"main", "ready", "serving"} THEN BOOLEAN ELSE {FALSE}
    /\ UNCHANGED <<journal, memory, ckpt, loaded, refused, removed, origin>>

(* The operator takes one of the two state files away while the other one  *)
(* is there, or repairs the journal.                                       *)
RemoveCheckpoint ==
    /\ pc = "down" /\ Exists(ckpt) /\ Exists(memory.brain)
    /\ ckpt' = None /\ removed' = TRUE
    /\ UNCHANGED <<journal, torn, memory, process, origin>>

RemoveMemory ==
    /\ pc = "down" /\ Exists(ckpt) /\ Exists(memory.brain)
    /\ memory' = Absent
    /\ UNCHANGED <<journal, torn, ckpt, process, removed, origin>>

RepairJournal ==
    /\ pc = "down" /\ torn
    /\ torn' = FALSE /\ refused' = "no"
    /\ UNCHANGED <<journal, memory, ckpt, pc, brain, loaded, owes, removed, origin>>

Next ==
    \/ StartFromCheckpoint \/ StartFromServingMemory \/ StartFromJournal
    \/ StartFresh \/ StartUnreadable
    \/ Anchor \/ MainBootstraps \/ MainReady \/ EnableComposition \/ MainServes
    \/ ServiceCycle \/ Observation \/ Write \/ WriteFails
    \/ Crash \/ RemoveCheckpoint \/ RemoveMemory \/ RepairJournal

Spec == Init /\ [][Next]_vars
-----------------------------------------------------------------------------
TypeOK ==
    /\ journal \in Seq(Command) /\ torn \in BOOLEAN
    /\ memory \in [brain : Brain \cup {None}, complete : BOOLEAN]
    /\ ckpt \in Brain \cup {None}
    /\ pc \in {"down", "anchor", "main", "boot", "ready", "serving"}
    /\ brain \in Brain \cup {None} /\ (pc # "down" => brain \in Brain)
    /\ loaded \in BOOLEAN
    /\ owes \in Seq({"memory", "checkpoint"}) /\ Len(owes) <= 3
    /\ refused \in {"no", "init", "main", "disk"}
    /\ removed \in BOOLEAN
    /\ origin \in Foundation \cup {"none"}

(* One brain for ever: whichever files a crash or the operator left, what  *)
(* is served grew from the foundation that was served first, by exactly    *)
(* the committed events; nothing is grafted, nothing silently forgotten;   *)
(* and before its first write is accepted a checkpoint of this very history *)
(* is on disk, so that a restart never depends on the memory file          *)
(* (initializeProductionHorizon).                                          *)
SameBrain ==
    /\ pc = "serving" => brain = [base |-> origin, events |-> journal]
    /\ pc \in {"main", "boot", "ready", "serving"} =>
         Exists(ckpt) /\ ckpt.base = brain.base /\ Anchors(ckpt)

(* A crash of the process, wherever it falls in startup, bootstrap or      *)
(* serving, leaves files that initializeProductionHorizon accepts, unless  *)
(* the journal's last record is partial or the operator has taken the      *)
(* checkpoint away.                                                        *)
CrashNeverStrands ==
    refused = "init" => removed \/ torn

(* A brain without an older release's memory is bootstrapped before it is  *)
(* served, also when the first start was interrupted (main).               *)
BootstrappedBeforeServing ==
    pc = "serving" => origin = "legacy" \/ Has(brain, Bootstrap)
=============================================================================
