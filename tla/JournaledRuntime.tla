-------------------------- MODULE JournaledRuntime --------------------------
(***************************************************************************)
(* The durable core of Horizon: one managed BrainRuntime, the append-only  *)
(* event journal it writes ahead of every mutation, the checkpoint file,   *)
(* and the two ways a private runtime is rebuilt and published             *)
(* (services/ai/runtime: brain.go, journal_command.go,                     *)
(* sensor_observation.go, event_log.go, persistence.go,                    *)
(* checkpoint_*.go, committed_journal_rebuild.go, runtime_supervisor*.go). *)
(*                                                                         *)
(* Everything between Begin and the return to step "idle" runs under       *)
(* BrainRuntime.mu, so operations do not interleave with each other; a     *)
(* process crash or a power failure can fall between any two steps.        *)
(*                                                                         *)
(* Abstractions.  The neural substrate is deterministic in the commands    *)
(* applied to it, so it is represented by the sequence of those commands;  *)
(* two equal sequences are two equal brains.  A digest of a journal prefix *)
(* is that prefix (no collisions).  The journal file is the sequence of    *)
(* its complete logical events, which of them lost their newline, and the  *)
(* physical tail behind them.                                              *)
(***************************************************************************)
EXTENDS Integers, Sequences, FiniteSets

CONSTANTS
    Command,        \* redo commands that carry an event ID (observation, process, ...)
    Thought,        \* redo commands without an event ID (think, learn, ...)
    Sensor,         \* numeric sensor samples: an intent record and a commit record
    Failing,        \* operations whose apply step returns an error
    Time,           \* the timestamp each operation carries
    MaxLog,         \* bound: the journal is not extended beyond this length
    MaxDetached,    \* bound: revisions of a runtime that has no journal
    MaxKept,        \* bound: checkpoint files whose durability is undecided
    PowerFailures   \* whether power failures (loss of unsynced data) happen

Op    == Command \cup Thought \cup Sensor
NoOp  == "no operation"
HasID == Command \cup Sensor

ASSUME DisjointOps ==
    /\ Command \cap Thought = {}
    /\ Command \cap Sensor = {}
    /\ Thought \cap Sensor = {}
ASSUME TimeAssumption  == Time \in [Op -> Nat \ {0}]
ASSUME BoundAssumption == /\ {MaxLog, MaxDetached, MaxKept} \subseteq Nat
                          /\ PowerFailures \in BOOLEAN
                          /\ Failing \subseteq Op

VARIABLES
    log,       \* the logical events whose records are whole in the journal file
    tail,      \* what follows them physically, see TailKind
    bare,      \* those of them whose newline is missing: what comes next is glued on
    synced,    \* how many of the events the last successful fsync covered
    ackSize,   \* EventLog.acknowledgedSize: the extent of the file it stands for
    mode,      \* "down", "detached", "attached" or "poisoned" (recoveryRequired)
    state,     \* the live state of the current runtime
    step,      \* where the operation holding BrainRuntime.mu is
    op,        \* the operation being executed
    ckpt,      \* the checkpoint file a reader sees
    ckptKept,  \* the checkpoint files a power failure may leave behind
    acked      \* history: <<o, i>> when the caller was told o succeeded as event i

file    == <<log, tail, bare, synced, ackSize>>
runtime == <<mode, state, step, op>>
saved   == <<ckpt, ckptKept>>
vars    == <<log, tail, bare, synced, ackSize, mode, state, step, op, ckpt, ckptKept,
             acked>>
-----------------------------------------------------------------------------
(* The physical tail behind the last whole event: nothing, a fragment of a  *)
(* record, a whole intent without its commit marker, which may lack its     *)
(* newline too, or such an intent followed by a fragment.                   *)
TailKind == {"clean", "torn", "intentBare", "intent", "intentTorn"}

Extent(t) == CASE t = "clean"      -> 0
               [] t = "torn"       -> 1
               [] t = "intentBare" -> 2
               [] t = "intent"     -> 3
               [] OTHER            -> 4

(* The tails an interrupted write of o can leave. *)
Partial(o) == IF o \in Sensor THEN TailKind ELSE {"clean", "torn"}

(* The lines up to event i decode: none of its events lacks the newline     *)
(* with something written behind it, which is then part of that line.       *)
LinesDecode(i) ==
    \A j \in bare : j <= i => j = Len(log) /\ tail = "clean"

-----------------------------------------------------------------------------
(* Mutant: the index holds an entry for every event, with an ID or not. *)
IndexedAll(events, base) == {<<events[i], base + i>> : i \in 1..Len(events)}

(* The runtime state: the commands applied, the dedup index of event IDs   *)
(* (processedEvents: ID and the revision that consumed it) and the time of *)
(* the last observation (0: none).                                         *)
Indexed(events, base) ==
    {<<events[i], base + i>> : i \in {j \in 1..Len(events) : events[j] \in HasID}}

Observed(events) == {i \in 1..Len(events) : events[i] \in HasID}

LastTime(events, before) ==
    IF Observed(events) = {}
    THEN before
    ELSE Time[events[CHOOSE i \in Observed(events) :
                        \A j \in Observed(events) : j <= i]]

State == [brain : Seq(Op), processed : SUBSET (HasID \X Nat), lastAt : Nat]

Fresh == [brain |-> <<>>, processed |-> {}, lastAt |-> 0]

(* The state after the deterministic transitions of events. *)
After(s, events) ==
    [brain     |-> s.brain \o events,
     processed |-> s.processed \cup Indexed(events, Len(s.brain)),
     lastAt    |-> LastTime(events, s.lastAt)]

(* Mutant: no duplicate check. *)
AcceptsRetry(s, o) == o \in Sensor => s.lastAt <= Time[o]

(* The checks an operation passes before anything is written: a known      *)
(* event ID is refused, and so is a sensor sample older than the last      *)
(* observation.  An older event of another kind starts a new temporal      *)
(* context instead.                                                        *)
Accepts(s, o) ==
    /\ \A e \in s.processed : e[1] # o
    /\ o \in Sensor => s.lastAt <= Time[o]

(* Re-executing events one by one on s succeeds. *)
Replays(s, events) ==
    \A i \in 1..Len(events) :
        /\ Accepts(After(s, SubSeq(events, 1, i - 1)), events[i])
        /\ events[i] \notin Failing

(* A checkpoint carries the live state and the committed prefix it is      *)
(* anchored to; one taken with no journal attached has no anchor.          *)
CheckpointFile ==
    [kind : {"none", "loose", "anchored"}, state : State, prefix : Seq(Op)]

NoCheckpoint == [kind |-> "none", state |-> Fresh, prefix |-> <<>>]
-----------------------------------------------------------------------------
Init ==
    /\ log = <<>> /\ tail = "clean" /\ bare = {}
    /\ synced = 0
    /\ ackSize = [len |-> 0, tail |-> "clean", bare |-> {}]
    /\ mode = "down" /\ state = Fresh /\ step = "idle"
    /\ op = NoOp
    /\ ckpt = NoCheckpoint /\ ckptKept = {NoCheckpoint}
    /\ acked = {}

(* The physical extent of the file.  Append refuses to write unless it is  *)
(* the one it last acknowledged.                                           *)
Size    == [len |-> Len(log), tail |-> tail, bare |-> bare]
Aligned == ackSize = Size

(* The runtime becomes unusable; whatever was half done stays half done. *)
Poison ==
    /\ mode' = "poisoned"
    /\ step' = "idle" /\ op' = NoOp
    /\ UNCHANGED state

(* The process starts: the writer lock and the file are opened, the        *)
(* acknowledged size is the present size, the runtime is new and detached. *)
Start ==
    /\ mode = "down"
    /\ mode' = "detached" /\ state' = Fresh /\ step' = "idle"
    /\ ackSize' = Size
    /\ UNCHANGED <<log, tail, bare, synced, op, saved, acked>>

(* The journal reads as fully committed: no fragment, no orphan intent, and *)
(* no glued line.  The scanner accepts a last line without newline.         *)
Readable == tail = "clean" /\ LinesDecode(Len(log))

(* The first writer joins a runtime at revision zero and an empty journal. *)
AttachEventLog ==
    /\ mode = "detached" /\ step = "idle"
    /\ state.brain = <<>>
    /\ Readable /\ log = <<>>
    /\ mode' = "attached"
    /\ UNCHANGED <<file, state, step, op, saved, acked>>
-----------------------------------------------------------------------------
(* An operation takes BrainRuntime.mu and passes its checks.  A detached   *)
(* runtime applies it at once, an attached one writes it ahead.            *)
Begin(o) ==
    /\ mode \in {"detached", "attached"} /\ step = "idle"
    /\ Accepts(state, o)
    /\ IF mode = "attached"
       THEN Len(log) < MaxLog
       ELSE Len(state.brain) < MaxDetached
    /\ op' = o
    /\ step' = IF mode = "attached" THEN "append" ELSE "apply"
    /\ UNCHANGED <<file, mode, state, saved, acked>>

(* Append refuses before writing: the file is not the size it acknowledged *)
(* or an error came before any byte was written.                           *)
AppendRefused ==
    /\ step \in {"append", "commit"}
    /\ Poison
    /\ UNCHANGED <<file, saved, acked>>

(* The whole record of the command, or of the sensor intent, is written.  *)
(* The file is open for appending: the record continues the last line when *)
(* that has no newline.                                                    *)
WriteRecord ==
    /\ step = "append" /\ Aligned
    /\ IF op \in Sensor
       THEN tail' = "intent" /\ log' = log
       ELSE log' = Append(log, op) /\ tail' = tail
    /\ step' = "sync"
    /\ UNCHANGED <<bare, synced, ackSize, mode, state, op, saved, acked>>

(* Only part of the record is written: Append reports the error and leaves *)
(* its acknowledged size behind the file.                                  *)
WriteTorn ==
    /\ step \in {"append", "commit"} /\ Aligned
    /\ tail' = IF step = "append" THEN "torn" ELSE "intentTorn"
    /\ Poison
    /\ UNCHANGED <<log, bare, synced, ackSize, saved, acked>>

(* All of it is written but the newline, in the same way: the reader takes *)
(* such a line for a record.                                               *)
WriteUnended ==
    /\ step \in {"append", "commit"} /\ Aligned
    /\ IF step = "append" /\ op \in Sensor
       THEN tail' = "intentBare" /\ UNCHANGED <<log, bare>>
       ELSE /\ log' = Append(log, op) /\ tail' = "clean"
            /\ bare' = bare \cup {Len(log) + 1}
    /\ Poison
    /\ UNCHANGED <<synced, ackSize, saved, acked>>

(* Mutant: the record is acknowledged from the page cache, without fsync. *)
SyncRecordSkipped ==
    /\ step = "sync"
    /\ ackSize' = Size
    /\ step' = "apply"
    /\ UNCHANGED <<log, tail, bare, synced, mode, state, op, saved, acked>>

(* fsync and the second size check succeed. *)
SyncRecord ==
    /\ step = "sync"
    /\ synced' = Len(log) /\ ackSize' = Size
    /\ step' = "apply"
    /\ UNCHANGED <<log, tail, bare, mode, state, op, saved, acked>>

(* Mutant: the failed append is reported, the runtime goes on serving. *)
SyncFailsQuietly ==
    /\ step \in {"sync", "commitSync"}
    /\ step' = "idle" /\ op' = NoOp
    /\ UNCHANGED <<file, mode, state, saved, acked>>

(* fsync or the second check fails with the record in the file: the write  *)
(* is uncertain, the acknowledged size stays behind.                       *)
SyncFails ==
    /\ step \in {"sync", "commitSync"}
    /\ synced' \in {synced, Len(log)}
    /\ Poison
    /\ UNCHANGED <<log, tail, bare, ackSize, saved, acked>>
-----------------------------------------------------------------------------
(* The transition is applied: exactly one revision.  A redo command is     *)
(* complete; a journaled sensor sample still owes its commit marker.       *)
Apply ==
    /\ step = "apply" /\ op \notin Failing
    /\ state' = After(state, <<op>>)
    /\ IF mode = "attached" /\ op \in Sensor
       THEN step' = "commit" /\ UNCHANGED <<op, acked>>
       ELSE /\ step' = "idle" /\ op' = NoOp
            /\ acked' = IF mode = "attached"
                        THEN acked \cup {<<op, Len(log)>>}
                        ELSE acked
    /\ UNCHANGED <<file, mode, saved>>

(* The transition fails after its record is durable. *)
ApplyFails ==
    /\ step = "apply" /\ op \in Failing
    /\ Poison
    /\ UNCHANGED <<file, saved, acked>>

(* The commit marker turns the durable intent into one logical event. *)
WriteCommit ==
    /\ step = "commit" /\ Aligned
    /\ log' = Append(log, op) /\ tail' = "clean"
    /\ step' = "commitSync"
    /\ UNCHANGED <<bare, synced, ackSize, mode, state, op, saved, acked>>

SyncCommit ==
    /\ step = "commitSync"
    /\ synced' = Len(log) /\ ackSize' = Size
    /\ step' = "idle" /\ op' = NoOp
    /\ acked' = acked \cup {<<op, Len(log)>>}
    /\ UNCHANGED <<log, tail, bare, mode, state, saved>>
-----------------------------------------------------------------------------
(* Mutants: a checkpoint without the observation clock (as before schema   *)
(* v5), and one without the dedup index.                                   *)
SnapshotClockless ==
    [kind   |-> IF mode = "attached" THEN "anchored" ELSE "loose",
     state  |-> [state EXCEPT !.lastAt = 0],
     prefix |-> IF mode = "attached" THEN log ELSE <<>>]
SnapshotIndexless ==
    [kind   |-> IF mode = "attached" THEN "anchored" ELSE "loose",
     state  |-> [state EXCEPT !.processed = {}],
     prefix |-> IF mode = "attached" THEN log ELSE <<>>]

(* Checkpoint holds BrainRuntime.mu: it reads the whole journal, refuses   *)
(* when the count of committed events is not its own revision, writes and  *)
(* syncs a private file and renames it over the old one.                   *)
Snapshot ==
    [kind   |-> IF mode = "attached" THEN "anchored" ELSE "loose",
     state  |-> state,
     prefix |-> IF mode = "attached" THEN log ELSE <<>>]

PublishCheckpoint ==
    /\ mode \in {"detached", "attached"} /\ step = "idle"
    /\ mode = "attached" => Readable /\ Len(log) = Len(state.brain)
    /\ Cardinality(ckptKept) < MaxKept
    /\ ckpt' = Snapshot
    /\ ckptKept' = ckptKept \cup {Snapshot}
    /\ step' = "dirSync"
    /\ UNCHANGED <<file, mode, state, op, acked>>

(* The directory entry is durable. *)
SyncDirectory ==
    /\ step = "dirSync"
    /\ ckptKept' = {ckpt}
    /\ step' = "idle"
    /\ UNCHANGED <<file, mode, state, op, ckpt, acked>>

(* Its sync fails: the file stays published, its durability uncertain. *)
SyncDirectoryFails ==
    /\ step = "dirSync"
    /\ step' = "idle"
    /\ UNCHANGED <<file, mode, state, op, saved, acked>>
-----------------------------------------------------------------------------
(* A private runtime built from s and the events behind it replaces the    *)
(* current one.                                                            *)
Publish(s, events) ==
    /\ Replays(s, events)
    /\ state' = After(s, events)
    /\ mode' = "attached"
    /\ UNCHANGED <<file, step, op, saved, acked>>

SeqPrefix(s, n) == SubSeq(s, 1, n)
Suffix(s, n)    == SubSeq(s, n + 1, Len(s))

RecoverFromCheckpoint ==
    LET n == Len(ckpt.state.brain) IN
    /\ mode # "down" /\ step = "idle"
    /\ Readable
    /\ ckpt.kind = "anchored"
    /\ n <= Len(log)
    /\ ckpt.prefix = SeqPrefix(log, n)
    /\ ckpt.state.processed = Indexed(SeqPrefix(log, n), 0)
    /\ Publish(ckpt.state, Suffix(log, n))

RecoverFromCommittedJournal ==
    /\ mode # "down" /\ step = "idle"
    /\ Readable
    /\ Publish(Fresh, log)

(* Mutant: the repair cuts one complete event too many. *)
RepairCutsEvent ==
    /\ mode # "down" /\ step = "idle"
    /\ tail = "intent" /\ log # <<>>
    /\ tail' = "clean" /\ log' = SeqPrefix(log, Len(log) - 1)
    /\ synced' = Len(log) - 1
    /\ ackSize' = [Size EXCEPT !.len = @ - 1, !.tail = "clean"]
    /\ UNCHANGED <<bare, runtime, saved, acked>>

(* Mutant: the repair cuts one byte too many, the newline of the last event *)
(* that stays.                                                              *)
RepairCutsNewline ==
    /\ mode # "down" /\ step = "idle"
    /\ tail = "intent" /\ bare = {}
    /\ tail' = "clean" /\ bare' = 1 .. Len(log) \ 1 .. (Len(log) - 1)
    /\ synced' = Len(log) /\ ackSize' = [Size EXCEPT !.tail = "clean", !.bare = bare']
    /\ UNCHANGED <<log, runtime, saved, acked>>

(* The explicit repair of an orphan intent, which ends in its newline and   *)
(* stands behind a prefix that reads: back up, truncate, sync, verify, and  *)
(* move the writer boundary.  When the sync or a later check fails the file *)
(* is truncated and the boundary is not moved.                              *)
RecoverTrailingSensorIntent ==
    /\ mode # "down" /\ step = "idle"
    /\ tail = "intent" /\ bare = {}
    /\ tail' = "clean"
    /\ \/ synced' = Len(log) /\ ackSize' = [Size EXCEPT !.tail = "clean"]
       \/ synced' \in {synced, Len(log)} /\ ackSize' = ackSize
    /\ UNCHANGED <<log, bare, runtime, saved, acked>>
-----------------------------------------------------------------------------
(* The process dies: memory and locks go, the files stay as they are. *)
Down ==
    /\ mode' = "down" /\ state' = Fresh /\ step' = "idle" /\ op' = NoOp
    /\ UNCHANGED <<ackSize, acked>>

Crash ==
    /\ mode # "down"
    /\ Down
    /\ UNCHANGED <<log, tail, bare, synced, saved>>

(* The machine dies: of the events behind the synced ones any prefix       *)
(* remains, with a tail that a partly written record leaves (an orphan     *)
(* intent may survive or not), or with nothing behind it and its own       *)
(* newline lost; of the checkpoint files not yet pinned by a directory     *)
(* sync, any one.                                                          *)
Surviving(n) ==
    IF n < Len(log)
    THEN Partial(log[n + 1])
    ELSE {t \in TailKind : Extent(t) <= Extent(tail)}

PowerFailure ==
    /\ PowerFailures
    /\ \E n \in synced .. Len(log) : \E t \in Surviving(n) :
          /\ log' = SeqPrefix(log, n) /\ tail' = t
          /\ \/ bare' = bare \cap 1 .. n
             \/ n > synced /\ t = "clean" /\ bare' = (bare \cap 1 .. n) \cup {n}
          /\ synced' = n
    /\ ckpt' \in ckptKept /\ ckptKept' = {ckpt'}
    /\ Down

Next ==
    \/ Start \/ AttachEventLog
    \/ \E o \in Op : Begin(o)
    \/ AppendRefused \/ WriteRecord \/ WriteTorn \/ WriteUnended
    \/ SyncRecord \/ SyncFails
    \/ Apply \/ ApplyFails \/ WriteCommit \/ SyncCommit
    \/ PublishCheckpoint \/ SyncDirectory \/ SyncDirectoryFails
    \/ RecoverFromCheckpoint \/ RecoverFromCommittedJournal
    \/ RecoverTrailingSensorIntent
    \/ Crash \/ PowerFailure

Spec == Init /\ [][Next]_vars
-----------------------------------------------------------------------------
TypeOK ==
    /\ log \in Seq(Op) /\ tail \in TailKind /\ bare \subseteq 1 .. Len(log)
    /\ synced \in 0 .. Len(log)
    /\ ackSize \in [len : Nat, tail : TailKind, bare : SUBSET Nat]
    /\ mode \in {"down", "detached", "attached", "poisoned"}
    /\ state \in State
    /\ step \in {"idle", "append", "sync", "apply", "commit", "commitSync", "dirSync"}
    /\ op \in Op \cup {NoOp}
    /\ step \notin {"idle", "dirSync"} => op \in Op
    /\ ckpt \in ckptKept /\ ckptKept \subseteq CheckpointFile
    /\ acked \subseteq Op \X Nat

(* What a caller can reach is the replay of the whole committed journal:   *)
(* whenever a journaled runtime is free (its lock is not held, it is not   *)
(* poisoned), its neural state, dedup index and observation clock are      *)
(* those of re-executing every complete event from the foundation          *)
(* (runJournalCommandLocked, ProcessSensorObservation, the rebuilds).      *)
ServedIsCommitted ==
    mode = "attached" /\ step = "idle" =>
        /\ tail = "clean"
        /\ state = After(Fresh, log)

(* An operation whose caller was told it succeeded stays the same event of *)
(* the journal, whole and with its newline, through every fault, a power   *)
(* failure included: fsync comes before the acknowledgement (Append, commit*)
(* marker), and a repair cuts nothing of it.  So nothing written later can *)
(* damage its line; that it can be read also needs the line it was         *)
(* appended to, see AckedReadable.                                         *)
AckedDurable ==
    \A a \in acked :
        a[2] \in 1 .. synced /\ log[a[2]] = a[1] /\ a[2] \notin bare

(* Once an acknowledged event can be read from the journal, it and what is *)
(* before it can be read for ever, whatever is appended, lost or repaired  *)
(* afterwards.                                                             *)
AcksStayReadable ==
    [][\A a \in acked : LinesDecode(a[2]) => LinesDecode(a[2])']_vars

(* Every acknowledged event can be read back, as a durable command that is *)
(* a redo commitment must (journal_command.go:10-13).                      *)
AckedReadable == \A a \in acked : LinesDecode(a[2])

(* A retry of an event ID or a sensor sample, after a lost acknowledgement,*)
(* a crash or a recovery, is never committed a second time: the dedup      *)
(* index is rebuilt with the state (processedEvents).                      *)
AtMostOnce ==
    \A i, j \in 1 .. Len(log) :
        log[i] = log[j] /\ log[i] \in HasID => i = j

(* Every committed event passes, at its place in a replay from the         *)
(* foundation, the duplicate and timestamp checks it passed live: history  *)
(* accepted from a recovered runtime is history a later recovery accepts.  *)
CommittedReplays ==
    \A i \in 1 .. Len(log) : Accepts(After(Fresh, SubSeq(log, 1, i - 1)), log[i])

(* Every anchored checkpoint that can be found after a failure is the      *)
(* replay of a prefix of the journal on disk, hence a base from which its  *)
(* suffix can be replayed (checkpointJournalPrefixLocked).                 *)
CheckpointAnchored ==
    \A c \in ckptKept : c.kind = "anchored" =>
        /\ c.state = After(Fresh, c.prefix)
        /\ Len(c.prefix) <= Len(log)
        /\ c.prefix = SeqPrefix(log, Len(c.prefix))

(* No step of the program, recovery and repair included, removes or        *)
(* rewrites a committed event.                                             *)
AppendOnly ==
    [][Len(log) <= Len(log') /\ log = SeqPrefix(log', Len(log))]_vars
-----------------------------------------------------------------------------
(* The implementation of the abstract promise: the history is the sequence *)
(* of complete journal events, and callers are served when a journaled     *)
(* runtime is free.  That an event stays in the history does not say that  *)
(* the line it stands on decodes (AcksStayReadable, AckedReadable).        *)
History == INSTANCE CommittedHistory WITH
    Operation  <- Op,
    Identified <- HasID,
    history    <- log,
    served     <- IF mode = "attached" /\ step = "idle" THEN {state.brain} ELSE {},
    acked      <- acked

(* Journal, checkpoint and recovery together behave, through every fault,  *)
(* as one committed history (CSpec).                                       *)
ImplementsHistory == History!CSpec
=============================================================================
