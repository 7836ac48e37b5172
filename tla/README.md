# Horizon: verification project

TLA+ models, TLC runs and TLAPS proofs for Horizon: the journaled brain runtime
and its recovery, the supervisor and its monitor streams, the production
startup, the browser monitor, actions and inquiries, and what committed events
do to the neural substrate. Paths below are relative to the repository's
`services/ai/` unless they begin with `web/`, `internal/`, `cmd/` or `docs/`.

## The system

Horizon serves one long-lived neural "brain". Every mutation is a command with
a timestamp, written ahead to an append-only JSON-lines journal, applied to the
in-memory substrate and published to monitors. A supervisor owns the current
runtime and replaces it by one that was rebuilt from a checkpoint and the
journal.

| Component | State it keeps | Operations | Talks to |
|---|---|---|---|
| `runtime/event_log.go` journal file | file, writer lock, acknowledged size | Open, Append+fsync, strict read, replay, two repairs | runtime, recovery, bridge history |
| `runtime/journal_command.go`, `observation_command.go`, `sensor_observation.go` | in-progress command, dedup index, observation clock, recovery-required flag | redo command (write ahead, apply); sensor transaction (intent, apply, commit) | journal, telemetry, knowledge |
| `runtime/persistence.go`, `checkpoint_*.go`, `committed_journal_rebuild.go` | checkpoint and memory file | capture, publish, anchor check, rebuild from checkpoint or genesis | journal, supervisor |
| `runtime/runtime_supervisor*.go`, `supervisor_journal.go` | RWMutex, current runtime, epoch, closed flag | read lease, mutation lease, handover, close, attach | every caller |
| `runtime/telemetry*.go` hub | subscribers with bounded channels | subscribe, select/build/deliver, overflow, close | runtime, bridge |
| `bridge/` | HTTP server, rate buckets | observations, outcomes, snapshot, inspection, WebSocket stream | supervisor, journal, hub |
| `startup.go`, `main.go`, `runtime/continuous_service.go` | files on disk, serving brain | load/recover/anchor, bootstrap, composition administration, cycle, persistence callback | supervisor, bridge |
| `web/monitor` | revision store, socket, timers, inspector panel | connect, resync, reconnect, scheduled snapshots, paging | bridge |
| `execution/`, `runtime/safety.go`, `composition_action.go`, `contract.go` | executed request IDs, action bindings, evidence | assess, authorize, bind, execute, observe the outcome, promote | runtime, actuators |
| `runtime/inquiry*.go`, `knowledge/prediction_assessment.go` | pending inquiry, information dynamics, inquiry policy | forecast, plan, request, answer, credit | observations, numerical lessons |
| `knowledge/*projection*.go`, `written_numeric.go`, `runtime/sensor_fields.go` | populations with prototypes, unit representations, sensory traces | project, recruit, link in time, reorganise | sensors, text, import |
| `activation/`, `knowledge/memory_time.go`, `recurrent_context.go` | weights with a retention watermark, context frames, kept forecast | settle, observe, think, credit, learn a transition | every event |
| `runtime/neural_composition.go`, `knowledge/neural_*.go` | composition contract, words, scenes, numerical circuits, witnesses | migrate, teach, read, answer | actions, text |
| `runtime/cognitive_model.go`, `knowledge/cognitive_*.go` | recurrent model, digests, phases | initialise, learn a batch, search, add a circuit | checkpoint |
| `thinking/`, `understanding/` | one question's interpretations | interpret, preserve, project, audit, decide | knowledge |
| `internal/`, stub services, tools | cache, broker, configuration | | no production caller |

What is hard here: a process or machine failure between two durable effects; a
write that succeeded whose fsync failed; a command that is durable and then
fails to apply; retries after a lost answer; a recovery that must rebuild not
only the brain but what refuses duplicates and old timestamps; streams that
hold an epoch across a handover; a bounded channel that overflows while an
event is built without the lock; a startup that must recognise whatever
combination of files was left; a page whose handlers overlap at every await;
requests that outlive the state they were computed on; timestamps that belong to
clients; and learning whose legality depends on everything learned before.

`PROJECT.json` lists every component with its files and every hazard at its
line, with the properties that cover it or the reason none does.

## Modules

| Module | Models | Main promise |
|---|---|---|
| `CommittedHistory` | abstract specification: one history that only grows, serves itself and keeps its acknowledgements | |
| `JournaledRuntime` | runtime, journal, checkpoint, crash, repair, recovery | implements `CommittedHistory` |
| `JournalFile` | the journal as lines in inodes: lock, outside changes, power failure, strict reader, sequence repair | `ReadsWhatWasAcknowledged` |
| `MonitorStream` | supervisor lock, epochs, hub, bridge streams | no gap, no retired frame, writers get through |
| `MonitorView` | the browser page against commits, handovers and lost sockets | catches up, shows no event twice |
| `Inspection` | the inspector panel's pages | `ViewIsOneRevision` |
| `ProductionStartup` | startup, bootstrap, file persistence, restarts | `SameBrain`, `CrashNeverStrands` |
| `ActionLoop` | authorisation, gateway, numeric actions, bindings, outcomes, promotion | at most one action, independent support |
| `Inquiry` | forecast, agenda, request, answer, credit | `GainEarned` |
| `Grounding` | populations of readings, fields and words | `RoutesKept` |
| `Cognition` | retention, context, forecast and credit | `RetentionExact`, `CreditedOnce`, … |
| `Composition` | migrations, lessons, text, scenes | `RollbackKept`, `TaughtWithinBudget` |
| `NumericResolution` | numerical lessons of contracts v5 and v6 | `DistinctionsRetained`, `NRestorable` |
| `CognitiveModel` | the recurrent cognitive model | `EvidenceOnce`, `SubstrateProtected` |
| `Thinking` | one question to its verdict | `VerdictGrounded`, `PreservationSound` |
| `JournaledRuntimeProofs` | invariants of `JournaledRuntime` and the refinement, proved | |
| `MonitorStreamProofs`, `MonitorViewProofs`, `ProductionStartupProofs`, `ActionLoopProofs` | invariants of the module of that name (`MonitorViewProofs`: of `Inspection` too, `ActionLoopProofs`: of `Inquiry`, `ProductionStartupProofs`: of `JournalFile`), proved | |
| `KnowledgeProofs` | those of `CognitiveModel`, `Composition`, `NumericResolution`, `Grounding`, proved | |
| `CognitionProofs` | those of `Cognition` and `Thinking`, proved | |
| `FoldTheorems` | induction over the naturals, folds and finite sums, for the proofs | |
| `MC*` | values for TLC | |

`JournaledRuntime` takes a command apart into its effects on the journal, the
brain and the files. Every other module takes a whole command as one step,
which is what its refinement of `CommittedHistory` allows: commands are atomic
under the runtime lock and serve exactly the committed history. The modules meet
where the code does: a mutation of `MonitorStream` is any command; `MonitorView`
is the client of one of its streams; the events of `ProductionStartup`'s brain
are the journal's; a lesson of `NumericResolution` is one of `Composition`'s
commands and writes the numbers of `Inquiry`'s pending inquiry; `Cognition`
is what a grounded event of `Grounding` does next.

### JournaledRuntime

`log` is the sequence of logical events whose records are whole in the file,
`bare` those of them that have no newline, `tail` what follows them (a fragment,
a sensor intent without its commit, one without its newline, an intent and a
fragment), `synced` the durable prefix, `ackSize` the extent of the file the
writer acknowledged. `mode` is the
runtime's condition (`poisoned` is recovery-required), `state` the live brain,
dedup index and observation clock. `step` is where the operation that holds
`BrainRuntime.mu` stands, so a crash can fall between every two effects:

- redo command: `Begin` (checks) → `WriteRecord` → `SyncRecord` → `Apply`;
- sensor sample: the same with an intent, then `WriteCommit` → `SyncCommit`;
- the faults: `AppendRefused` (before any byte), `WriteTorn` (part of the
  record), `WriteUnended` (all of it but the newline), `SyncFails` (uncertain),
  `ApplyFails`; each poisons;
- checkpoint: `PublishCheckpoint` (capture to rename) → `SyncDirectory` or
  `SyncDirectoryFails`, with `ckptKept` the files a power failure may leave;
- recovery: `RecoverFromCheckpoint`, `RecoverFromCommittedJournal`, and the
  operator's `RecoverTrailingSensorIntent`, also with its own failed sync;
- `Crash` keeps the files, `PowerFailure` keeps the synced prefix, any part of
  the rest with a possible torn or unended last line, and any undecided
  checkpoint.

The substrate is deterministic in the commands applied to it, so it is the
sequence of those commands. A digest is the prefix it was computed from.

A fragment is refused by the strict reader. A last record that lost only its
newline is not: the scanner takes it for a line, `Start` takes the file's size,
and the next record is written behind it on the same line (`LinesDecode` no
longer holds, and every later `Readable` fails). So three properties divide the
promise to a caller. `AckedDurable`: the acknowledged record is in the durable
part of the file, whole and with its newline. `AcksStayReadable`: what could
ever be read back stays so. `AckedReadable`, that it can be read back in the
first place, is false (finding 7).

### JournalFile

Inodes with lines and their durable part, and a directory (`fNames`,
`fDurableNames`) that renames change before its sync does. A process opens to
serve or to repair; `AppendChecks` → `AppendWrites` → `AppendSyncs` →
`AppendReturns` are one append; `RepairWrites` → `RepairRenames` →
`RepairReturns` is `RepairConflictingSequences`. `Tamper` replaces or changes
the file from outside, `PowerFails` keeps any state between the durable and the
visible one. `fHistory` is `[sure, hoped]`: acknowledged payloads, and those whose
append never returned. `ReadEventLog` and the encoding and schema timeline of a
replay are operators over the lines. The property is conditional on the reader
accepting the file: a refused file serves nothing.

### MonitorStream

`writer`, `readers`, `waiting` are the `sync.RWMutex`: a writer stops new
readers, waits for those inside, and lets the waiting ones in when it unlocks.
`epoch` names the published runtime, `journal` counts its commits. `building`
is the event between the selection of recipients and delivery, done without
the hub's lock. A stream goes `subscribe` → `greet` (handshake) → `history` →
`replay` → `live` ⇄ `relay` → `end`, each lease a step of its own, each frame
an epoch check and a write inside one lease. `published`, `from` and `sent` are
history variables. Mutations may publish, stay silent (learning, time-settling
and the migration commands send no event), be refused, or fail and poison.

### MonitorView

One page: `reads` are the awaits in flight (connect, resync, refresh), the
scheduler has its own; a handler runs to its next await, and messages are
handled while earlier ones wait. Bounded inspection mode: snapshots carry an
epoch and no hash. A socket is what it will still deliver. `cut`, `missed` and
`crossed` record a user who disconnected, a failed read, and a graph read that
overlapped a connect.

### Inspection

`iBrain` with its units and connections, pages computed under the runtime lock
(`MonitorInspectionPage`, `ReadInspectionPage`), cursors with epoch, revision,
section and order, a byte limit, and answers that may come after a newer click's.
The runtime commits, is restored in place to an older revision, or replaced
between pages; `iView` is what the panel shows, `whole` what its first page's
revision holds.

### ProductionStartup

A brain is its foundation (`seed` or the imported `legacy` memory) and the
events applied to it. `journal`, `memory`, `ckpt` are the three files, `owes`
the file writes the code still has to do after a commit. The five `Start…`
actions are the branches of `initializeProductionHorizon`; `MainBootstraps`
through `MainServes` follow `main`; `Observation` may slip between a cycle and
its persistence callback but not into it, because both hold the mutation lease.
A write of a file is atomic (temporary file, fsync and rename). Processes crash
here and machines do not: after a process crash the files are as they were
written, or the last record of the journal is partial and no reader accepts it.
What a power failure leaves, and a last record that lost only its newline, are in
`JournaledRuntime` and `JournalFile`, so `CrashNeverStrands` says nothing of them.

### ActionLoop

A request is authorised from a recommendation (`Authorize`), admitted by the
gateway's checks, dispatched to a plugin or a motor after a second check under
`g.mu`, answered or not. A composition action holds the mutation lease from its
readout to its dispatch and is bound in the journal first. Outcomes are
journaled and applied; independent, unanimous ones promote the bound target.
The process may end anywhere; bindings and evidence come back, requests and
executed IDs do not. `acts` and `moved` count dispatches per process and over all
of them.

### Inquiry

`Observing` assesses what follows from experience, `RequestInquiry` makes the
client's request, `ProcessInquiryObservation` answers it, whenever the client
likes. `KnownShare` is what had been known of the answer when it was asked;
`ResolvedInformation` the gain credited. Numbers are thousandths.
`RecordNumericInquiry` is the second writer of the inquiry state (a numerical
lesson's diagnosis).

### Grounding

A vector is a coordinate on a grid whose step is the distance at which
`GroundingThreshold` (0.90) still holds; the spread of members a population is
recruited with lies below it. `uPops` are `ProjectionPopulations`, `uRep` unit
representations, `uHeard` the reading each population was recruited for.
`ProjectStable`, `ProjectSensoryField`, `ProjectWrittenNumeric` and the older
`ProjectHistorical` (foundation and document states) are operators from a
substrate to its possible successors; `SenseReading`, `SenseFields`,
`GroundObservation`, `StoreSurface`, `GroundVectorAt` and
`ProcessKnowledgeDocument` are the inputs. Plasticity moves any members that
took part, in any direction the discrepancy allows.

### Cognition

Weights are small integers that halve with every tick. `gBrain.mark` is the
memory watermark; `from` and `learned` (history) say when and at what weight a
connection was last learned. `gMind` is the continuation: context frames,
forecast with its credit, trace, last observation. Events, thoughts, lessons,
inquiry outcomes, settlements and imports carry the client's timestamps in any
order.

### Composition, NumericResolution

`Composition`: the two migrations with reservation, copy, journal and commit as
steps that fail; lessons by the set of units they connect; text, scenes and
readings with their ages. `NumericResolution`: `Proposals` of a lesson (new
readout, finer resolution, new circuit) in fixed-point numbers of `1/One`,
installed if the check rows improve and no retained witness flips
(`NRegression`), with check rows kept as witnesses. A v5 lesson is fitted by one ridge solve, a v6
lesson by least squares and three censored refits (`Solved`); without a contrast
between outcomes the resolution is one in v5 and a sixteenth of the values in v6
(`NDelta`). `ValidUnits`, `ValidHeads`,
`ValidWitnesses` are what a restore checks.

### CognitiveModel

`mModel` has its phases and the groups each objective may move; a digest is
current until a group it covers moves. `MNext` has one action per journaled
command, ordinary events that charge retention, restarts and restores.

### Thinking

`BuildFunctionalState` → `Interpret` → `ProjectAndAudit` (with the HFCC
consumer's audit) → `DecideEvaluation`, plus a candidate set that another
producer built (`AuditForeign`). Maps are read in any order. The tokens of the
conversation anchor the neighbourhood and the focus like the words of the question
(`Seeds`) and are no part of what is asked. A search for evidence stops at
`MaxPaths` paths; which of them come first is left open.

## Runs

| Run | Shows | Distinct states |
|---|---|---|
| `journal_crash` | process crashes, torn writes, failed fsyncs, failing commands: `TypeOK`, `CheckpointAnchored`, `CommittedReplays`, `AppendOnly` | 2.29 million |
| `journal_power` | power failures on top: `ServedIsCommitted`, `AckedDurable`, `AcksStayReadable`, `AtMostOnce`, refinement `ImplementsHistory` | 0.85 million |
| `stream` | a stream against mutations, failures, handovers and shutdown under fair scheduling: `NoLostEvent`, `FramesCurrent`, `WriterProgress`, `StaleStreamEnds` | 0.32 million |
| `view_page` | one page under fair scheduling: `EventsOnce`, `GraphNeverOlder`, `EventuallyCurrent`, `GraphCatchesUp` | 0.88 million |
| `components` | the twelve topics below | 0.43 million |
| `journal_anchor`, `startup_bootstrap`, `actions_redo`, `metric_envelope`, `composition_text`, `model_restore`, `journal_newline` | one violated statement each: findings 1 to 7 | |

`components` checks components that keep to themselves under the journal and
the supervisor lock, one at a time: `topic` names the component whose steps the
behaviour takes, the others stay in one initial state. A property of a topic is
therefore checked on every behaviour of that component and on none that mixes
two, which share no variable.

| Topic | Properties |
|---|---|
| startup | `SameBrain`, `CrashNeverStrands` |
| file | `ReadsWhatWasAcknowledged` |
| pages | `ViewIsOneRevision` |
| gateway, reports | `DispatchedOnce`, `NumericActionOnce`, `ReferenceHeld`; `PromotionSupported` |
| inquiry | `GainEarned` |
| grounding | `RoutesKept` |
| cognition | `RetentionExact`, `CreditedOnce`, `CreditSupported`, `ContinuationRestores`, `TransitionsWithinEpisode` |
| composition | `RollbackKept`, `TaughtWithinBudget` |
| numeric | `NRestorable`, `DistinctionsRetained` |
| model | `EvidenceOnce`, `SubstrateProtected` |
| thinking | `VerdictGrounded`, `PreservationSound` |

The gateway reads no evidence and evidence nothing of the gateway, so
`ActionLoop` is split into two topics that each keep the other half idle. In
both, requests, reporters and groups are never told apart and bindings and
reports are kept, so the first of each is named (`NamedInOrder`).

Bounds, and why they are enough:

- journal: two redo commands (one whose application fails), one thought
  (without ID; left out under power failures), two sensor samples with
  different timestamps; `MaxLog = 3` lets a checkpoint have a prefix behind it
  and a suffix in front of it and leaves room for a retry; `MaxDetached = 1` a
  revision that was never journaled; `MaxKept = 2` checkpoint files of
  undecided durability. Faults, crashes, recoveries and retries are unbounded.
- stream: `Capacity = 2` overflows on the third event, `MaxRev = 4` gives events
  before and after a subscription, `MaxEpoch = 2` one handover. Streams meet only
  through the supervisor lock and the hub, so one stream against all other
  holders of the lock is enough.
- view: two overlapping reads besides the scheduler's, two commits, one
  recovery, one fault, two clicks.
- startup: `MaxEvents = 4` covers bootstrap, composition and commands behind
  both; crashes and restarts are unbounded.
- file: four inherited journals (empty, with a duplicate line, with two
  counters, with a gap), two appended records, one outside change, four inodes;
  power failures unbounded.
- pages: three units and two parallel connections in pages of two records,
  one record too large for any page; a commit, a second lifetime, two requests
  in flight.
- actions: two requests, sources and groups; two synapses of which the brain
  has one; clock 2 with lives and ages of 1, three revisions.
- inquiry: two populations, one action, three commands, one request, with and
  without earlier experience.
- grounding: three coordinates, populations of two units, five populations, one
  reorganisation; captures with durations that share a band, a reading between
  two others, two windows; a tolerance of none and of one step. A population that
  moves and a second that could capture its readings need no more.
- cognition: two units, three commands, two ticks, two frames. composition: two
  forms that may share a unit, four revisions. numeric: three queries on one
  circuit, five lessons at most, five witnesses. model: one kept batch, five
  revisions. thinking: six memories with each of three questions, one of them
  put in a context; all four verdicts occur. `MaxPaths = 1` (8 in the code): one
  memory leads to its claim in two ways, so both limits cut, the one on the
  paths of a claim and the one on the claims that are searched.

Deadlock checking is on for `stream`, where there is always a request to make.
It is off elsewhere: a journal at its bound or with a record no reader accepts,
a page nobody uses, and a component at its revision bound really stop.

Each property has a mutant: a plausible defect of the code (no fsync before the
acknowledgement, a repair that cuts one event too many, a checkpoint without
the clock, a missing `Unsubscribe`, a forecast that survives an override, a gain
computed from what is known now, prototypes that move with their members…)
under which TLC finds the property broken.

### Fairness

The safety runs assume none. `MonitorStream`'s `FairSpec` assumes weak fairness
of the mutation that holds the lock, of the handover or close that holds it, and
of each stream: a goroutine that can run does, its reads are bounded and its
writes have a five-second deadline (`bridge/server.go:188`). Nothing obliges a
client to connect, read or leave, or an operator to recover or close.
`WriterProgress` rests on `RWMutex` stopping new readers behind a waiting
writer. `MonitorView`'s `FairSpec` assumes that the browser runs what is ready,
that a read is answered or fails, a socket opens or is lost, an armed timer
fires, and that a stream of a replaced runtime ends (which is
`StaleStreamEnds`). Nobody has to commit or click. Its two liveness properties
except a page the user disconnected or that lost a read, and resyncs that
supersede each other for ever (below).

## Findings

1. **A checkpoint can be ahead of the durable journal** (`journal_anchor`).
   `checkpointJournalPrefixLocked` anchors to what the file reads as. After a
   failed fsync, a process restart and a recovery, an event is committed that
   was never synced; a checkpoint is anchored to it and is itself durable; a
   power failure then drops the event. Recovery refuses the checkpoint. The
   served state is still right (`ServedIsCommitted` holds under power failures).
2. **A new deployment serves a brain that was never bootstrapped**
   (`startup_bootstrap`): `initializeProductionHorizon` returns "bootstrap
   needed", `main` stores it as `loadedBrain` and tests its negation. By the
   same inversion a recovered deployment is bootstrapped on restart; the second
   time the ID is a duplicate and the process exits.
3. **A durable outcome that cannot be applied** (`actions_redo`): a binding may
   name a synapse the brain does not have; the outcome that would promote it is
   journaled, fails, and fails again at every replay (`runtime/contract.go:238`),
   while COGNITIVE_JOURNAL.md calls a complete command a redo commitment.
4. **An accepted precision is missed on retained experience**
   (`metric_envelope`): a lesson that installs a finer circuit or moves a shared
   one rewrites the observed maximum residual of the query being taught and of no
   other (`knowledge/neural_metric_learning.go:345`). The other queries read
   through the changed circuit with the old residual and a smaller quantization
   term: a reading is "precision-met" although a retained witness misses the
   tolerance (METRIC_CONTEXT_V6.md:26-27, :36).
5. **Durable text that cannot be applied** (`composition_text`): text is checked
   before the journal but its words are counted afterwards
   (`runtime/observation_command.go:147`).
6. **A checkpoint of a used cognitive model is refused** (`model_restore`):
   retention takes the BMPS mixture off the simplex that a restore demands.
7. **An acknowledged command can be unreadable** (`journal_newline`). A power
   failure or a short write leaves a complete record without its newline. The
   next start accepts it (`runtime/event_log.go:417`) and takes the file's size
   as acknowledged (`:114`); the next append is glued to that line (`:166`),
   synced, found to have the expected size and acknowledged. The start after
   that cannot decode the line and refuses the journal. A durable command "is a
   redo commitment" (`runtime/journal_command.go:10-13`) that no recovery can
   keep. Nothing false is served, and no record acknowledged before is damaged.

Met while modelling and not claimed by a run:

- *Monitor.* Events that arrive faster than a resync answers can supersede each
  other's resyncs for ever (`web/monitor/app.js:244`, `:257`);
  REVISION_TELEMETRY.md expects polling to stop. A failed resync leaves the
  status "resyncing", and the next close of the socket then schedules no
  reconnect. A disconnect during a resync's await is undone when it returns. The
  first snapshot of a new epoch rewinds the event cursor.
- *Inquiry.* An answer without words keeps the previous observation, so
  `resolvedPredictionInformation` compares that one
  (`runtime/observation_command.go:209`) and may credit information although
  nothing was returned; EVIDENCE_UNCERTAINTY.md says missing outcomes receive
  none. `RecordInquiryOutcome` closes whichever inquiry is pending, and
  numerical lessons share its state. Policy biases only grow.
- *Journal.* After a failed fsync `acknowledgedSize` stays behind
  (`runtime/event_log.go:158`); an in-process recovery publishes a runtime over
  the same open log, whose next append is refused with "changed outside writer"
  and poisons it again, until the process restarts. Import, sensor and vector records skip the record limit the reader relies on.
  A recovery serves records of a crashed append before they are durable. The
  sequence repair has no production caller and syncs the directory last.
- *Composition.* A failed attempt of a migration keeps its reserved rollback
  files, so a retry with the same path is refused. Forms that share units count
  as trained. An older scene of `neural_resolution_perception.go:55-69` may
  replace a live one.
- *Grounding.* Only the reading that recruited a population is promised to
  recover it: a noisy one, or a field reading near two prototypes, may find
  different populations over time. A legacy exact lookup can return a bootstrap
  population for a vector that stable projection recruits separately. Windows of
  one capture are linked by scope only, across groups
  (`runtime/sensor_fields.go:149`). A document that fails midway, or is imported
  again, learns what it learned before (`runtime/knowledge_processing.go:217`).
- *Cognitive model.* Some refusals come after the durable append (calibration of
  the first version, non-finite gradients,
  `knowledge/cognitive_meta_learning_v2.go:222`). A frozen head without a
  GRU batch leaves its digest unchanged.
- *Thinking.* Any typed two-hop path supports a "can do" claim
  (`thinking/fsu.go:749`); an older association hides a later typed synapse.
- *Replay.* Sums accumulated in map order
  (`knowledge/reconsolidation.go:71`) and an unstable sort
  (`activation/engine.go:174`) may differ between a run and its replay in the
  last bits.

## Proofs

The theorems hold for every value of the constants that the named assumptions
of the modules allow, and are checked to the last leaf. Every safety property
the passing runs check is proved; only liveness is left to TLC.

| Module | Inductive invariant | Theorem | Of |
|---|---|---|---|
| `JournaledRuntimeProofs` | `Invariance` (`IndInv`) | `TypeCorrect`, `ServedCommitted`, `AcknowledgedDurable`, `CommittedOnce` | `TypeOK`, `ServedIsCommitted`, `AckedDurable`, `AtMostOnce` |
| | and `AcceptedPending`, `Deterministic` | `HistoryAccepted` | `CommittedReplays` |
| | `IndInv` | `ReadableForEver` | `AcksStayReadable` |
| | `IndInv`, no power failures | `NeverRewritten`, `CheckpointsAnchored` | `AppendOnly`, `CheckpointAnchored` |
| | `IndInv` | `Refinement` | `ImplementsHistory` |
| `MonitorStreamProofs` | `StreamInvariance` (`StreamInd`) | `StreamTypes`, `NothingLost`, `NothingLeaked`, `FramesOfTheirRuntime` | `TypeOK`, `NoLostEvent`, `NoLeakedSubscriber`, `FramesCurrent` |
| `MonitorViewProofs` | `ViewInvariance` (`ViewInd`) | `ShownOnce`, `NeverBack` | `EventsOnce`, `GraphNeverOlder` |
| | `PanelInvariance` (`PanelInd`) | `OneRevisionShown` | `ViewIsOneRevision` |
| `ProductionStartupProofs` | `StartupInvariance` (`StartupInd`) | `OneBrain`, `CrashesRecover` | `SameBrain`, `CrashNeverStrands` |
| | `FileInvariance` (`FInd`) | `AcknowledgedIsRead` | `ReadsWhatWasAcknowledged` |
| `ActionLoopProofs` | `AInvariance` (`AInd`) | `OneDispatch`, `OneMove`, `ReferenceStands`, `PromotionsSupported` | `DispatchedOnce`, `NumericActionOnce`, `ReferenceHeld`, `PromotionSupported` |
| | `InquiryInvariance` (`QInd`) | `InquiriesEarn` | `GainEarned` |
| `KnowledgeProofs` | `ModelInvariance` (`ModelInd`) | `LearnedOnce`, `FrozenStaysFrozen` | `EvidenceOnce`, `SubstrateProtected` |
| | `CompositionInvariance` (`CompositionInd`) | `RollbackStands`, `BudgetHolds` | `RollbackKept`, `TaughtWithinBudget` |
| | `NumericInvariance` (`NumericInd`) | `LessonsRetain` | `DistinctionsRetained` |
| | `LessonInvariance` (`LessonInd`) | `LessonsRestore` | `NRestorable` |
| | `GroundInvariance` (`GroundInd`) | `RoutesStand` | `RoutesKept` |
| `CognitionProofs` | `MindInvariance` (`MindInd`) | `ForecastsJudgedOnce`, `EpisodesApart` | `CreditedOnce`, `TransitionsWithinEpisode` |
| | `RetentionInvariance` (`Charged`) | `RetentionHolds` | `RetentionExact` |
| | `RecallInvariance` (`Continues`) | `CreditsSupported`, `ContinuationsRestore` | `CreditSupported`, `ContinuationRestores` |
| | `ThinkInvariance` (`ThinkInd`) | `AuditsSound`, `VerdictsFollowMemory` | `PreservationSound`, `VerdictGrounded` |

### What is assumed

- `JournaledRuntime`: the three kinds of operation are disjoint, timestamps are
  positive naturals, bounds are naturals. `AppendOnly` and `CheckpointAnchored`
  are proved for `~PowerFailures`: with power failures they are false, because a
  record whose fsync failed may be lost after a repair or a checkpoint counted it.
- `MonitorStream`: a channel holds at least one event and there is at least one
  epoch. `MonitorView`, `ProductionStartup`, `ActionLoop`: bounds are naturals,
  an event is not a bootstrap or composition command, linked synapses are synapses.
- `JournalFile`: finitely many inodes, at least one; bounds are naturals; a journal
  found at the start is any sequence of lines whose payloads are named apart from
  those appended later.
- `CognitiveModel`: a batch that is not kept is none of the kept ones.
  `Composition`: finitely many written forms. `NumericResolution`: the scale is
  positive, there are finitely many queries, a lesson has finitely many points and
  at least one, measurements and outcomes lie between -1 and 1
  (`validateCompositionSequence`, `validateNLesson`).
- `Grounding`: readings lie within `0..UTop`, a population has more than one
  unit, and a sensor's kind is none of the two the program itself uses for
  readings without a scope and for written words.
- `Inquiry`: finitely many populations, numbered from one; strengths, qualities
  and levels between zero and a whole.
- `Inspection`: a page may have at least one record, graphs are finite, and no
  two connections of one list have the same ends and the same place.
- `Cognition`: finitely many units, a member budget that is a natural, the types of
  its inputs; an inquiry's links are links.
  `Thinking`: finitely many nodes; a brain maps pairs of them to relations, the
  words and the context of a question are nodes, a search may find a path.

### The arguments

*The journaled runtime.* That a free runtime equals the replay of the journal
depends on what was true in the middle of an operation and in the checkpoint it
may recover from. `Phases`: where an operation can stand in each mode.
`Deterministic`: the live state carries exactly the dedup index and clock of
its own commands, and so does every anchored checkpoint for its own prefix,
whether or not the present journal still extends it (this is what survives
finding 1). `WriteAhead`: per step, the tail the file has and how far the brain
is from it: equal before the record is written, one event short between the
record of a redo command and its application, one event ahead between the
application of a sample and its commit marker. `NotYetCommitted`: the
operation on its way is not in the journal yet. Lemmas on `After`, `Indexed`,
`LastTime` and prefixes say that replaying a prefix and then its suffix is
replaying the whole; recovery is that lemma plus the anchor check. At-most-once
follows because the dedup index holds every identified event of the journal when
an operation begins. A record on its way to an acknowledgement was written with its newline (`Ended`),
and what is written later is glued to an unended last line at most (`BareStep`), which
no acknowledged event is: so no line at or before one is ever damaged again.
The refinement maps each step to a history step or a stutter under `IndInv`; in
`CommittedHistory` an acknowledged operation keeps its place in the history,
whether or not the line it stands on can be decoded. That a replay accepts the history rests on the same
determinism: what was accepted against the live index and clock is accepted
against the index and clock of the prefix before it.

*Streams.* A commit is built and delivered by the one holder of the exclusive
lock (`BuildExclusive`), so every subscriber is a recipient. Each stream is
described by what it has still to write (`Frames`), a cursor that only live
events move (`Cursor`) and a buffer of rising revisions ahead of it
(`QueueAhead`); then no event falls between history and buffer (`Covered`).

*The page.* The cursor is ahead of every event shown (`EventsBehind`). At most
one read is the newest of its serial (`OneNewest`), and what it brings was
answered after whatever is shown (`NewestAhead`), unless a new connection has
crossed it.

*The inspector.* Keys order the records of a section strictly, so a section has
one sorted list and what is after its m-th record is the rest of it
(`Following`). A page takes at least one record unless it is refused
(`AcceptedFits`). A cursor stays the place in the list where a page ended as
long as runtime and revision are those it was drawn for, and is refused
otherwise (`Known`); only the newest answer can be shown, and it continues what
is shown (`Coming`).

*Startup.* The runtime has applied exactly the journal (`Running`), no file is
ahead of it (`Behind`), a journal with an event is anchored unless the operator
removed the checkpoint (`Kept`), and all of them have one foundation.

*The journal file.* For every inode that may be the journal after a power failure,
`Safe` speaks of all of `Left`: each file that may be left and is read, tells the
acknowledged history and perhaps what is in doubt. That a longer file tells no
less is an induction over lines (`PrefixWithin`), and a line cut at any byte is
refused or read as the whole line (`PartsOf`, `BareReads`). Before a line is written
the file holds what the process has counted (`Held`), so the line is either the next
record or beyond a gap that the reader refuses (`LineWritten`); after it a file of
the expected length holds the record (`Wrote`). That needs the second look at the
file (`AsWritten`): a file truncated in between is shorter, whatever was written to
it. A repair starts from plain lines, and a plain log that is read would have
recovered (`CalmRecovers`); so what it renumbers was never read, its history is its
lines, and the new log is read whole with the same payloads (`RenumberedReads`).

*Actions.* Whoever owns the mutation lease has a journaled binding of its own,
has not moved the device and was computed on the revision and scene the Brain
still has (`LeaseOwned`); the gateway holds no numeric request but that one; an
ID that moved the device stays bound, over restarts that empty the gateway.

*Inquiries.* What was taught and what is still traced has happened at least as
often (`Happened`), so the evidence of a forecast never exceeds it. With m the
mass of one population, S that of all of them and n its exposures, a share
m / (1 + S) of strengths and qualities up to one is at most n / (n + 1)
(`ShareBounded`), and the shares together at most one, since sums keep a
proportion that their terms have (`SumsCompare`). Agendas and requests carry
what had happened when they were planned, so they stay founded on it (`Asked`).

*Cognitive model, composition, lessons.* A recorded batch that moved the weights
is not of the present weights (`Spent`), so no later command accepts it; the
training masks of each phase are computed and compared with what is frozen.
Receipts name files whose reservation fails from then on. A lesson's trial is
kept only if it flips no witness, and what is installed predicts what the trial
predicted: that needs the readouts to keep their shape (`NumericInd`).

That what lessons leave can be restored (`LessonInd`) needs every number they
compute to be one: the divisor of a least-squares fit is `n` times the sum of the
squares less the square of the sum, which is not negative (`SumOfSquares`, by
induction over the set of rows), and a feature without spread gets no weight;
predictions are clamped, so errors lie between zero and two; a centre is a mean of
measurements and stays among them (`SumWithin`); resolutions are clamped. A trial
that is kept knows what was known before it (`Fair`). A full store keeps at most
its share for every query with a readout and none for another, and the shares
together are no more than the store holds, whichever rows are kept (`SharesFit`).

*Perception.* Two populations of one scope never recover each other's readings
(`PrototypesApart`): a new one is recruited only when none is within reach, and
prototypes never move. Units of a field serve its coordinate system alone
(`UnitsApart`), traces and links point at populations of their scope. Then the
population a reading recruited is the only one its search can answer.

*Continuation and thinking.* A forecast that is kept is of the newest
observation and of the episode that is open (`Judged`), and the predecessor of
the next transition is of that episode (`SameEpisode`); settling, lessons and
imports are folds over typed inputs that keep both. Decay over one span after
another is decay over both (`HalvedSum`, by induction on the ticks), so what a
connection has paid depends only on when it was learned and on the watermark
(`Charged`): every command settles at its own time before it learns, a time
behind the watermark charges nothing, and before the first settlement nothing
has been learned. The frames of the context are within their budgets, in order,
and placed one after the other in what was seen of the episode (`Recalls`):
forgetting old frames and trimming take a subsequence (`DrawnKeeps`), counting
members is a fold that a further frame extends (`MembersCount`). A credited
pattern has its end in the event and the rest among the carried frames, so it
was seen whole (`CreditedSeen`). In a question, the paths
found are genuine, candidates consist of active relations, and an audit that
passes has seen every preserved part (`ThinkInd`).

*Induction.* The prover does not instantiate theorems over operators, so
`FoldTheorems` states induction with sets in place of predicates, from the
well-foundedness of `<` on the naturals, and unfolds folds through functions.

### What is only model-checked

Liveness, which is beyond the prover: `WriterProgress`, `StaleStreamEnds`,
`EventuallyCurrent`, `GraphCatchesUp`.

## Not modelled, and why

- Numbers: propagation, convergence, calibration, entropy, scores and the
  training of weights. The modules leave them open (any member may move, any
  forecast may be preferred, any candidate may win) or take them in small
  integers where a property is about them.
- Encodings and dynamics of earlier releases, kept for replay: the migration of
  words is in `Composition`, document states in `Grounding`, the rest is left out.
- Parts of modelled components: annotations and word labels, activation values
  and `AdaptPopulationRepresentationAt` (no production caller) in `Grounding`;
  the 64-capture ring of sensory traces, which only forgets; relocation records, unknown words and the limits on neighbours, seeds and
  candidates in `Thinking`; synapses related to a node and state
  previews in `Inspection`; products of circuits and measurement errors in
  `NumericResolution`; standalone inquiry planning (refused with a journal).
- The unmanaged mode of the bridge, which has no exclusion between its calls and
  is not used in production; authentication, CORS and rate limits; rendering;
  the reader goroutine of the WebSocket, which is the client's close; the ticker
  and stop conditions of the continuous service.
- Read-only views, skeleton services, tools, teaching, I/O adapters and
  `internal/` (no production caller) keep no protocol.

## Plan

Two pages of `MonitorView` that share a bridge, the continuous service's stop
conditions, dynamics of earlier releases where a replay may mix them with
present ones.
