----------------------------- MODULE MonitorView -----------------------------
(***************************************************************************)
(* One page of the browser monitor against a bridge that commits, replaces *)
(* its runtime and drops connections: the revision store, the resync and   *)
(* reconnect logic and the snapshot scheduler (web/monitor/app.js,         *)
(* lib/horizon-store.ts, snapshot-scheduler.js) in bounded inspection      *)
(* mode, where snapshots carry an epoch and no hash.                       *)
(*                                                                         *)
(* A handler runs to its next await without being interrupted, and the     *)
(* next message is handled while an earlier one awaits its snapshot.       *)
(*                                                                         *)
(* Abstractions.  The bridge's side of a stream is MonitorStream: here it  *)
(* is what the socket will still deliver.  A snapshot is its epoch and     *)
(* revision.  Time is not modelled, an armed timer fires some time.        *)
(***************************************************************************)
EXTENDS Integers, Sequences, FiniteSets

CONSTANTS
    Slot,       \* bound: reads in flight at once, besides the scheduler's
    MaxRev,     \* bound: committed revisions
    MaxEpoch,   \* bound: recoveries of the bridge's runtime, plus one
    MaxFaults,  \* bound: lost sockets and failed reads
    MaxClicks   \* bound: what the user does

ASSUME BoundAssumption == /\ MaxRev \in Nat /\ MaxEpoch \in Nat \ {0}
                          /\ MaxFaults \in Nat /\ MaxClicks \in Nat

VARIABLES
    (* the bridge *)
    rev,        \* committed revision
    shown,      \* the last revision announced by an event
    epoch,      \* inspection epoch of the current runtime
    (* the current socket; older ones are ignored by their handlers *)
    sock,       \* "none", "opening" or "open"
    after,      \* the revision its URL asks events from
    served,     \* the epoch its stream is bound to
    wire,       \* frames still to be delivered: a handshake is [epoch], an event [rev]
    (* the store *)
    status,
    snapshot,   \* its epoch and revision, or NoSnapshot
    revision,   \* revisionValue: how far the events are known
    events,     \* eventsValue
    (* app.js *)
    reads,      \* snapshot reads in flight, by slot
    timer,      \* the reconnect timer is armed
    orphan,     \* an earlier reconnect timer was overwritten and is still armed
    (* snapshot-scheduler.js *)
    target,     \* revision to read for, 0 when nothing is pending
    scheduled,  \* the scheduler's read in flight
    heard,      \* a handler of the current socket waits for the scheduler
    (* bounds and history *)
    faults, clicks,
    cut,        \* the page was given up: not connected by the user, or a read it needed failed
    missed,     \* a read failed since the page was connected
    crossed     \* a read was on its way when the page was connected

bridge == <<rev, shown, epoch>>
socket == <<sock, after, served, wire>>
store  == <<status, snapshot, revision, events>>
timers == <<timer, orphan>>
vars   == <<rev, shown, epoch, sock, after, served, wire, status, snapshot,
            revision, events, reads, timer, orphan, target, scheduled, heard,
            faults, clicks, cut, missed, crossed>>

NoSnapshot == [epoch |-> 0, rev |-> 0]
NoRead     == [op |-> "free", newest |-> FALSE, page |-> NoSnapshot]
NoRun      == [want |-> 0, live |-> FALSE, newest |-> FALSE, page |-> NoSnapshot]

Handshake(e) == [type |-> "handshake", at |-> e]
Event(r)     == [type |-> "event", at |-> r]

Init ==
    /\ rev = 0 /\ shown = 0 /\ epoch = 1
    /\ sock = "none" /\ after = 0 /\ served = 0 /\ wire = <<>>
    /\ status = "disconnected" /\ snapshot = NoSnapshot /\ revision = 0 /\ events = <<>>
    /\ reads = [i \in Slot |-> NoRead]
    /\ timer = FALSE /\ orphan = FALSE
    /\ target = 0 /\ scheduled = NoRun /\ heard = FALSE
    /\ faults = 0 /\ clicks = 0 /\ cut = TRUE /\ missed = FALSE /\ crossed = FALSE
-----------------------------------------------------------------------------
(* The bridge.  Some commits send no event; a stream of a runtime that was *)
(* replaced gets none.                                                     *)
Commit(announced) ==
    /\ rev < MaxRev
    /\ rev' = rev + 1
    /\ shown' = IF announced THEN rev + 1 ELSE shown
    /\ wire' = IF announced /\ sock = "open" /\ served = epoch
               THEN Append(wire, Event(rev + 1)) ELSE wire
    /\ UNCHANGED <<epoch, sock, after, served, store, reads, timers, target, scheduled,
                   heard, faults, clicks, cut, missed, crossed>>

Handover ==
    /\ epoch < MaxEpoch
    /\ epoch' = epoch + 1
    /\ UNCHANGED <<rev, shown, socket, store, reads, timers, target, scheduled,
                   heard, faults, clicks, cut, missed, crossed>>
-----------------------------------------------------------------------------
(* HorizonStore                                                            *)
Older(s) == s.epoch = snapshot.epoch /\ s.rev < snapshot.rev

(* Mutant: a snapshot always sets the cursor of the events. *)
SetSnapshotRewinding(s) ==
    IF Older(s) THEN UNCHANGED <<snapshot, revision, events>>
    ELSE /\ snapshot' = s /\ revision' = s.rev
         /\ events' = IF snapshot.epoch \in {0, s.epoch} THEN events ELSE <<>>

(* setSnapshot: another epoch starts the store anew, an older snapshot of  *)
(* the same one is ignored, and event continuity never rewinds.            *)
SetSnapshot(s) ==
    IF Older(s) THEN UNCHANGED <<snapshot, revision, events>>
    ELSE /\ snapshot' = s
         /\ IF snapshot.epoch \in {0, s.epoch}
            THEN /\ revision' = IF s.rev >= revision THEN s.rev ELSE revision
                 /\ UNCHANGED events
            ELSE revision' = s.rev /\ events' = <<>>

(* Mutant: superseded reads are applied as they arrive. *)
ApplyMonitorViewAny(s, newest) == SetSnapshot(s)

(* applyMonitorView: only the newest read counts. *)
ApplyMonitorView(s, newest) ==
    IF newest THEN SetSnapshot(s) ELSE UNCHANGED <<snapshot, revision, events>>
-----------------------------------------------------------------------------
(* loadMonitorView, and the reads of connect: a new serial supersedes all. *)
StartRead(i, op) ==
    /\ reads[i] = NoRead
    /\ reads' = [j \in Slot |->
                   IF j = i THEN [NoRead EXCEPT !.op = op, !.newest = TRUE]
                   ELSE [reads[j] EXCEPT !.newest = FALSE]]

(* snapshotRefresh.reset *)
ResetScheduler ==
    /\ target' = 0 /\ heard' = FALSE
    /\ scheduled' = [scheduled EXCEPT !.live = FALSE, !.newest = FALSE]

(* Handlers compare their connection with the current one. *)
Close == sock' = "none" /\ after' = 0 /\ served' = 0 /\ wire' = <<>>

(* openStream: the previous socket is closed and forgotten. *)
OpenStream(r) ==
    /\ sock' = "opening" /\ after' = r /\ served' = 0 /\ wire' = <<>>
    /\ status' = "connecting"

(* resync up to its await *)
Resync(i) ==
    /\ StartRead(i, "resync")
    /\ ResetScheduler
    /\ status' = "resyncing"
-----------------------------------------------------------------------------
(* The user *)
Click == clicks < MaxClicks /\ clicks' = clicks + 1

Connect(i) ==
    /\ Click
    /\ StartRead(i, "connect")
    /\ ResetScheduler
    /\ Close
    /\ cut' = TRUE
    /\ UNCHANGED <<bridge, store, timers, faults, missed, crossed>>

(* disconnect: of the reconnect timers it knows the last one only. *)
Disconnect ==
    /\ Click
    /\ reads' = [j \in Slot |-> [reads[j] EXCEPT !.newest = FALSE]]
    /\ ResetScheduler
    /\ timer' = FALSE
    /\ Close
    /\ status' = "disconnected"
    /\ cut' = TRUE
    /\ UNCHANGED <<bridge, snapshot, revision, events, orphan, faults, missed, crossed>>

(* The refresh and next buttons of the graph. *)
ReadGraph(i) ==
    /\ Click
    /\ StartRead(i, "graph")
    /\ ResetScheduler
    /\ UNCHANGED <<bridge, socket, store, timers, faults, cut, missed, crossed>>
-----------------------------------------------------------------------------
(* Reads.  The bridge answers for the moment it has the runtime's lease.   *)
Answer(i) ==
    /\ reads[i] # NoRead /\ reads[i].page = NoSnapshot
    /\ reads' = [reads EXCEPT ![i].page = [epoch |-> epoch, rev |-> rev]]
    /\ UNCHANGED <<bridge, socket, store, timers, target, scheduled, heard,
                   faults, clicks, cut, missed, crossed>>

Free(i) == reads' = [reads EXCEPT ![i] = NoRead]

Arrived(i, op) == reads[i].op = op /\ reads[i].page # NoSnapshot

(* connect: the store starts anew, whatever was read meanwhile. *)
Connected(i) ==
    /\ Arrived(i, "connect")
    /\ Free(i)
    /\ snapshot' = reads[i].page /\ revision' = reads[i].page.rev /\ events' = <<>>
    /\ OpenStream(reads[i].page.rev)
    /\ heard' = FALSE
    /\ crossed' = (scheduled # NoRun \/ \E j \in Slot \ {i} : reads[j] # NoRead)
    /\ cut' = FALSE /\ missed' = FALSE
    /\ UNCHANGED <<bridge, timers, target, scheduled, faults, clicks>>

(* resync after its await: the stream is opened even if the page was       *)
(* disconnected meanwhile or another resync is on its way.                 *)
Resynced(i) ==
    /\ Arrived(i, "resync") /\ Free(i)
    /\ ApplyMonitorView(reads[i].page, reads[i].newest)
    /\ OpenStream(revision')
    /\ heard' = FALSE
    /\ UNCHANGED <<bridge, timers, target, scheduled, faults, clicks, cut, missed, crossed>>

GraphRead(i) ==
    /\ Arrived(i, "graph") /\ Free(i)
    /\ ApplyMonitorView(reads[i].page, reads[i].newest)
    /\ UNCHANGED <<bridge, socket, status, timers, target, scheduled, heard,
                   faults, clicks, cut, missed, crossed>>

Fault == faults < MaxFaults /\ faults' = faults + 1

(* A failed read.  After a failed resync the store stays "resyncing". *)
ReadFails(i) ==
    /\ Fault
    /\ reads[i] # NoRead /\ Free(i)
    /\ status' = IF reads[i].op = "connect" THEN "error" ELSE status
    /\ cut' = (cut \/ reads[i].op # "graph") /\ missed' = TRUE
    /\ UNCHANGED <<bridge, socket, snapshot, revision, events, timers, target,
                   scheduled, heard, clicks, crossed>>
-----------------------------------------------------------------------------
(* The scheduler.  Requests share one pending read; reads never overlap.   *)
Request(r) ==
    /\ target' = IF r > target THEN r ELSE target
    /\ heard' = TRUE

(* run, when its timer fires: armed while a read is pending and none runs. *)
RunScheduled ==
    /\ target # 0 /\ scheduled = NoRun
    /\ scheduled' = [NoRun EXCEPT !.want = target, !.live = TRUE, !.newest = TRUE]
    /\ target' = 0
    /\ reads' = [j \in Slot |-> [reads[j] EXCEPT !.newest = FALSE]]
    /\ UNCHANGED <<bridge, socket, store, timers, heard, faults, clicks, cut, missed, crossed>>

AnswerScheduled ==
    /\ scheduled # NoRun /\ scheduled.page = NoSnapshot
    /\ scheduled' = [scheduled EXCEPT !.page = [epoch |-> epoch, rev |-> rev]]
    /\ UNCHANGED <<bridge, socket, store, reads, timers, target, heard,
                   faults, clicks, cut, missed, crossed>>

(* Mutant: a request made while a read runs is taken to be served by it. *)
ScheduledReadCoalescing ==
    /\ scheduled # NoRun /\ scheduled.page # NoSnapshot
    /\ IF scheduled.live /\ scheduled.page.rev >= scheduled.want
       THEN ApplyMonitorView(scheduled.page, scheduled.newest)
       ELSE UNCHANGED <<snapshot, revision, events>>
    /\ scheduled' = NoRun /\ target' = 0
    /\ UNCHANGED <<bridge, socket, status, reads, timers, heard,
                   faults, clicks, cut, missed, crossed>>

(* A read that a reset overtook is dropped.  What was requested meanwhile  *)
(* is read next.                                                           *)
ScheduledRead ==
    /\ scheduled # NoRun /\ scheduled.page # NoSnapshot
    /\ IF scheduled.live /\ scheduled.page.rev >= scheduled.want
       THEN ApplyMonitorView(scheduled.page, scheduled.newest)
       ELSE UNCHANGED <<snapshot, revision, events>>
    /\ scheduled' = NoRun
    /\ UNCHANGED <<bridge, socket, status, reads, timers, target, heard,
                   faults, clicks, cut, missed, crossed>>

(* The handlers that wait for a live read fail with it, and say so if      *)
(* their socket is still the current one.                                  *)
ScheduledFails ==
    /\ Fault
    /\ scheduled # NoRun
    /\ status' = IF scheduled.live /\ heard /\ sock # "none" THEN "error" ELSE status
    /\ missed' = TRUE
    /\ scheduled' = NoRun
    /\ UNCHANGED <<bridge, socket, snapshot, revision, events, reads, timers,
                   target, heard, clicks, cut, crossed>>
-----------------------------------------------------------------------------
(* The socket.  The stream subscribes, greets, replays the journal behind  *)
(* "after"; the last replayed event may be in its channel as well.         *)
OnOpen ==
    /\ sock = "opening"
    /\ sock' = "open" /\ served' = epoch /\ UNCHANGED after
    /\ LET replay == [n \in 1 .. rev - after |-> Event(after + n)]
       IN  \E twice \in {<<>>} \cup {<<replay[n]>> : n \in {Len(replay)} \ {0}} :
              wire' = <<Handshake(epoch)>> \o replay \o twice
    /\ status' = "connected"
    /\ UNCHANGED <<bridge, snapshot, revision, events, reads, timers, target,
                   scheduled, heard, faults, clicks, cut, missed, crossed>>

Message(type) == sock = "open" /\ wire # <<>> /\ Head(wire).type = type

(* The rest of the wire belongs to a handler that may have to resync.      *)
Taken == wire' = Tail(wire) /\ UNCHANGED <<sock, after, served>>

OnHandshake(i) ==
    /\ Message("handshake")
    /\ Taken
    /\ IF snapshot.epoch \in {0, Head(wire).at}
       THEN UNCHANGED <<status, reads, target, scheduled, heard>>
       ELSE Resync(i)
    /\ UNCHANGED <<bridge, snapshot, revision, events, timers, faults, clicks, cut, missed, crossed>>

(* applyEvent: "duplicate" *)
OnDuplicate ==
    /\ Message("event") /\ Head(wire).at <= revision
    /\ Taken
    /\ UNCHANGED <<bridge, store, reads, timers, target, scheduled, heard,
                   faults, clicks, cut, missed, crossed>>

(* applyEvent: "applied" *)
OnNext ==
    /\ Message("event") /\ Head(wire).at = revision + 1
    /\ Taken
    /\ events' = Append(events, revision + 1) /\ revision' = revision + 1
    /\ Request(revision + 1)
    /\ UNCHANGED <<bridge, status, snapshot, reads, timers, scheduled,
                   faults, clicks, cut, missed, crossed>>

(* applyEvent: "gap" *)
OnGap(i) ==
    /\ Message("event") /\ Head(wire).at > revision + 1
    /\ Taken
    /\ Resync(i)
    /\ UNCHANGED <<bridge, snapshot, revision, events, timers, faults, clicks, cut, missed, crossed>>

(* Mutant: only a healthy page reconnects. *)
OnCloseHealthy ==
    /\ Close
    /\ IF status = "connected"
       THEN status' = "stale" /\ timer' = TRUE /\ orphan' = (orphan \/ timer)
       ELSE UNCHANGED <<status, timers>>
    /\ heard' = FALSE

(* onclose of the current socket *)
OnClose ==
    /\ Close
    /\ IF status \in {"resyncing", "disconnected"}
       THEN UNCHANGED <<status, timers>>
       ELSE status' = "stale" /\ timer' = TRUE /\ orphan' = (orphan \/ timer)
    /\ heard' = FALSE

Quiet == UNCHANGED <<bridge, snapshot, revision, events, reads, target, scheduled,
                     clicks, cut, missed, crossed>>

(* The network, a 503 or an overflow of the subscriber's buffer. *)
SocketLost ==
    /\ sock # "none" /\ Fault
    /\ OnClose
    /\ Quiet

(* The stream of a runtime that was replaced ends. *)
StreamEnds ==
    /\ sock = "open" /\ served # epoch
    /\ OnClose
    /\ Quiet /\ UNCHANGED faults

Reconnect ==
    /\ \/ timer /\ timer' = FALSE /\ UNCHANGED orphan
       \/ orphan /\ orphan' = FALSE /\ UNCHANGED timer
    /\ OpenStream(revision)
    /\ heard' = FALSE
    /\ Quiet /\ UNCHANGED faults
-----------------------------------------------------------------------------
User == Disconnect \/ \E i \in Slot : Connect(i) \/ ReadGraph(i)

ReadProgress(i) == Answer(i) \/ Connected(i) \/ Resynced(i) \/ GraphRead(i)

SchedulerProgress == RunScheduled \/ AnswerScheduled \/ ScheduledRead

Handle == OnDuplicate \/ OnNext \/ \E i \in Slot : OnHandshake(i) \/ OnGap(i)

Next ==
    \/ \E announced \in BOOLEAN : Commit(announced)
    \/ Handover \/ User
    \/ \E i \in Slot : ReadProgress(i) \/ ReadFails(i)
    \/ SchedulerProgress \/ ScheduledFails
    \/ OnOpen \/ Handle \/ SocketLost \/ StreamEnds \/ Reconnect

Spec == Init /\ [][Next]_vars

(* The browser's event loop runs what is ready; a read is answered or      *)
(* fails, a socket opens or is lost, and a stream of a replaced runtime    *)
(* ends (MonitorStream, StaleStreamEnds).  Nobody has to commit or click.  *)
Fairness ==
    /\ \A i \in Slot : WF_vars(ReadProgress(i))
    /\ WF_vars(SchedulerProgress) /\ WF_vars(OnOpen) /\ WF_vars(Handle)
    /\ WF_vars(StreamEnds) /\ WF_vars(Reconnect)

FairSpec == Spec /\ Fairness
-----------------------------------------------------------------------------
(* No event is shown twice or behind a later one, although reconnects ask  *)
(* for history again, the bridge repeats events and snapshots arrive late  *)
(* (setSnapshot "event continuity never rewinds", applyEvent).             *)
EventsOnce == \A i, j \in DOMAIN events : i < j => events[i] < events[j]

(* Reads overtake each other, but the graph never goes back to an older    *)
(* runtime or revision (monitorReadSerial), except by a new connection,    *)
(* whose own read is outside that order, or a read that it crossed.        *)
GraphNeverOlder ==
    [][snapshot' # snapshot /\ snapshot # NoSnapshot
         => \/ snapshot'.rev >= snapshot.rev /\ snapshot'.epoch >= snapshot.epoch
            \/ crossed
            \/ \E i \in Slot : reads[i].op = "connect" /\ reads'[i] = NoRead]_vars

(* Two resyncs await their snapshots: the first to return opens a stream   *)
(* without applying what it read, and the stream may start a third.        *)
Overlapping ==
    \E i, j \in Slot : i # j /\ reads[i].op = "resync" /\ reads[j].op = "resync"

(* A page that the user connected and that lost no read knows every        *)
(* announced revision in the end, through lost sockets and replaced        *)
(* runtimes.  A failed read is one exception: after a failed resync the    *)
(* next close of the socket schedules no reconnect (onclose), and the      *)
(* first snapshot of a new epoch rewinds the cursor of the events.         *)
(* Resyncs that supersede each other for ever are the other.               *)
EventuallyCurrent ==
    <>[](~Overlapping) => <>[](cut \/ missed \/ crossed \/ revision >= shown)

(* REVISION_TELEMETRY.md: when events stop, the last dirty revision is     *)
(* read and polling stops.                                                 *)
GraphCatchesUp ==
    <>[](~Overlapping) => <>[](cut \/ missed \/ crossed \/ snapshot.rev >= revision)
=============================================================================
