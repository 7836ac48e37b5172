-------------------------- MODULE MonitorViewProofs --------------------------
(***************************************************************************)
(* What MonitorView keeps for any number of reads in flight, however they  *)
(* overtake each other and however often sockets and runtimes are lost: no *)
(* event is shown twice, and the graph does not go back.  That the page    *)
(* becomes current is liveness and stays with TLC.                         *)
(* And what the inspector panel of the page keeps of a list that it reads  *)
(* in pieces.                                                              *)
(***************************************************************************)
EXTENDS MonitorView, Inspection, FoldTheorems, FiniteSetTheorems, SequenceTheorems, TLAPS
-----------------------------------------------------------------------------
(* The inductive invariant.                                                *)

Page == [epoch : Nat, rev : Nat]
Read == [op : {"free", "connect", "resync", "graph"}, newest : BOOLEAN, page : Page]
Run  == [want : Nat, live : BOOLEAN, newest : BOOLEAN, page : Page]

ViewTypes ==
    /\ rev \in Nat /\ epoch \in Nat \ {0}
    /\ snapshot \in Page /\ revision \in Nat /\ events \in Seq(Nat)
    /\ reads \in [Slot -> Read] /\ scheduled \in Run /\ target \in Nat
    /\ crossed \in BOOLEAN

(* The cursor is not behind an event that is shown. *)
EventsBehind == \A i \in 1 .. Len(events) : events[i] <= revision

(* What a read brings, and what is shown, was true of the bridge once. *)
NotAfter(s) == s.epoch <= epoch /\ s.rev <= rev
PastPages ==
    /\ NotAfter(snapshot) /\ NotAfter(scheduled.page)
    /\ \A i \in Slot : NotAfter(reads[i].page)

(* One serial is the newest, of all the reads of app.js and the scheduler. *)
OneNewest ==
    /\ \A i, j \in Slot : reads[i].newest /\ reads[j].newest => i = j
    /\ \A i \in Slot : reads[i].newest => ~scheduled.newest

(* The newest read was answered after whatever is shown. *)
AtLeast(s, shownNow) == s.epoch >= shownNow.epoch /\ s.rev >= shownNow.rev
NewestAhead == ~crossed =>
    /\ \A i \in Slot : reads[i].newest /\ reads[i].page # NoSnapshot => AtLeast(reads[i].page, snapshot)
    /\ scheduled.newest /\ scheduled.page # NoSnapshot => AtLeast(scheduled.page, snapshot)

ViewInd ==
    /\ ViewTypes /\ EventsBehind /\ EventsOnce
    /\ PastPages /\ OneNewest /\ NewestAhead

LEMMA Blank ==
    /\ NoSnapshot \in Page /\ NoSnapshot.epoch = 0 /\ NoSnapshot.rev = 0
    /\ NoRead \in Read /\ ~NoRead.newest /\ NoRead.page = NoSnapshot
    /\ NoRun \in Run /\ ~NoRun.newest /\ NoRun.page = NoSnapshot
BY DEF NoSnapshot, NoRead, NoRun, Page, Read, Run

LEMMA ViewInit == Init => ViewInd
<1> SUFFICES ASSUME Init PROVE ViewInd
  OBVIOUS
<1> USE DEF Init
<1>1. events = <<>> /\ events \in Seq(Nat) /\ Len(events) = 0 /\ DOMAIN events = {}
  BY EmptySeq
<1>2. ViewTypes
  <2>1. reads \in [Slot -> Read] /\ scheduled \in Run /\ snapshot \in Page
    BY Blank
  <2>2. rev \in Nat /\ epoch \in Nat \ {0} /\ revision \in Nat /\ target \in Nat
    OBVIOUS
  <2>3. crossed \in BOOLEAN
    OBVIOUS
  <2> QED
    BY <1>1, <2>1, <2>2, <2>3 DEF ViewTypes
<1>3. EventsBehind /\ EventsOnce
  BY <1>1 DEF EventsBehind, EventsOnce
<1>4. PastPages /\ OneNewest /\ NewestAhead
  BY Blank DEF PastPages, NotAfter, OneNewest, NewestAhead
<1> QED
  BY <1>2, <1>3, <1>4 DEF ViewInd
-----------------------------------------------------------------------------
(* What the bridge and the sockets do to the page before a message is      *)
(* handled: nothing.                                                       *)
LEMMA BridgeKeeps ==
    ASSUME ViewInd, rev' \in Nat, rev' >= rev, epoch' \in Nat, epoch' >= epoch,
           UNCHANGED <<snapshot, revision, events, reads, target, scheduled, crossed>>
    PROVE  ViewInd'
<1> USE DEF ViewInd
<1>1. ViewTypes' /\ EventsBehind' /\ EventsOnce' /\ OneNewest' /\ NewestAhead'
  BY DEF ViewTypes, EventsBehind, EventsOnce, OneNewest, NewestAhead
<1>2. /\ snapshot \in Page /\ scheduled.page \in Page /\ \A i \in Slot : reads[i].page \in Page
  BY DEF ViewTypes, Read, Run
<1>3. PastPages'
  BY <1>2 DEF PastPages, NotAfter, ViewTypes, Page
<1> QED
  BY <1>1, <1>3

(* Reads are superseded, dropped or end; what is shown stays. *)
LEMMA ReadsEndKeeps ==
    ASSUME ViewInd, target' \in Nat, crossed' = crossed, UNCHANGED <<bridge, snapshot, revision, events>>,
           reads' \in [Slot -> Read], scheduled' \in Run,
           \A j \in Slot : reads'[j].newest => reads[j].newest,
           \A j \in Slot : reads'[j].page \in {reads[j].page, NoSnapshot},
           scheduled'.newest => scheduled.newest, scheduled'.page \in {scheduled.page, NoSnapshot}
    PROVE  ViewInd'
<1> USE DEF ViewInd, bridge
<1>1. ViewTypes' /\ EventsBehind' /\ EventsOnce'
  BY DEF ViewTypes, EventsBehind, EventsOnce
<1>2. PastPages'
  BY Blank DEF PastPages, NotAfter, ViewTypes
<1>3. OneNewest' /\ NewestAhead'
  BY DEF OneNewest, NewestAhead
<1> QED
  BY <1>1, <1>2, <1>3

(* A new serial. *)
LEMMA StartReadKeeps ==
    ASSUME ViewInd, NEW i \in Slot, NEW op \in {"connect", "resync", "graph"}, StartRead(i, op), ResetScheduler,
           crossed' = crossed, UNCHANGED <<bridge, snapshot, revision, events>>
    PROVE  ViewInd'
<1> USE DEF ViewInd, bridge, StartRead, ResetScheduler
<1>1. /\ reads'[i] = [NoRead EXCEPT !.op = op, !.newest = TRUE]
      /\ reads'[i] \in Read /\ reads'[i].page = NoSnapshot
      /\ \A j \in Slot \ {i} : /\ reads'[j] = [reads[j] EXCEPT !.newest = FALSE]
                               /\ reads'[j] \in Read /\ ~reads'[j].newest /\ reads'[j].page = reads[j].page
  BY Blank DEF Read, NoRead, ViewTypes
<1>2. scheduled' \in Run /\ ~scheduled'.newest /\ scheduled'.page = scheduled.page
  BY DEF Run, ViewTypes
<1>3. ViewTypes'
  <2>1. reads' \in [Slot -> Read]
    BY <1>1
  <2> QED
    BY <1>2, <2>1 DEF ViewTypes
<1>4. EventsBehind' /\ EventsOnce'
  BY DEF EventsBehind, EventsOnce
<1>5. PastPages'
  BY <1>1, <1>2, Blank DEF PastPages, NotAfter, ViewTypes
<1>6. OneNewest' /\ NewestAhead'
  BY <1>1, <1>2 DEF OneNewest, NewestAhead
<1> QED
  BY <1>3, <1>4, <1>5, <1>6

(* The scheduler's own serial. *)
LEMMA RunScheduledKeeps == ASSUME ViewInd, RunScheduled PROVE ViewInd'
<1> USE DEF ViewInd, bridge, store, RunScheduled
<1>1. \A j \in Slot : /\ reads'[j] = [reads[j] EXCEPT !.newest = FALSE]
                      /\ reads'[j] \in Read /\ ~reads'[j].newest /\ reads'[j].page = reads[j].page
  BY DEF Read, ViewTypes
<1>2. scheduled' \in Run /\ scheduled'.page = NoSnapshot
  BY Blank DEF Run, NoRun, ViewTypes
<1>3. ViewTypes'
  <2>1. reads' \in [Slot -> Read]
    BY <1>1
  <2> QED
    BY <1>2, <2>1 DEF ViewTypes
<1>4. EventsBehind' /\ EventsOnce'
  BY DEF EventsBehind, EventsOnce
<1>5. PastPages'
  BY <1>1, <1>2, Blank DEF PastPages, NotAfter, ViewTypes
<1>6. OneNewest' /\ NewestAhead'
  BY <1>1, <1>2 DEF OneNewest, NewestAhead
<1> QED
  BY <1>3, <1>4, <1>5, <1>6

(* An answer shows the bridge of this moment, which nothing shown is ahead of. *)
LEMMA AnswerKeeps == ASSUME ViewInd, NEW i \in Slot, Answer(i) PROVE ViewInd'
<1> USE DEF ViewInd, bridge, store, Answer
<1> DEFINE now == [epoch |-> epoch, rev |-> rev]
<1>1. now \in Page /\ now.epoch = epoch /\ now.rev = rev
  BY DEF ViewTypes, Page
<1>2. /\ reads'[i] \in Read /\ reads'[i].page = now /\ reads'[i].newest = reads[i].newest
      /\ \A j \in Slot \ {i} : reads'[j] = reads[j]
      /\ reads' \in [Slot -> Read]
  BY <1>1 DEF Read, ViewTypes
<1> HIDE DEF now
<1>3. ViewTypes' /\ EventsBehind' /\ EventsOnce'
  BY <1>2 DEF ViewTypes, EventsBehind, EventsOnce
<1>4. PastPages'
  BY <1>1, <1>2 DEF PastPages, NotAfter, ViewTypes
<1>5. AtLeast(now, snapshot)
  BY <1>1 DEF PastPages, NotAfter, AtLeast, ViewTypes, Page
<1>6. OneNewest' /\ NewestAhead'
  BY <1>2, <1>5 DEF OneNewest, NewestAhead, AtLeast
<1> QED
  BY <1>3, <1>4, <1>6

LEMMA AnswerScheduledKeeps == ASSUME ViewInd, AnswerScheduled PROVE ViewInd'
<1> USE DEF ViewInd, bridge, store, AnswerScheduled
<1> DEFINE now == [epoch |-> epoch, rev |-> rev]
<1>1. now \in Page /\ now.epoch = epoch /\ now.rev = rev
  BY DEF ViewTypes, Page
<1>2. scheduled' \in Run /\ scheduled'.page = now /\ scheduled'.newest = scheduled.newest
  BY <1>1 DEF Run, ViewTypes
<1> HIDE DEF now
<1>3. ViewTypes' /\ EventsBehind' /\ EventsOnce'
  BY <1>2 DEF ViewTypes, EventsBehind, EventsOnce
<1>4. PastPages'
  BY <1>1, <1>2 DEF PastPages, NotAfter, ViewTypes
<1>5. AtLeast(now, snapshot)
  BY <1>1 DEF PastPages, NotAfter, AtLeast, ViewTypes, Page
<1>6. OneNewest' /\ NewestAhead'
  BY <1>2, <1>5 DEF OneNewest, NewestAhead, AtLeast
<1> QED
  BY <1>3, <1>4, <1>6
-----------------------------------------------------------------------------
(* HorizonStore                                                            *)

(* setSnapshot: the events shown stay in order and behind the cursor, and  *)
(* what is not older than the graph is not behind it.                      *)
LEMMA SetSnapshotKeeps ==
    ASSUME ViewInd, NEW s \in Page, SetSnapshot(s)
    PROVE  /\ snapshot' \in {s, snapshot} /\ revision' \in Nat
           /\ events' = <<>> \/ (events' = events /\ revision' >= revision)
<1> USE DEF ViewInd, ViewTypes, Page
<1>1. CASE Older(s)
  BY <1>1 DEF SetSnapshot
<1>2. CASE ~Older(s)
  <2>1. s.rev \in Nat /\ revision \in Nat /\ s.rev >= s.rev
    OBVIOUS
  <2>2. CASE snapshot.epoch \in {0, s.epoch}
    BY <1>2, <2>1, <2>2 DEF SetSnapshot
  <2>3. CASE snapshot.epoch \notin {0, s.epoch}
    <3>1. snapshot' = s /\ revision' = s.rev /\ events' = <<>>
      BY <1>2, <2>3 DEF SetSnapshot
    <3> QED
      BY <2>1, <3>1
  <2> QED
    BY <2>2, <2>3
<1> QED
  BY <1>1, <1>2

(* applyMonitorView, for a read that ends with it: an old one changes      *)
(* nothing, after the newest one no other is the newest.                   *)
LEMMA ApplyKeeps ==
    ASSUME ViewInd, NEW s \in Page, NEW newest \in BOOLEAN, ApplyMonitorView(s, newest), NotAfter(s),
           newest /\ ~crossed => AtLeast(s, snapshot),
           newest => ~scheduled'.newest /\ \A j \in Slot : ~reads'[j].newest,
           UNCHANGED <<bridge, target, crossed>>, reads' \in [Slot -> Read], scheduled' \in Run,
           \A j \in Slot : reads'[j].newest => reads[j].newest,
           \A j \in Slot : reads'[j].page \in {reads[j].page, NoSnapshot},
           scheduled'.newest => scheduled.newest, scheduled'.page \in {scheduled.page, NoSnapshot}
    PROVE  ViewInd' /\ (~crossed => AtLeast(snapshot', snapshot))
<1>0. snapshot.epoch \in Nat /\ snapshot.rev \in Nat /\ target \in Nat
  BY DEF ViewInd, ViewTypes, Page
<1>1. CASE ~newest
  <2>1. UNCHANGED <<snapshot, revision, events>>
    BY <1>1 DEF ApplyMonitorView
  <2> QED
    BY <1>0, <2>1, ReadsEndKeeps DEF AtLeast
<1>2. CASE newest
  <2> USE DEF ViewInd, bridge
  <2>1. /\ snapshot' \in {s, snapshot} /\ revision' \in Nat
        /\ events' = <<>> \/ (events' = events /\ revision' >= revision)
    BY <1>2, SetSnapshotKeeps DEF ApplyMonitorView
  <2>2. events' \in Seq(Nat)
    BY <2>1, EmptySeq DEF ViewTypes
  <2>3. ViewTypes'
    BY <2>1, <2>2 DEF ViewTypes
  <2>4. EventsBehind' /\ EventsOnce'
    <3>1. CASE events' = <<>>
      BY <3>1, EmptySeq DEF EventsBehind, EventsOnce
    <3>2. CASE events' = events /\ revision' >= revision
      <4>1. \A i \in 1 .. Len(events) : events[i] \in Nat /\ events[i] <= revision
        BY ElementOfSeq DEF EventsBehind, ViewTypes
      <4> QED
        BY <2>1, <3>2, <4>1 DEF EventsBehind, EventsOnce, ViewTypes
    <3> QED
      BY <2>1, <3>1, <3>2
  <2>5. PastPages'
    <3>1. NotAfter(snapshot') /\ NotAfter(NoSnapshot)
      BY <2>1, Blank DEF PastPages, NotAfter, ViewTypes
    <3>2. NotAfter(scheduled'.page) /\ \A j \in Slot : NotAfter(reads'[j].page)
      BY <3>1 DEF PastPages
    <3> QED
      BY <3>1, <3>2 DEF PastPages, NotAfter
  <2>6. OneNewest' /\ NewestAhead'
    BY <1>2 DEF OneNewest, NewestAhead
  <2>7. ~crossed => AtLeast(snapshot', snapshot)
    BY <1>0, <1>2, <2>1 DEF AtLeast
  <2> QED
    BY <2>3, <2>4, <2>5, <2>6, <2>7
<1> QED
  BY <1>1, <1>2

LEMMA Freed ==
    ASSUME ViewInd, NEW i \in Slot, Free(i)
    PROVE  /\ reads' \in [Slot -> Read] /\ reads'[i] = NoRead
           /\ \A j \in Slot \ {i} : reads'[j] = reads[j]
           /\ \A j \in Slot : reads'[j].newest => reads[j].newest
           /\ \A j \in Slot : reads'[j].page \in {reads[j].page, NoSnapshot}
<1>1. /\ reads \in [Slot -> Read] /\ reads' = [reads EXCEPT ![i] = NoRead]
  BY DEF ViewInd, ViewTypes, Free
<1>2. reads' \in [Slot -> Read] /\ reads'[i] = NoRead /\ \A j \in Slot \ {i} : reads'[j] = reads[j]
  BY <1>1, Blank
<1> QED
  BY <1>2, Blank

LEMMA ReadAppliedKeeps ==
    ASSUME ViewInd, NEW i \in Slot, Free(i), reads[i].page # NoSnapshot,
           ApplyMonitorView(reads[i].page, reads[i].newest), UNCHANGED <<bridge, target, scheduled, crossed>>
    PROVE  ViewInd' /\ (~crossed => AtLeast(snapshot', snapshot))
<1>1. reads[i].page \in Page /\ reads[i].newest \in BOOLEAN /\ scheduled \in Run
  BY DEF ViewInd, ViewTypes, Read
<1>2. NotAfter(reads[i].page)
  BY DEF ViewInd, PastPages
<1>3. reads[i].newest /\ ~crossed => AtLeast(reads[i].page, snapshot)
  BY DEF ViewInd, NewestAhead
<1>4. reads[i].newest => ~scheduled.newest /\ \A j \in Slot : ~reads'[j].newest
  BY Freed, Blank DEF ViewInd, OneNewest
<1> QED
  BY <1>1, <1>2, <1>3, <1>4, Freed, ApplyKeeps

LEMMA ScheduledReadKeeps ==
    ASSUME ViewInd, ScheduledRead
    PROVE  ViewInd' /\ (~crossed => AtLeast(snapshot', snapshot))
<1>1. /\ reads \in [Slot -> Read] /\ scheduled \in Run /\ scheduled' = NoRun /\ scheduled' \in Run /\ target \in Nat
      /\ scheduled.page \in Page /\ scheduled.newest \in BOOLEAN /\ scheduled.page # NoSnapshot
      /\ snapshot.epoch \in Nat /\ snapshot.rev \in Nat
      /\ UNCHANGED <<bridge, reads, target, crossed>>
  BY Blank DEF ViewInd, ViewTypes, Run, Page, ScheduledRead
<1>2. ~scheduled'.newest /\ scheduled'.page = NoSnapshot
  BY <1>1, Blank
<1>3. CASE scheduled.live /\ scheduled.page.rev >= scheduled.want
  <2>1. ApplyMonitorView(scheduled.page, scheduled.newest)
    BY <1>3 DEF ScheduledRead
  <2>2. NotAfter(scheduled.page)
    BY DEF ViewInd, PastPages
  <2>3. scheduled.newest /\ ~crossed => AtLeast(scheduled.page, snapshot)
    BY <1>1 DEF ViewInd, NewestAhead
  <2>4. scheduled.newest => \A j \in Slot : ~reads[j].newest
    BY DEF ViewInd, OneNewest
  <2> QED
    BY <1>1, <1>2, <2>1, <2>2, <2>3, <2>4, ApplyKeeps
<1>4. CASE ~(scheduled.live /\ scheduled.page.rev >= scheduled.want)
  <2>1. UNCHANGED <<snapshot, revision, events>>
    BY <1>4 DEF ScheduledRead
  <2> QED
    BY <1>1, <1>2, <2>1, ReadsEndKeeps DEF AtLeast
<1> QED
  BY <1>3, <1>4

(* A new connection: no read is left that its snapshot could overtake,     *)
(* unless it is noted as crossed.                                          *)
LEMMA ConnectedKeeps == ASSUME ViewInd, NEW i \in Slot, Connected(i) PROVE ViewInd'
<1> USE DEF ViewInd, bridge
<1>1. /\ Free(i) /\ snapshot' = reads[i].page /\ revision' = reads[i].page.rev /\ events' = <<>>
      /\ reads[i].page \in Page
      /\ crossed' = (scheduled # NoRun \/ \E j \in Slot \ {i} : reads[j] # NoRead)
      /\ UNCHANGED <<bridge, target, scheduled>>
  BY DEF Connected, ViewTypes, Read
<1>2. ViewTypes'
  <2>1. events' \in Seq(Nat) /\ crossed' \in BOOLEAN /\ revision' \in Nat
    BY <1>1, EmptySeq DEF Page
  <2> QED
    BY <1>1, <2>1, Freed DEF ViewTypes
<1>3. EventsBehind' /\ EventsOnce'
  BY <1>1, EmptySeq DEF EventsBehind, EventsOnce
<1>4. PastPages'
  BY <1>1, Freed, Blank DEF PastPages, NotAfter, ViewTypes
<1>5. OneNewest'
  BY <1>1, Freed DEF OneNewest
<1>6. NewestAhead'
  <2> SUFFICES ASSUME ~crossed' PROVE ~scheduled'.newest /\ \A j \in Slot : ~reads'[j].newest
    BY DEF NewestAhead
  <2>1. scheduled' = NoRun /\ \A j \in Slot : reads'[j] = NoRead
    BY <1>1, Freed
  <2> QED
    BY <2>1, Blank
<1> QED
  BY <1>2, <1>3, <1>4, <1>5, <1>6

LEMMA OnNextKeeps == ASSUME ViewInd, OnNext PROVE ViewInd'
<1> USE DEF ViewInd, bridge
<1>1. /\ revision \in Nat /\ events \in Seq(Nat) /\ target \in Nat
      /\ events' = Append(events, revision + 1) /\ revision' = revision + 1 /\ target' \in Nat
      /\ UNCHANGED <<bridge, snapshot, reads, scheduled, crossed>>
  BY DEF OnNext, Request, ViewTypes
<1>2. /\ events' \in Seq(Nat) /\ Len(events') = Len(events) + 1 /\ Len(events) \in Nat
      /\ \A i \in 1 .. Len(events) : events'[i] = events[i] /\ events[i] \in Nat
      /\ events'[Len(events) + 1] = revision + 1
      /\ DOMAIN events' = 1 .. Len(events) + 1 /\ DOMAIN events = 1 .. Len(events)
  BY <1>1, AppendProperties, LenProperties, ElementOfSeq
<1>3. ViewTypes' /\ PastPages' /\ OneNewest' /\ NewestAhead'
  BY <1>1, <1>2 DEF ViewTypes, PastPages, NotAfter, OneNewest, NewestAhead
<1>4. \A i \in DOMAIN events' : (i \in 1 .. Len(events) /\ events'[i] = events[i])
                             \/ (i = Len(events) + 1 /\ events'[i] = revision + 1)
  BY <1>2
<1>5. \A i, j \in DOMAIN events' : i < j => i \in 1 .. Len(events)
  BY <1>2
<1>6. EventsBehind'
  BY <1>1, <1>2, <1>4 DEF EventsBehind
<1>7. EventsOnce'
  <2> SUFFICES ASSUME NEW i \in DOMAIN events', NEW j \in DOMAIN events', i < j
               PROVE  events'[i] < events'[j]
    BY DEF EventsOnce
  <2>1. i \in 1 .. Len(events) /\ events'[i] = events[i] /\ events[i] <= revision /\ events[i] \in Nat
    BY <1>2, <1>5 DEF EventsBehind
  <2>2. CASE j \in 1 .. Len(events)
    BY <1>2, <2>1, <2>2 DEF EventsOnce
  <2>3. CASE j = Len(events) + 1
    BY <1>1, <1>2, <2>1, <2>3
  <2> QED
    BY <1>4, <2>2, <2>3
<1> QED
  BY <1>3, <1>6, <1>7
-----------------------------------------------------------------------------
LEMMA DisconnectKeeps == ASSUME ViewInd, Disconnect PROVE ViewInd'
<1>1. \A j \in Slot : /\ reads'[j] \in Read /\ ~reads'[j].newest /\ reads'[j].page = reads[j].page
  BY DEF Disconnect, ViewInd, ViewTypes, Read
<1>2. reads' \in [Slot -> Read]
  BY <1>1 DEF Disconnect
<1>3. scheduled' \in Run /\ ~scheduled'.newest /\ scheduled'.page = scheduled.page
  BY DEF Disconnect, ResetScheduler, ViewInd, ViewTypes, Run
<1>4. target' \in Nat /\ crossed' = crossed /\ UNCHANGED <<bridge, snapshot, revision, events>>
  BY DEF Disconnect, ResetScheduler, bridge
<1> QED
  BY <1>1, <1>2, <1>3, <1>4, ReadsEndKeeps

LEMMA ReadFailsKeeps == ASSUME ViewInd, NEW i \in Slot, ReadFails(i) PROVE ViewInd'
<1>1. target' \in Nat /\ scheduled' \in Run /\ UNCHANGED <<bridge, snapshot, revision, events, scheduled, crossed>>
  BY DEF ReadFails, ViewInd, ViewTypes, bridge
<1>2. Free(i)
  BY DEF ReadFails
<1> QED
  BY <1>1, <1>2, Freed, ReadsEndKeeps

LEMMA ScheduledFailsKeeps == ASSUME ViewInd, ScheduledFails PROVE ViewInd'
<1>1. /\ target' \in Nat /\ reads' \in [Slot -> Read] /\ scheduled' = NoRun
      /\ UNCHANGED <<bridge, snapshot, revision, events, reads, crossed>>
  BY DEF ScheduledFails, ViewInd, ViewTypes, bridge
<1> QED
  BY <1>1, Blank, ReadsEndKeeps

LEMMA NewReadKeeps ==
    ASSUME ViewInd, NEW i \in Slot, Connect(i) \/ ReadGraph(i) \/ OnHandshake(i) \/ OnGap(i)
    PROVE  ViewInd'
<1>1. CASE Connect(i)
  BY <1>1, StartReadKeeps DEF Connect, bridge, store
<1>2. CASE ReadGraph(i)
  BY <1>2, StartReadKeeps DEF ReadGraph, bridge, store
<1>3. CASE OnGap(i)
  BY <1>3, StartReadKeeps DEF OnGap, Resync, bridge
<1>4. CASE OnHandshake(i)
  <2>1. CASE snapshot.epoch \in {0, Head(wire).at}
    BY <1>4, <2>1, BridgeKeeps DEF OnHandshake, bridge, ViewInd, ViewTypes
  <2>2. CASE snapshot.epoch \notin {0, Head(wire).at}
    BY <1>4, <2>2, StartReadKeeps DEF OnHandshake, Resync, bridge
  <2> QED
    BY <2>1, <2>2
<1> QED
  BY <1>1, <1>2, <1>3, <1>4

LEMMA OutsideKeeps ==
    ASSUME ViewInd,
           \/ \E announced \in BOOLEAN : Commit(announced)
           \/ Handover \/ OnOpen \/ OnDuplicate \/ SocketLost \/ StreamEnds \/ Reconnect
           \/ UNCHANGED vars
    PROVE  ViewInd' /\ snapshot' = snapshot
<1>1. /\ rev' \in Nat /\ rev' >= rev /\ epoch' \in Nat /\ epoch' >= epoch
      /\ UNCHANGED <<snapshot, revision, events, reads, target, scheduled, crossed>>
  BY DEF Commit, Handover, OnOpen, OnDuplicate, SocketLost, StreamEnds, Reconnect, Quiet, vars, bridge,
         store, ViewInd, ViewTypes
<1> QED
  BY <1>1, BridgeKeeps

LEMMA ViewStep == ViewInd /\ [Next]_vars => ViewInd'
<1> SUFFICES ASSUME ViewInd, [Next]_vars PROVE ViewInd'
  OBVIOUS
<1>1. ASSUME NEW i \in Slot, Resynced(i) \/ GraphRead(i) PROVE ViewInd'
  BY <1>1, ReadAppliedKeeps DEF Resynced, GraphRead, Arrived
<1> QED
  BY <1>1, OutsideKeeps, DisconnectKeeps, NewReadKeeps, AnswerKeeps, ConnectedKeeps, ReadFailsKeeps,
     RunScheduledKeeps, AnswerScheduledKeeps, ScheduledReadKeeps, ScheduledFailsKeeps, OnNextKeeps
     DEF Next, User, ReadProgress, SchedulerProgress, Handle

(* The inductive invariant holds in every reachable state. *)
THEOREM ViewInvariance == Spec => []ViewInd
<1> QED
  BY ViewInit, ViewStep, PTL DEF Spec

(* Every event is shown at most once and behind none that is later, for    *)
(* any interleaving of streams, snapshots and reconnects (applyEvent,      *)
(* setSnapshot).                                                           *)
THEOREM ShownOnce == Spec => []EventsOnce
<1>1. ViewInd => EventsOnce
  BY DEF ViewInd
<1> QED
  BY <1>1, ViewInvariance, PTL

(* A snapshot on the screen is replaced by one that is newer in runtime    *)
(* and revision, or by the read of a new connection (applyMonitorView,     *)
(* monitorReadSerial).                                                     *)
LEMMA SnapshotStep ==
    ASSUME ViewInd, [Next]_vars, snapshot' # snapshot
    PROVE  \/ snapshot'.rev >= snapshot.rev /\ snapshot'.epoch >= snapshot.epoch
           \/ crossed
           \/ \E i \in Slot : reads[i].op = "connect" /\ reads'[i] = NoRead
<1>1. CASE \E i \in Slot : Resynced(i) \/ GraphRead(i)
  BY <1>1, ReadAppliedKeeps DEF Resynced, GraphRead, Arrived, AtLeast
<1>2. CASE ScheduledRead
  BY <1>2, ScheduledReadKeeps DEF AtLeast
<1>3. CASE \E i \in Slot : Connected(i)
  BY <1>3, Freed DEF Connected, Arrived
<1>4. CASE Disconnect \/ RunScheduled \/ AnswerScheduled \/ ScheduledFails \/ OnNext
  BY <1>4 DEF Disconnect, RunScheduled, AnswerScheduled, ScheduledFails, OnNext, store
<1>5. CASE \E i \in Slot : \/ Connect(i) \/ ReadGraph(i) \/ Answer(i) \/ ReadFails(i)
                          \/ OnHandshake(i) \/ OnGap(i)
  BY <1>5 DEF Connect, ReadGraph, Answer, ReadFails, OnHandshake, OnGap, store
<1> QED
  BY <1>1, <1>2, <1>3, <1>4, <1>5, OutsideKeeps DEF Next, User, ReadProgress, SchedulerProgress, Handle

(* Reads overtake each other, but the graph never goes back (the serial of *)
(* applyMonitorView, setSnapshot's comparison).                            *)
THEOREM NeverBack == Spec => GraphNeverOlder
<1>1. ViewInd /\ [Next]_vars =>
        [snapshot' # snapshot /\ snapshot # NoSnapshot
           => \/ snapshot'.rev >= snapshot.rev /\ snapshot'.epoch >= snapshot.epoch
              \/ crossed
              \/ \E i \in Slot : reads[i].op = "connect" /\ reads'[i] = NoRead]_vars
  BY SnapshotStep
<1> QED
  BY <1>1, ViewInvariance, PTL DEF Spec, GraphNeverOlder

-----------------------------------------------------------------------------
(* Inspection: keys order the records of a section.                        *)

Record(r) ==
    /\ \A i \in 1 .. 3 : r.at[i] \in Int
    /\ r.score \in Int /\ r.size \in Nat

(* Two records of one section differ in their keys.                        *)
Keyed(rows) ==
    /\ IsFiniteSet(rows) /\ \A r \in rows : Record(r)
    /\ \A a, b \in rows : (\A i \in 1 .. 3 : a.at[i] = b.at[i]) => a = b

(* What is before in an order.                                             *)
LEMMA KeyCases ==
    ASSUME NEW a, NEW b, NEW order
    PROVE  KeyLess(a, b, order) <=>
             IF order = "activity" /\ a.score # b.score THEN a.score > b.score
             ELSE \/ a.at[1] < b.at[1]
                  \/ a.at[1] = b.at[1] /\ a.at[2] < b.at[2]
                  \/ a.at[1] = b.at[1] /\ a.at[2] = b.at[2] /\ a.at[3] < b.at[3]
<1>1. (\E i \in 1..3 : a.at[i] < b.at[i] /\ \A j \in 1..(i - 1) : a.at[j] = b.at[j]) <=>
        \/ a.at[1] < b.at[1]
        \/ a.at[1] = b.at[1] /\ a.at[2] < b.at[2]
        \/ a.at[1] = b.at[1] /\ a.at[2] = b.at[2] /\ a.at[3] < b.at[3]
  <2>1. 1..(1 - 1) = {} /\ 1..(2 - 1) = {1} /\ 1..(3 - 1) = {1, 2} /\ 1..3 = {1, 2, 3}
    OBVIOUS
  <2> QED
    BY <2>1, Zenon
<1> QED
  BY <1>1, Zenon DEF KeyLess

(* Records of one section are in a strict total order.                     *)
LEMMA KeyOrder ==
    ASSUME NEW order, NEW rows, Keyed(rows)
    PROVE  /\ \A a \in rows : ~KeyLess(a, a, order)
           /\ \A a, b, c \in rows : KeyLess(a, b, order) /\ KeyLess(b, c, order) => KeyLess(a, c, order)
           /\ \A a, b \in rows : a # b => KeyLess(a, b, order) \/ KeyLess(b, a, order)
<1>0. \A a \in rows : a.score \in Int /\ a.at[1] \in Int /\ a.at[2] \in Int /\ a.at[3] \in Int
  BY DEF Keyed, Record
<1>1. \A a \in rows : ~KeyLess(a, a, order)
  BY <1>0, KeyCases
<1>2. ASSUME NEW a \in rows, NEW b \in rows, NEW c \in rows, KeyLess(a, b, order), KeyLess(b, c, order)
      PROVE  KeyLess(a, c, order)
  BY <1>0, <1>2, KeyCases
<1>3. ASSUME NEW a \in rows, NEW b \in rows, a # b PROVE KeyLess(a, b, order) \/ KeyLess(b, a, order)
  <2>1. a.at[1] # b.at[1] \/ a.at[2] # b.at[2] \/ a.at[3] # b.at[3]
    <3>1. 1..3 = {1, 2, 3}
      OBVIOUS
    <3> QED
      BY <1>3, <3>1, Zenon DEF Keyed
  <2> QED
    BY <1>0, <2>1, KeyCases
<1> QED
  BY <1>1, <1>2, <1>3

(* So are some of them.                                                    *)
LEMMA PartKeyed == ASSUME NEW rows, Keyed(rows), NEW s \in SUBSET rows PROVE Keyed(s)
BY FS_Subset DEF Keyed

-----------------------------------------------------------------------------
(* A list of the records in their order.                                   *)

Sorted(f, n, rows, order) ==
    /\ f \in [1 .. n -> rows]
    /\ \A r \in rows : \E i \in 1 .. n : f[i] = r
    /\ \A i, j \in 1 .. n : i < j => KeyLess(f[i], f[j], order)

(* A record is put into a sorted list before the first that is not before  *)
(* it.                                                                     *)
LEMMA Inserted ==
    ASSUME NEW order, NEW rows, Keyed(rows), NEW x \in rows, NEW n \in Nat,
           NEW f, Sorted(f, n, rows \ {x}, order)
    PROVE  \E g : Sorted(g, n + 1, rows, order)
<1> DEFINE Fit == {i \in 1 .. n + 1 : i = n + 1 \/ KeyLess(x, f[i], order)}
<1>1. PICK k \in Fit : \A i \in Fit : k <= i
  <2>1. n + 1 \in Fit /\ Fit \subseteq Nat
    OBVIOUS
  <2> HIDE DEF Fit
  <2> QED
    BY <2>1, LeastOf
<1>2. k \in 1 .. n + 1
  OBVIOUS
<1>3. \A i \in 1 .. n : f[i] \in rows /\ f[i] # x
  BY DEF Sorted
<1>4. \A i \in 1 .. n : i < k => KeyLess(f[i], x, order)
  <2> SUFFICES ASSUME NEW i \in 1 .. n, i < k PROVE KeyLess(f[i], x, order)
    OBVIOUS
  <2>1. ~KeyLess(x, f[i], order)
    BY <1>1
  <2> QED
    BY <1>3, <2>1, KeyOrder
<1>5. \A i \in 1 .. n : i >= k => KeyLess(x, f[i], order)
  <2> SUFFICES ASSUME NEW i \in 1 .. n, i >= k PROVE KeyLess(x, f[i], order)
    OBVIOUS
  <2>1. k \in 1 .. n /\ KeyLess(x, f[k], order)
    BY <1>1, <1>2
  <2>2. CASE i = k
    BY <2>1, <2>2
  <2>3. CASE i > k
    <3>1. KeyLess(f[k], f[i], order)
      BY <2>1, <2>3 DEF Sorted
    <3> QED
      BY <1>3, <2>1, <3>1, KeyOrder
  <2> QED
    BY <1>2, <2>2, <2>3
<1> HIDE DEF Fit
<1> DEFINE g == [i \in 1 .. n + 1 |-> IF i < k THEN f[i] ELSE IF i = k THEN x ELSE f[i - 1]]
<1>6. g \in [1 .. n + 1 -> rows]
  BY <1>2, <1>3
<1>7. ASSUME NEW r \in rows PROVE \E i \in 1 .. n + 1 : g[i] = r
  <2>1. CASE r = x
    BY <1>2, <2>1
  <2>2. CASE r # x
    <3>1. PICK i \in 1 .. n : f[i] = r
      BY <2>2 DEF Sorted
    <3>2. CASE i < k
      BY <1>2, <3>1, <3>2
    <3>3. CASE i >= k
      <4>1. i + 1 \in 1 .. n + 1 /\ g[i + 1] = f[i]
        BY <1>2, <3>3
      <4> QED
        BY <3>1, <4>1
    <3> QED
      BY <1>2, <3>2, <3>3
  <2> QED
    BY <2>1, <2>2
<1>8. ASSUME NEW i \in 1 .. n + 1, NEW j \in 1 .. n + 1, i < j PROVE KeyLess(g[i], g[j], order)
  <2>0. \A a, b \in 1 .. n : a < b => KeyLess(f[a], f[b], order)
    BY DEF Sorted
  <2>1. CASE j < k
    <3>1. i \in 1 .. n /\ j \in 1 .. n /\ g[i] = f[i] /\ g[j] = f[j]
      BY <1>2, <1>8, <2>1
    <3> QED
      BY <1>8, <2>0, <3>1
  <2>2. CASE j = k
    <3>1. i \in 1 .. n /\ g[i] = f[i] /\ g[j] = x
      BY <1>2, <1>8, <2>2
    <3> QED
      BY <1>4, <1>8, <2>2, <3>1
  <2>3. CASE j > k /\ i = k
    <3>1. j - 1 \in 1 .. n /\ g[i] = x /\ g[j] = f[j - 1] /\ j - 1 >= k
      BY <1>2, <1>8, <2>3
    <3> QED
      BY <1>5, <3>1
  <2>4. CASE j > k /\ i < k
    <3>1. i \in 1 .. n /\ j - 1 \in 1 .. n /\ i < j - 1 /\ g[i] = f[i] /\ g[j] = f[j - 1]
      BY <1>2, <1>8, <2>4
    <3> QED
      BY <2>0, <3>1
  <2>5. CASE j > k /\ i > k
    <3>1. i - 1 \in 1 .. n /\ j - 1 \in 1 .. n /\ i - 1 < j - 1 /\ g[i] = f[i - 1] /\ g[j] = f[j - 1]
      BY <1>2, <1>8, <2>5
    <3> QED
      BY <2>0, <3>1
  <2> QED
    BY <1>2, <2>1, <2>2, <2>3, <2>4, <2>5
<1> HIDE DEF g
<1> QED
  BY <1>6, <1>7, <1>8 DEF Sorted

(* Records can be put in order.                                            *)
LEMMA SortedExists ==
    ASSUME NEW order, NEW rows, Keyed(rows)
    PROVE  \E f : Sorted(f, Cardinality(rows), rows, order)
<1> DEFINE T == {k \in Nat : \A s \in SUBSET rows :
                   Cardinality(s) = k => \E f : Sorted(f, k, s, order)}
<1>1. 0 \in T
  <2> SUFFICES ASSUME NEW s \in SUBSET rows, Cardinality(s) = 0 PROVE \E f : Sorted(f, 0, s, order)
    OBVIOUS
  <2>1. s = {}
    BY PartKeyed, FS_EmptySet DEF Keyed
  <2>2. Sorted([i \in 1 .. 0 |-> {}], 0, {}, order)
    BY DEF Sorted
  <2> QED
    BY <2>1, <2>2
<1>2. ASSUME NEW k \in Nat, k \in T PROVE k + 1 \in T
  <2> SUFFICES ASSUME NEW s \in SUBSET rows, Cardinality(s) = k + 1
               PROVE  \E f : Sorted(f, k + 1, s, order)
    OBVIOUS
  <2>1. Keyed(s) /\ IsFiniteSet(s)
    BY PartKeyed DEF Keyed
  <2>2. PICK x : x \in s
    BY <2>1, FS_EmptySet
  <2>3. Cardinality(s \ {x}) = k
    BY <2>1, <2>2, FS_RemoveElement
  <2>4. PICK f : Sorted(f, k, s \ {x}, order)
    BY <1>2, <2>3
  <2> QED
    BY <2>1, <2>2, <2>4, Inserted
<1>3. Nat \subseteq T
  <2> HIDE DEF T
  <2> QED BY <1>1, <1>2, Induction
<1>4. Cardinality(rows) \in Nat
  BY FS_CardinalityType DEF Keyed
<1> QED
  BY <1>3, <1>4

(* InOrder puts them in order.                                             *)
LEMMA InOrderSorted ==
    ASSUME NEW order, NEW rows, Keyed(rows)
    PROVE  /\ Cardinality(rows) \in Nat
           /\ Sorted(InOrder(rows, order), Cardinality(rows), rows, order)
<1> DEFINE n == Cardinality(rows)
           list == InOrder(rows, order)
<1>0. n \in Nat /\ IsFiniteSet(rows)
  BY FS_CardinalityType DEF Keyed
<1>1. PICK f : Sorted(f, n, rows, order)
  BY SortedExists
<1>2. f \in [1 .. n -> rows] /\ \A i, j \in DOMAIN f : i < j => KeyLess(f[i], f[j], order)
  BY <1>1 DEF Sorted
<1>3. list \in [1 .. n -> rows] /\ \A i, j \in DOMAIN list : i < j => KeyLess(list[i], list[j], order)
  BY <1>2, Zenon DEF InOrder
<1> HIDE DEF list
<1>4. \A i, j \in 1 .. n : i < j => KeyLess(list[i], list[j], order)
  BY <1>3
<1>5. \A i, j \in 1 .. n : list[i] = list[j] => i = j
  <2> SUFFICES ASSUME NEW i \in 1 .. n, NEW j \in 1 .. n, list[i] = list[j], i # j PROVE FALSE
    OBVIOUS
  <2>1. KeyLess(list[i], list[j], order) \/ KeyLess(list[j], list[i], order)
    BY <1>0, <1>4
  <2>2. list[i] \in rows /\ list[j] \in rows
    BY <1>3
  <2> QED
    BY <2>1, <2>2, KeyOrder
<1>6. list \in Injection(1 .. n, rows)
  BY <1>3, <1>5 DEF Injection, IsInjective
<1>7. Cardinality(1 .. n) = n
  BY <1>0, FS_Interval
<1>8. list \in Surjection(1 .. n, rows)
  BY <1>0, <1>6, <1>7, FS_Injection
<1> QED
  BY <1>0, <1>3, <1>4, <1>8 DEF Sorted, Surjection, list

(* What one list has at its place, another has there too.                  *)
LEMMA SortedPart ==
    ASSUME NEW order, NEW rows, Keyed(rows), NEW f, NEW n \in Nat, NEW g, NEW m \in Nat,
           Sorted(f, n, rows, order), Sorted(g, m, rows, order)
    PROVE  \A i \in 1 .. n : i <= m /\ g[i] = f[i]
<1> DEFINE T == {k \in Nat : \A i \in 1 .. n : i <= k => i <= m /\ g[i] = f[i]}
<1>0. /\ \A i \in 1 .. n : f[i] \in rows /\ \E j \in 1 .. m : g[j] = f[i]
      /\ \A i \in 1 .. m : g[i] \in rows /\ \E j \in 1 .. n : f[j] = g[i]
      /\ \A i, j \in 1 .. n : i < j => KeyLess(f[i], f[j], order)
      /\ \A i, j \in 1 .. m : i < j => KeyLess(g[i], g[j], order)
  BY DEF Sorted
<1>1. 0 \in T
  OBVIOUS
<1>2. ASSUME NEW k \in Nat, k \in T PROVE k + 1 \in T
  <2> SUFFICES ASSUME k + 1 \in 1 .. n PROVE k + 1 <= m /\ g[k + 1] = f[k + 1]
    BY <1>2
  <2>1. PICK j \in 1 .. m : g[j] = f[k + 1]
    BY <1>0
  <2>2. j >= k + 1
    <3> SUFFICES ASSUME j < k + 1 PROVE FALSE
      OBVIOUS
    <3>1. j \in 1 .. n /\ g[j] = f[j]
      BY <1>2
    <3>2. KeyLess(f[j], f[k + 1], order) /\ f[j] = f[k + 1] /\ f[j] \in rows
      BY <1>0, <2>1, <3>1
    <3> QED
      BY <3>2, KeyOrder
  <2>3. k + 1 \in 1 .. m
    BY <2>2
  <2>4. PICK l \in 1 .. n : f[l] = g[k + 1]
    BY <1>0, <2>3
  <2>5. l >= k + 1
    <3> SUFFICES ASSUME l < k + 1 PROVE FALSE
      OBVIOUS
    <3>1. l \in 1 .. m /\ g[l] = f[l]
      BY <1>2
    <3>2. KeyLess(g[l], g[k + 1], order) /\ g[l] = g[k + 1] /\ g[l] \in rows
      BY <1>0, <2>3, <2>4, <3>1
    <3> QED
      BY <3>2, KeyOrder
  <2>6. CASE j = k + 1
    BY <2>1, <2>3, <2>6
  <2>7. CASE j > k + 1
    <3>1. KeyLess(g[k + 1], g[j], order)
      BY <1>0, <2>3, <2>7
    <3>2. KeyLess(f[l], f[k + 1], order)
      BY <2>1, <2>4, <3>1
    <3>3. CASE l = k + 1
      BY <1>0, <3>2, <3>3, KeyOrder
    <3>4. CASE l > k + 1
      <4>1. KeyLess(f[k + 1], f[l], order)
        BY <1>0, <3>4
      <4> QED
        BY <1>0, <3>2, <4>1, KeyOrder
    <3> QED
      BY <2>5, <3>3, <3>4
  <2> QED
    BY <2>2, <2>6, <2>7
<1>3. Nat \subseteq T
  <2> HIDE DEF T
  <2> QED BY <1>1, <1>2, Induction
<1> QED
  BY <1>3

(* Records have one order.                                                 *)
LEMMA SortedOnce ==
    ASSUME NEW order, NEW rows, Keyed(rows), NEW f, NEW n \in Nat, NEW g, NEW m \in Nat,
           Sorted(f, n, rows, order), Sorted(g, m, rows, order)
    PROVE  n = m /\ f = g
<1>1. \A i \in 1 .. n : i <= m /\ g[i] = f[i]
  BY SortedPart
<1>2. \A i \in 1 .. m : i <= n
  BY SortedPart
<1>3. n <= m
  <2>1. CASE n = 0
    BY <2>1
  <2>2. CASE n # 0
    BY <1>1, <2>2
  <2> QED
    BY <2>1, <2>2
<1>4. m <= n
  <2>1. CASE m = 0
    BY <2>1
  <2>2. CASE m # 0
    BY <1>2, <2>2
  <2> QED
    BY <2>1, <2>2
<1>5. n = m
  BY <1>3, <1>4
<1>6. f \in [1 .. n -> rows] /\ g \in [1 .. n -> rows]
  BY <1>5 DEF Sorted
<1> QED
  BY <1>1, <1>5, <1>6

(* What is after the m-th record is the rest of the list.                  *)
LEMMA Following ==
    ASSUME NEW order, NEW rows, Keyed(rows), NEW m \in 1 .. Cardinality(rows)
    PROVE  LET list == InOrder(rows, order)
           IN  InOrder({r \in rows : KeyLess(list[m], r, order)}, order)
                 = SubSeq(list, m + 1, Len(list))
<1> DEFINE list == InOrder(rows, order)
           n == Cardinality(rows)
           rest == {r \in rows : KeyLess(list[m], r, order)}
           f == [i \in 1 .. n - m |-> list[i + m]]
<1>1. n \in Nat /\ Sorted(list, n, rows, order)
  BY InOrderSorted
<1>2. /\ list \in [1 .. n -> rows] /\ \A r \in rows : \E i \in 1 .. n : list[i] = r
      /\ \A i, j \in 1 .. n : i < j => KeyLess(list[i], list[j], order)
  BY <1>1 DEF Sorted
<1> HIDE DEF list, n
<1>3. Keyed(rest) /\ m \in Nat /\ m <= n /\ m >= 1
  BY <1>1, PartKeyed DEF n
<1>4. SubSeq(list, m + 1, Len(list)) = f
  <2>1. list \in Seq(rows) /\ Len(list) = n
    BY <1>1, <1>2
  <2>2. SubSeq(list, m + 1, n) = [i \in 1 .. n - (m + 1) + 1 |-> list[i + (m + 1) - 1]]
    BY <1>1, <1>3, <2>1
  <2>3. n - (m + 1) + 1 = n - m /\ \A i \in 1 .. n - m : i + (m + 1) - 1 = i + m
    BY <1>1, <1>3
  <2> QED
    BY <2>1, <2>2, <2>3
<1>5. \A i \in 1 .. n - m : i + m \in 1 .. n /\ i + m > m
  BY <1>1, <1>3
<1>6. Sorted(f, n - m, rest, order)
  <2>1. f \in [1 .. n - m -> rest]
    <3> SUFFICES ASSUME NEW i \in 1 .. n - m PROVE list[i + m] \in rest
      OBVIOUS
    <3>1. KeyLess(list[m], list[i + m], order) /\ list[i + m] \in rows
      BY <1>2, <1>3, <1>5
    <3> QED
      BY <3>1
  <2>2. ASSUME NEW r \in rest PROVE \E i \in 1 .. n - m : f[i] = r
    <3>1. PICK j \in 1 .. n : list[j] = r
      BY <1>2
    <3>2. KeyLess(list[m], list[j], order) /\ list[j] \in rows /\ list[m] \in rows
      BY <1>2, <1>3, <3>1
    <3>3. ~(j = m)
      BY <3>2, KeyOrder
    <3>4. ~(j < m)
      <4> SUFFICES ASSUME j < m PROVE FALSE
        OBVIOUS
      <4>1. KeyLess(list[j], list[m], order)
        BY <1>1, <1>2, <1>3
      <4> QED
        BY <3>2, <4>1, KeyOrder
    <3>5. j - m \in 1 .. n - m /\ (j - m) + m = j
      BY <1>1, <1>3, <3>3, <3>4
    <3> QED
      BY <3>1, <3>5
  <2>3. ASSUME NEW i \in 1 .. n - m, NEW j \in 1 .. n - m, i < j PROVE KeyLess(f[i], f[j], order)
    <3>1. i + m \in 1 .. n /\ j + m \in 1 .. n /\ i + m < j + m
      BY <1>3, <1>5, <2>3
    <3> QED
      BY <1>2, <3>1
  <2> HIDE DEF f, rest
  <2> QED
    BY <2>1, <2>2, <2>3 DEF Sorted
<1>7. Cardinality(rest) \in Nat /\ Sorted(InOrder(rest, order), Cardinality(rest), rest, order)
  BY <1>3, InOrderSorted
<1>8. n - m \in Nat
  BY <1>1, <1>3
<1> HIDE DEF f, rest
<1>9. InOrder(rest, order) = f
  BY <1>3, <1>6, <1>7, <1>8, SortedOnce
<1> QED
  BY <1>4, <1>9 DEF rest, list

-----------------------------------------------------------------------------
(* Pages.                                                                  *)

SummedBy(f, list) ==
    f = [s \in SUBSET DOMAIN list |->
            IF s = {} THEN -1 ELSE f[s \ {Max(s)}] + list[Max(s)].size + 1]

(* A page without records fits, and one record takes its own size.         *)
LEMMA FirstBytes ==
    ASSUME NEW list
    PROVE  /\ DOMAIN list = {} => Bytes(list) = -1
           /\ DOMAIN list = {1} /\ list[1].size \in Nat => Bytes(list) = list[1].size
<1> DEFINE it == CHOOSE f : SummedBy(f, list)
<1>1. Bytes(list) = it[DOMAIN list]
  BY Zenon DEF Bytes, FoldLeft, MapThenFoldSet, SummedBy
<1>2. ASSUME DOMAIN list = {} PROVE Bytes(list) = -1
  <2> DEFINE g == [s \in SUBSET DOMAIN list |-> -1]
  <2>1. SummedBy(g, list)
    BY <1>2 DEF SummedBy
  <2> HIDE DEF g
  <2>2. SummedBy(it, list)
    BY <2>1, Zenon
  <2>3. {} \in SUBSET DOMAIN list
    OBVIOUS
  <2> HIDE DEF it
  <2>4. it[{}] = -1
    BY <2>2, <2>3, Zenon DEF SummedBy
  <2> QED
    BY <1>1, <1>2, <2>4
<1>3. ASSUME DOMAIN list = {1}, list[1].size \in Nat PROVE Bytes(list) = list[1].size
  <2> DEFINE g == [s \in SUBSET DOMAIN list |-> IF s = {} THEN -1 ELSE list[1].size]
  <2>0. {} \in SUBSET DOMAIN list /\ {1} \in SUBSET DOMAIN list /\ {1} # {} /\ {1} \ {1} = {}
    BY <1>3
  <2>1. Max({1}) = 1
    <3>1. {1} \in SUBSET (1 .. 1) /\ {1} # {}
      OBVIOUS
    <3> QED
      BY <3>1, MaxIsIn
  <2>2. SummedBy(g, list)
    <3> SUFFICES ASSUME NEW s \in SUBSET DOMAIN list
                 PROVE  g[s] = IF s = {} THEN -1 ELSE g[s \ {Max(s)}] + list[Max(s)].size + 1
      BY Zenon DEF SummedBy
    <3>1. CASE s = {}
      BY <3>1
    <3>2. CASE s = {1}
      <4>1. g[s] = list[1].size /\ g[{}] = -1
        BY <2>0, <3>2
      <4>2. s \ {Max(s)} = {} /\ Max(s) = 1
        BY <2>0, <2>1, <3>2
      <4>3. g[s \ {Max(s)}] + list[Max(s)].size + 1 = -1 + list[1].size + 1
        BY <4>1, <4>2
      <4>4. -1 + list[1].size + 1 = list[1].size
        BY <1>3
      <4> HIDE DEF g
      <4> QED
        BY <2>0, <3>2, <4>1, <4>3, <4>4
    <3> QED
      BY <1>3, <3>1, <3>2
  <2> HIDE DEF g
  <2>3. SummedBy(it, list)
    BY <2>2, Zenon
  <2> HIDE DEF it
  <2>4. it[{}] = -1
    BY <2>0, <2>3, Zenon DEF SummedBy
  <2>5. it[{1}] = it[{1} \ {Max({1})}] + list[Max({1})].size + 1
    BY <2>0, <2>3, Zenon DEF SummedBy
  <2>6. it[{1}] = -1 + list[1].size + 1
    BY <2>0, <2>1, <2>4, <2>5
  <2> QED
    BY <1>1, <1>3, <2>6
<1> QED
  BY <1>2, <1>3

(* What is accepted fits, and is more than nothing unless the first record *)
(* is too large for any page.                                              *)
LEMMA AcceptedFits ==
    ASSUME NEW S, NEW keys \in Seq(S), \A i \in DOMAIN keys : keys[i].size \in Nat,
           NEW limit \in ILimit
    PROVE  LET n == Accepted(keys, limit) IN
           /\ n \in Nat /\ n <= Len(keys) /\ n <= limit
           /\ n = 0 /\ keys # <<>> => TooLarge(keys, n, limit)
<1> DEFINE n == Accepted(keys, limit)
           all == Fitting(keys, limit)
           room == {Len(keys) - i : i \in all}
<1>0. limit \in Nat /\ limit >= 1 /\ IBytes \in Nat /\ Len(keys) \in Nat
  BY IAssumption
<1>1. 0 \in all
  <2>1. SubSeq(keys, 1, 0) = <<>>
    OBVIOUS
  <2>2. DOMAIN SubSeq(keys, 1, 0) = {}
    OBVIOUS
  <2>3. Bytes(SubSeq(keys, 1, 0)) = -1
    BY <2>2, FirstBytes
  <2> QED
    BY <1>0, <2>3 DEF Fitting
<1>2. all \subseteq 0 .. Len(keys)
  BY DEF Fitting
<1> HIDE DEF all
<1>3. room \subseteq Nat /\ room # {}
  BY <1>0, <1>1, <1>2
<1>4. PICK least \in room : \A x \in room : least <= x
  <2> HIDE DEF room
  <2> QED
    BY <1>3, LeastOf
<1>5. PICK top \in all : least = Len(keys) - top
  BY <1>4
<1>6. \A m \in all : m <= top
  <2> SUFFICES ASSUME NEW m \in all PROVE m <= top
    OBVIOUS
  <2>1. Len(keys) - m \in room /\ m \in Int /\ top \in Int
    BY <1>2
  <2>2. least <= Len(keys) - m
    BY <1>4, <2>1
  <2> QED
    BY <1>0, <1>5, <2>1, <2>2
<1>7. n \in all /\ \A m \in all : m <= n
  BY <1>6, Zenon DEF Accepted, all
<1> HIDE DEF n
<1>8. ASSUME n = 0, keys # <<>> PROVE TooLarge(keys, n, limit)
  <2>1. 1 \in DOMAIN keys /\ Len(keys) >= 1
    BY <1>8
  <2>2. SubSeq(keys, 1, 1) = [i \in {1} |-> keys[1]]
    <3>1. SubSeq(keys, 1, 1) = [i \in 1 .. 1 |-> keys[i]]
      BY <1>0, <2>1
    <3>2. 1 .. 1 = {1}
      OBVIOUS
    <3> QED
      BY <3>1, <3>2
  <2>3. Bytes(SubSeq(keys, 1, 1)) = keys[1].size
    <3>1. DOMAIN SubSeq(keys, 1, 1) = {1} /\ SubSeq(keys, 1, 1)[1] = keys[1]
      BY <2>2
    <3> QED
      BY <2>1, <3>1, FirstBytes
  <2>4. 1 \notin all
    BY <1>7, <1>8
  <2>5. keys[1].size \in Nat /\ ~(keys[1].size <= IBytes)
    BY <1>0, <2>1, <2>3, <2>4 DEF all, Fitting
  <2>6. n + 1 = 1 /\ n < Len(keys) /\ n < limit
    BY <1>0, <1>8, <2>1
  <2> QED
    BY <1>0, <2>5, <2>6 DEF TooLarge
<1>9. n \in Nat /\ n <= Len(keys) /\ n <= limit
  BY <1>0, <1>7 DEF all, Fitting
<1> QED
  BY <1>8, <1>9 DEF n

(* The records of a section have keys of their own.                        *)
LEMMA RowsKeyed == ASSUME NEW brain \in IGraph, NEW section PROVE Keyed(Rows(brain, section))
<1>0. /\ IsFiniteSet(DOMAIN brain.units) /\ DOMAIN brain.units \subseteq Nat
      /\ \A u \in DOMAIN brain.units : brain.units[u].score \in Int /\ brain.units[u].size \in Nat
      /\ IsFiniteSet(brain.edges)
      /\ \A e \in brain.edges : e.source \in Nat /\ e.target \in Nat /\ e.ordinal \in Nat
      /\ \A e, d \in brain.edges :
            e.source = d.source /\ e.target = d.target /\ e.ordinal = d.ordinal => e = d
  BY IAssumption
<1>1. CASE section = "neural_units"
  <2> DEFINE f == [u \in DOMAIN brain.units |->
                      Row(u, 0, 0, brain.units[u].score, brain.units[u].size)]
             rows == {Row(u, 0, 0, brain.units[u].score, brain.units[u].size) : u \in DOMAIN brain.units}
  <2>1. Rows(brain, section) = rows
    BY <1>1, Zenon DEF Rows
  <2>2. f \in Surjection(DOMAIN brain.units, rows)
    BY DEF Surjection
  <2>3. IsFiniteSet(rows)
    <3> HIDE DEF f, rows
    <3> QED
      BY <1>0, <2>2, FS_Surjection
  <2>4. \A r \in rows : Record(r)
    BY <1>0 DEF Record, Row
  <2>5. \A a, b \in rows : (\A i \in 1 .. 3 : a.at[i] = b.at[i]) => a = b
    BY DEF Row
  <2> QED
    BY <2>1, <2>3, <2>4, <2>5, Zenon DEF Keyed
<1>2. CASE section # "neural_units"
  <2> DEFINE f == [e \in brain.edges |-> Row(e.source, e.target, e.ordinal, 0, 1)]
             rows == {Row(e.source, e.target, e.ordinal, 0, 1) : e \in brain.edges}
  <2>1. Rows(brain, section) = rows
    BY <1>2, Zenon DEF Rows
  <2>2. f \in Surjection(brain.edges, rows)
    BY DEF Surjection
  <2>3. IsFiniteSet(rows)
    <3> HIDE DEF f, rows
    <3> QED
      BY <1>0, <2>2, FS_Surjection
  <2>4. \A r \in rows : Record(r)
    BY <1>0 DEF Record, Row
  <2>5. \A a, b \in rows : (\A i \in 1 .. 3 : a.at[i] = b.at[i]) => a = b
    BY DEF Row
  <2> QED
    BY <2>1, <2>3, <2>4, <2>5, Zenon DEF Keyed
<1> QED
  BY <1>1, <1>2

-----------------------------------------------------------------------------
(* A page continues a list after its m-th record.                          *)

List(s) == \E S : s \in Seq(S)
Runtime == [brain |-> iBrain, rev |-> iRev, epoch |-> iEpoch, epochs |-> iEpochs]

(* A cursor after the n-th record: as long as the runtime is the one that  *)
(* gave it out and is at its revision, the list is what there is to show.  *)
Known(c, whole, n, run) ==
    /\ n \in 1 .. Len(whole) /\ c.key = whole[n]
    /\ c.epoch \in 1 .. run.epochs
    /\ c.epoch = run.epoch => c.rev <= run.rev
    /\ c.epoch = run.epoch /\ c.rev = run.rev =>
          whole = InOrder(Rows(run.brain, c.section), c.order)
    /\ c.rev \in Nat

Continues(answer, whole, m, run) ==
    \E n \in Nat :
        /\ m + n <= Len(whole) /\ answer.items = SubSeq(whole, m + 1, m + n)
        /\ answer.next = <<>> => m + n = Len(whole)
        /\ answer.next # <<>> => Known(answer.next[1], whole, m + n, run)

(* The list is a sequence of records.                                      *)
LEMMA InOrderList ==
    ASSUME NEW rows, Keyed(rows), NEW order, NEW W, W = InOrder(rows, order)
    PROVE  /\ W \in Seq(rows) /\ Len(W) = Cardinality(rows) /\ Len(W) \in Nat
           /\ \A i \in 1 .. Len(W) : W[i].size \in Nat
<1>1. Cardinality(rows) \in Nat /\ W \in [1 .. Cardinality(rows) -> rows]
  BY InOrderSorted DEF Sorted
<1>2. W \in Seq(rows) /\ Len(W) = Cardinality(rows)
  BY <1>1
<1>3. \A i \in 1 .. Len(W) : W[i].size \in Nat
  BY <1>1, <1>2 DEF Keyed, Record
<1> QED
  BY <1>1, <1>2, <1>3

(* A page starts at the beginning of the list or after its m-th record.    *)
Start(key, m, W) == (key = <<>> /\ m = 0) \/ (m >= 1 /\ key = <<W[m]>>)
After(rows, key, order) == {r \in rows : key = <<>> \/ KeyLess(key[1], r, order)}

(* What a page starts from: the rest of the list after its key.            *)
LEMMA AfterKey ==
    ASSUME NEW rows, Keyed(rows), NEW order, NEW m \in Nat, NEW key,
           NEW W, W = InOrder(rows, order), m <= Len(W),
           Start(key, m, W)
    PROVE  InOrder(After(rows, key, order), order) = SubSeq(W, m + 1, Len(W))
<1> DEFINE rest == After(rows, key, order)
<1>1. W = InOrder(rows, order)
  OBVIOUS
<1>2. Cardinality(rows) \in Nat /\ W \in [1 .. Cardinality(rows) -> rows]
  BY <1>1, InOrderSorted DEF Sorted
<1>3. W \in Seq(rows) /\ Len(W) = Cardinality(rows)
  BY <1>2
<1>4. CASE key = <<>> /\ m = 0
  <2>1. rest = rows
    BY <1>4, Zenon DEF After
  <2>2. W = SubSeq(W, 1, Len(W))
    BY <1>3
  <2>3. m + 1 = 1
    BY <1>4
  <2> QED
    BY <1>1, <2>1, <2>2, <2>3, Zenon
<1>5. CASE m >= 1 /\ key = <<W[m]>>
  <2>1. key # <<>> /\ key[1] = W[m]
    BY <1>5
  <2>2. rest = {r \in rows : KeyLess(W[m], r, order)}
    BY <2>1, Zenon DEF After
  <2>3. m \in 1 .. Cardinality(rows)
    BY <1>1, <1>2, <1>3, <1>5
  <2>4. InOrder({r \in rows : KeyLess(W[m], r, order)}, order) = SubSeq(W, m + 1, Len(W))
    BY <1>1, <2>3, Following, Zenon
  <2> QED
    BY <1>1, <2>2, <2>4, Zenon
<1> QED
  BY <1>1, <1>4, <1>5, Zenon DEF Start

(* The first limit + 1 records of what is left, and the part of them that  *)
(* is accepted.                                                            *)
LEMMA Slices ==
    ASSUME NEW S, NEW W \in Seq(S), NEW m \in Nat, m <= Len(W), NEW later,
           later = SubSeq(W, m + 1, Len(W)), NEW limit \in Nat, NEW keys,
           keys = SubSeq(later, 1, IF Len(later) > limit THEN limit + 1 ELSE Len(later))
    PROVE  /\ keys \in Seq(S) /\ m + Len(keys) <= Len(W)
           /\ Len(keys) = limit + 1 \/ m + Len(keys) = Len(W)
           /\ \A i \in 1 .. Len(keys) : keys[i] = W[m + i]
           /\ \A n \in Nat : n <= Len(keys) => SubSeq(keys, 1, n) = SubSeq(W, m + 1, m + n)
<1> DEFINE rest == Len(W) - m
<1>1. rest \in Nat
  OBVIOUS
<1>2. later = [i \in 1 .. rest |-> W[m + i]]
  OBVIOUS
<1>3. \A i \in 1 .. rest : W[m + i] \in S
  OBVIOUS
<1>4. later \in Seq(S) /\ Len(later) = rest
  <2> HIDE DEF rest
  <2> QED
    BY <1>1, <1>2, <1>3
<1>5. PICK k \in Nat : /\ k <= rest /\ (k = limit + 1 \/ k = rest) /\ keys = SubSeq(later, 1, k)
  <2>1. CASE Len(later) > limit
    <3>1. limit + 1 \in Nat /\ limit + 1 <= rest /\ keys = SubSeq(later, 1, limit + 1)
      BY <1>1, <1>4, <2>1
    <3> QED
      BY <3>1
  <2>2. CASE ~(Len(later) > limit)
    <3>1. rest <= rest /\ keys = SubSeq(later, 1, rest)
      BY <1>1, <1>4, <2>2
    <3> QED
      BY <1>1, <3>1
  <2> QED
    BY <2>1, <2>2
<1>6. keys = [i \in 1 .. k |-> later[i]]
  BY <1>4, <1>5
<1>7. \A i \in 1 .. k : later[i] \in S /\ later[i] = W[m + i]
  BY <1>1, <1>2, <1>3, <1>5
<1>8. keys \in Seq(S) /\ Len(keys) = k /\ \A i \in 1 .. k : keys[i] = W[m + i]
  BY <1>6, <1>7
<1>9. ASSUME NEW n \in Nat, n <= k PROVE SubSeq(keys, 1, n) = SubSeq(W, m + 1, m + n)
  <2>1. SubSeq(keys, 1, n) = [i \in 1 .. n |-> keys[i]]
    BY <1>8, <1>9
  <2>2. SubSeq(W, m + 1, m + n) = [i \in 1 .. n |-> W[m + i]]
    BY <1>1, <1>5, <1>9
  <2>3. \A i \in 1 .. n : keys[i] = W[m + i]
    BY <1>8, <1>9
  <2> QED
    BY <2>1, <2>2, <2>3
<1>10. m + k <= Len(W) /\ (k = rest => m + k = Len(W))
  BY <1>1, <1>5
<1>11. Len(keys) = limit + 1 \/ m + Len(keys) = Len(W)
  BY <1>5, <1>8, <1>10
<1>12. \A n \in Nat : n <= Len(keys) => SubSeq(keys, 1, n) = SubSeq(W, m + 1, m + n)
  BY <1>8, <1>9
<1> HIDE DEF rest
<1> QED
  BY <1>8, <1>10, <1>11, <1>12

(* A page that is no refusal continues the list after its key, and its     *)
(* cursor continues from where it ends.                                    *)
LEMMA Paging ==
    ASSUME NEW drawn, NEW ask, NEW key, NEW m \in Nat, NEW W, NEW answer, NEW run,
           iBrain \in IGraph, iRev \in Nat, ask.limit \in ILimit,
           W = InOrder(Rows(iBrain, ask.section), ask.order), m <= Len(W),
           Start(key, m, W),
           answer = ReadInspectionPage(drawn, ask, key), answer.status = 200,
           run.brain = iBrain, run.rev = iRev, run.epoch = drawn, drawn \in 1 .. run.epochs
    PROVE  /\ Continues(answer, W, m, run)
           /\ ask.cursor = <<>> => answer.whole = W
<1>1. PICK limit \in ILimit : limit = ask.limit
  BY Zenon
<1>2. limit \in Nat
  <2>1. ILimit \subseteq Nat \ {0}
    BY IAssumption, Zenon
  <2> QED
    BY <2>1, Zenon
<1>3. PICK rows : rows = Rows(iBrain, ask.section)
  OBVIOUS
<1>4. Keyed(rows)
  BY <1>3, RowsKeyed, ZenonT(40)
<1>3a. PICK order : order = ask.order
  OBVIOUS
<1>4a. W = InOrder(rows, order)
  BY <1>3, <1>3a, Zenon
<1>5. W \in Seq(rows) /\ Len(W) \in Nat /\ \A i \in 1 .. Len(W) : W[i].size \in Nat
  BY <1>4, <1>4a, InOrderList
<1>6. PICK later : later = InOrder(After(rows, key, order), order)
  OBVIOUS
<1>7. later = SubSeq(W, m + 1, Len(W))
  BY <1>4, <1>6, <1>4a, AfterKey
<1>8. PICK keys : keys = SubSeq(later, 1, IF Len(later) > limit THEN limit + 1 ELSE Len(later))
  OBVIOUS
<1>9. Selected(rows, ask.order, limit, key) = keys
  BY <1>6, <1>8, <1>3a, Zenon DEF Selected, After
<1>10. /\ keys \in Seq(rows) /\ m + Len(keys) <= Len(W)
       /\ Len(keys) = limit + 1 \/ m + Len(keys) = Len(W)
       /\ \A i \in 1 .. Len(keys) : keys[i] = W[m + i]
       /\ \A n \in Nat : n <= Len(keys) => SubSeq(keys, 1, n) = SubSeq(W, m + 1, m + n)
  BY <1>2, <1>5, <1>7, <1>8, Slices, SMTT(40)
<1>11. PICK a : a = Accepted(keys, limit)
  OBVIOUS
<1>12. a \in Nat /\ a <= Len(keys) /\ a <= limit /\ (a = 0 /\ keys # <<>> => TooLarge(keys, a, limit))
  <2>1. \A i \in DOMAIN keys : keys[i].size \in Nat
    <3>1. \A i \in 1 .. Len(keys) : m + i \in 1 .. Len(W)
      BY <1>5, <1>10
    <3>2. DOMAIN keys = 1 .. Len(keys)
      BY <1>10
    <3> SUFFICES ASSUME NEW i \in 1 .. Len(keys) PROVE keys[i].size \in Nat
      BY <3>2, Zenon
    <3>3. keys[i] = W[m + i]
      BY <1>10, Zenon
    <3>4. W[m + i].size \in Nat
      BY <1>5, <3>1, Zenon
    <3> QED
      BY <3>3, <3>4, Zenon
  <2> QED
    BY <1>10, <1>11, <2>1, AcceptedFits, Zenon
<1>13. answer = PageOf(keys, a, limit, drawn, ask, W)
  BY <1>1, <1>3, <1>9, <1>11, Zenon DEF ReadInspectionPage
<1>14. ~TooLarge(keys, a, limit)
  <2>1. Refused(413).status = 413
    BY DEF Refused, NoAnswer
  <2> SUFFICES ASSUME TooLarge(keys, a, limit) PROVE FALSE
    BY Zenon
  <2>2. answer = Refused(413)
    BY <1>13, Zenon DEF PageOf
  <2>3. answer.status = 413
    BY <2>1, <2>2, Zenon
  <2> QED
    BY <2>3
<1> DEFINE next == [epoch |-> drawn, rev |-> iRev, section |-> ask.section,
                    order |-> ask.order, key |-> keys[a]]
<1>15. answer = [status |-> 200, items |-> SubSeq(keys, 1, a),
                 next |-> IF a < Len(keys) THEN <<next>> ELSE <<>>,
                 whole |-> IF ask.cursor = <<>> THEN W ELSE <<>>]
  BY <1>13, <1>14, Zenon DEF PageOf
<1> HIDE DEF next
<1>16. /\ answer.items = SubSeq(keys, 1, a)
       /\ answer.next = IF a < Len(keys) THEN <<next>> ELSE <<>>
       /\ ask.cursor = <<>> => answer.whole = W
  <2> DEFINE onward == IF a < Len(keys) THEN <<next>> ELSE <<>>
             whole == IF ask.cursor = <<>> THEN W ELSE <<>>
             items == SubSeq(keys, 1, a)
  <2>1. answer = [status |-> 200, items |-> items, next |-> onward, whole |-> whole]
    BY <1>15, Zenon
  <2>2. ask.cursor = <<>> => whole = W
    BY Zenon
  <2> HIDE DEF items, onward, whole
  <2>3. answer.items = items /\ answer.next = onward /\ answer.whole = whole
    BY <2>1
  <2> QED
    BY <2>2, <2>3, Zenon DEF items, onward
<1>17. answer.items = SubSeq(W, m + 1, m + a)
  BY <1>10, <1>12, <1>16, Zenon
<1>18. m + a <= Len(W) /\ Len(keys) \in Nat
  BY <1>5, <1>10, <1>12
<1>19. answer.next = <<>> => m + a = Len(W)
  <2>1. answer.next = <<>> => ~(a < Len(keys))
    <3>1. <<next>> # <<>>
      OBVIOUS
    <3> QED
      BY <1>16, <3>1, Zenon
  <2> QED
    BY <1>2, <1>5, <1>10, <1>12, <1>18, <2>1
<1>20. ASSUME answer.next # <<>> PROVE Known(answer.next[1], W, m + a, run)
  <2>1. a < Len(keys) /\ answer.next[1] = next
    <3>1. <<next>>[1] = next
      OBVIOUS
    <3> QED
      BY <1>16, <1>20, <3>1, Zenon
  <2>2. a # 0
    <3>1. keys # <<>>
      BY <1>12, <2>1
    <3> QED
      BY <1>12, <1>14, <3>1, Zenon
  <2>3. a \in 1 .. Len(keys) /\ m + a \in 1 .. Len(W)
    <3>1. a \in Nat /\ a <= Len(keys) /\ Len(keys) \in Nat /\ Len(W) \in Nat /\ m + a <= Len(W) /\ m \in Nat
      BY <1>5, <1>12, <1>18, Zenon
    <3> QED
      BY <2>2, <3>1, SMTT(30)
  <2>4. /\ next.epoch = drawn /\ next.rev = iRev /\ next.section = ask.section
        /\ next.order = ask.order /\ next.key = W[m + a]
    BY <1>10, <2>3, Zenon DEF next
  <2>5. W = InOrder(Rows(run.brain, next.section), next.order)
    BY <2>4, Zenon
  <2>6. next.rev <= run.rev
    BY <2>4
  <2> QED
    BY <2>1, <2>3, <2>4, <2>5, <2>6, Zenon DEF Known
<1> QED
  BY <1>12, <1>16, <1>17, <1>18, <1>19, <1>20, Zenon DEF Continues

-----------------------------------------------------------------------------
(* The panel and the runtime.                                              *)

RuntimeSound(run) ==
    /\ run.brain \in IGraph /\ run.rev \in Nat /\ run.epoch \in Nat /\ run.epochs \in Nat
    /\ run.epoch <= run.epochs

(* What is shown is the beginning of the list, and continues after it.     *)
Shown(page, view, run) ==
    /\ List(view.whole) /\ Len(view.got) \in Nat /\ Len(view.got) <= Len(view.whole)
    /\ view.got = SubSeq(view.whole, 1, Len(view.got))
    /\ view.ended => Len(view.got) = Len(view.whole)
    /\ page.next # <<>> => Known(page.next[1], view.whole, Len(view.got), run)

(* The answer that would be shown starts a list or continues the one shown.*)
Coming(ask, view, run) ==
    /\ DOMAIN ask = {"first", "order", "newest", "answer"}
    /\ ask.newest /\ ask.answer.status = 200 =>
          /\ ask.first => List(ask.answer.whole) /\ Continues(ask.answer, ask.answer.whole, 0, run)
          /\ ~ask.first => Continues(ask.answer, view.whole, Len(view.got), run)

OneNewer(asked) ==
    \A i, j \in DOMAIN asked : asked[i].newest /\ asked[j].newest => i = j

Sound(run, page, asked, view) ==
    /\ Shown(page, view, run)
    /\ List(asked) /\ OneNewer(asked)
    /\ \A i \in DOMAIN asked : Coming(asked[i], view, run)

PanelInd == RuntimeSound(Runtime) /\ Sound(Runtime, iPage, iAsked, iView)

(* A runtime goes on: it stays as it is, commits, or takes an drawn nobody *)
(* has seen, or none.                                                      *)
GoesOn(run, later) ==
    /\ RuntimeSound(run) /\ RuntimeSound(later)
    /\ run.epochs <= later.epochs
    /\ \/ later.epoch = run.epoch /\ run.rev < later.rev
       \/ later.epoch = run.epoch /\ run.rev = later.rev /\ run.brain = later.brain
       \/ later.epoch \notin 1 .. run.epochs

(* A cursor stays good or becomes one that is refused.                     *)
LEMMA KnownStays ==
    ASSUME NEW run, NEW later, GoesOn(run, later), NEW c, NEW whole, NEW n, Known(c, whole, n, run)
    PROVE  Known(c, whole, n, later)
<1>1. c.epoch \in 1 .. later.epochs
  BY DEF GoesOn, RuntimeSound, Known
<1>2. c.epoch = later.epoch => c.rev <= later.rev
  BY DEF GoesOn, RuntimeSound, Known
<1>3. ASSUME c.epoch = later.epoch, c.rev = later.rev
      PROVE  whole = InOrder(Rows(later.brain, c.section), c.order)
  <2>1. later.epoch = run.epoch
    BY <1>3 DEF GoesOn, Known
  <2>2. c.rev <= run.rev
    BY <1>3, <2>1 DEF Known
  <2>3. run.rev = later.rev /\ run.brain = later.brain
    BY <1>3, <2>2 DEF GoesOn, RuntimeSound, Known
  <2> QED
    BY <1>3, <2>1, <2>3, Zenon DEF Known
<1> QED
  BY <1>1, <1>2, <1>3, Zenon DEF Known

(* So does the cursor of an answer.                                        *)
LEMMA ContinuesStays ==
    ASSUME NEW run, NEW later, GoesOn(run, later), NEW answer, NEW whole, NEW m,
           Continues(answer, whole, m, run)
    PROVE  Continues(answer, whole, m, later)
BY KnownStays, Zenon DEF Continues

(* What the runtime does on its own leaves the panel as good as it was.    *)
LEMMA SoundStays ==
    ASSUME NEW run, NEW later, GoesOn(run, later), NEW page, NEW asked, NEW view,
           Sound(run, page, asked, view)
    PROVE  Sound(later, page, asked, view)
<1>1. Shown(page, view, later)
  BY KnownStays, Zenon DEF Sound, Shown
<1>2. ASSUME NEW i \in DOMAIN asked PROVE Coming(asked[i], view, later)
  <2>1. PICK ask : ask = asked[i]
    OBVIOUS
  <2>2. Coming(ask, view, run)
    BY <2>1, Zenon DEF Sound
  <2>3. ASSUME NEW whole, NEW m, Continues(ask.answer, whole, m, run)
        PROVE  Continues(ask.answer, whole, m, later)
    BY <2>3, ContinuesStays
  <2>4. Coming(ask, view, later)
    BY <2>2, <2>3 DEF Coming
  <2> QED
    BY <2>1, <2>4, Zenon
<1> QED
  BY <1>1, <1>2, Zenon DEF Sound

(* What is left of a sequence without one of its elements.                 *)
LEMMA Removed ==
    ASSUME NEW asked, List(asked), NEW i \in DOMAIN asked
    PROVE  /\ List(RemoveAt(asked, i))
           /\ \E old \in [DOMAIN RemoveAt(asked, i) -> DOMAIN asked \ {i}] :
                /\ \A j \in DOMAIN RemoveAt(asked, i) : RemoveAt(asked, i)[j] = asked[old[j]]
                /\ \A j, k \in DOMAIN RemoveAt(asked, i) : old[j] = old[k] => j = k
<1>1. PICK S : asked \in Seq(S)
  BY DEF List
<1> DEFINE n == Len(asked)
           old == [j \in 1 .. n - 1 |-> IF j < i THEN j ELSE j + 1]
           s == RemoveAt(asked, i)
<1>2. n \in Nat /\ i \in 1 .. n /\ DOMAIN asked = 1 .. n
  BY <1>1
<1>3. SubSeq(asked, 1, i - 1) = [j \in 1 .. i - 1 |-> asked[j]]
  BY <1>1, <1>2
<1>4. SubSeq(asked, i + 1, n) = [j \in 1 .. n - i |-> asked[i + j]]
  BY <1>1, <1>2
<1>5. SubSeq(asked, 1, i - 1) \in Seq(S) /\ SubSeq(asked, i + 1, n) \in Seq(S)
  BY <1>1, <1>2
<1>6. Len(SubSeq(asked, 1, i - 1)) = i - 1 /\ Len(SubSeq(asked, i + 1, n)) = n - i
  BY <1>2, <1>3, <1>4
<1>7. s \in Seq(S) /\ Len(s) = n - 1
  <2>1. PICK p, q : p = SubSeq(asked, 1, i - 1) /\ q = SubSeq(asked, i + 1, n)
    OBVIOUS
  <2>2. p \o q \in Seq(S) /\ Len(p \o q) = Len(p) + Len(q)
    BY <1>5, <2>1
  <2>3. Len(p) + Len(q) = n - 1
    <3>1. (i - 1) + (n - i) = n - 1
      BY <1>2
    <3> QED
      BY <1>6, <2>1, <3>1
  <2> QED
    BY <2>1, <2>2, <2>3, Zenon DEF RemoveAt
<1>8. \A j \in 1 .. n - 1 : s[j] = asked[IF j < i THEN j ELSE j + 1]
  <2> SUFFICES ASSUME NEW j \in 1 .. n - 1 PROVE s[j] = asked[IF j < i THEN j ELSE j + 1]
    OBVIOUS
  <2>1. CASE j < i
    BY <1>2, <1>3, <1>5, <1>6, <2>1 DEF RemoveAt
  <2>2. CASE ~(j < i)
    <3>1. j - (i - 1) \in 1 .. n - i /\ i + (j - (i - 1)) = j + 1
      BY <1>2, <2>2
    <3>2. s[j] = SubSeq(asked, i + 1, n)[j - (i - 1)]
      BY <1>2, <1>5, <1>6, <2>2, SMTT(40) DEF RemoveAt
    <3> QED
      BY <1>4, <2>2, <3>1, <3>2
  <2> QED
    BY <2>1, <2>2
<1>9. DOMAIN s = 1 .. n - 1
  BY <1>2, <1>7
<1>10. old \in [1 .. n - 1 -> (1 .. n) \ {i}]
  BY <1>2
<1>11. \A j, k \in 1 .. n - 1 : old[j] = old[k] => j = k
  BY <1>2
<1>12. \A j \in 1 .. n - 1 : s[j] = asked[old[j]]
  BY <1>8
<1>13. List(s)
  BY <1>7 DEF List
<1> HIDE DEF s, old, n
<1> QED
  BY <1>2, <1>9, <1>10, <1>11, <1>12, <1>13, Zenon DEF s

(* An answer leaves; if it was the newest, none is.                        *)
LEMMA Answers ==
    ASSUME NEW run, NEW page, NEW asked, NEW view, NEW i \in DOMAIN asked,
           Sound(run, page, asked, view)
    PROVE  /\ List(RemoveAt(asked, i)) /\ OneNewer(RemoveAt(asked, i))
           /\ \A j \in DOMAIN RemoveAt(asked, i) : Coming(RemoveAt(asked, i)[j], view, run)
           /\ asked[i].newest => \A j \in DOMAIN RemoveAt(asked, i) : ~RemoveAt(asked, i)[j].newest
<1>0. List(asked) /\ OneNewer(asked) /\ \A j \in DOMAIN asked : Coming(asked[j], view, run)
  BY DEF Sound
<1>1. PICK s : s = RemoveAt(asked, i)
  OBVIOUS
<1>2. List(s)
  BY <1>0, <1>1, Removed
<1>3. PICK old \in [DOMAIN s -> DOMAIN asked \ {i}] :
           /\ \A j \in DOMAIN s : s[j] = asked[old[j]]
           /\ \A j, k \in DOMAIN s : old[j] = old[k] => j = k
  BY <1>0, <1>1, Removed
<1>4. \A j \in DOMAIN s : old[j] \in DOMAIN asked /\ old[j] # i
  BY <1>3
<1>5. OneNewer(s)
  BY <1>0, <1>3, <1>4, Zenon DEF OneNewer
<1>6. \A j \in DOMAIN s : Coming(s[j], view, run)
  BY <1>0, <1>3, <1>4, Zenon
<1>7. asked[i].newest => \A j \in DOMAIN s : ~s[j].newest
  BY <1>0, <1>3, <1>4, Zenon DEF OneNewer
<1> QED
  BY <1>1, <1>2, <1>5, <1>6, <1>7, Zenon

-----------------------------------------------------------------------------
(* The steps.                                                              *)

LEMMA PanelInit == IInit => PanelInd
<1> SUFFICES ASSUME IInit PROVE PanelInd
  OBVIOUS
<1>1. RuntimeSound(Runtime)
  BY DEF IInit, RuntimeSound, Runtime
<1>2. List(<<>>)
  BY EmptySeq DEF List
<1>3. Shown(iPage, iView, Runtime)
  <2>1. iPage.next = <<>> /\ iView.whole = <<>> /\ iView.got = <<>> /\ iView.ended = FALSE
    BY DEF IInit, NoPage, NoView
  <2>2. Len(<<>>) = 0 /\ <<>> = SubSeq(<<>>, 1, 0)
    OBVIOUS
  <2> QED
    BY <1>2, <2>1, <2>2 DEF Shown
<1>4. iAsked = <<>> /\ DOMAIN iAsked = {}
  BY DEF IInit
<1>5. Sound(Runtime, iPage, iAsked, iView)
  BY <1>2, <1>3, <1>4, Zenon DEF Sound, OneNewer
<1> QED
  BY <1>1, <1>5 DEF PanelInd

(* Commits, restored checkpoints and replaced runtimes.                    *)
LEMMA RuntimeSteps ==
    ASSUME PanelInd, NEW brain \in IGraph,
           ICommit(brain) \/ \E at \in 0 .. MaxIRev : IRestore(brain, at)
    PROVE  PanelInd'
<1>1. PICK later : later = Runtime'
  OBVIOUS
<1>2. GoesOn(Runtime, later)
  <2>1. CASE ICommit(brain)
    <3>1. /\ later.brain = brain /\ later.rev = iRev + 1 /\ later.epoch = iEpoch
          /\ later.epochs = iEpochs
      BY <1>1, <2>1 DEF ICommit, Runtime
    <3> QED
      BY <3>1 DEF PanelInd, RuntimeSound, Runtime, GoesOn
  <2>2. ASSUME NEW at \in 0 .. MaxIRev, IRestore(brain, at) PROVE GoesOn(Runtime, later)
    <3>1. /\ later.brain = brain /\ later.rev = at /\ later.epoch = 0
          /\ later.epochs = iEpochs
      BY <1>1, <2>2 DEF IRestore, Runtime
    <3>2. at \in Nat
      BY IAssumption
    <3> QED
      BY <3>1, <3>2 DEF PanelInd, RuntimeSound, Runtime, GoesOn
  <2> QED
    BY <2>1, <2>2
<1>3. iPage' = iPage /\ iAsked' = iAsked /\ iView' = iView
  BY DEF ICommit, IRestore, iPanel
<1>4. Sound(later, iPage, iAsked, iView)
  BY <1>2, SoundStays, Zenon DEF PanelInd
<1>5. RuntimeSound(later)
  BY <1>2 DEF GoesOn
<1> QED
  BY <1>1, <1>3, <1>4, <1>5, Zenon DEF PanelInd

(* Whatever is asked, the runtime may draw an drawn for it.                *)
LEMMA Drawn ==
    ASSUME PanelInd, NEW drawn, drawn = IF iEpoch = 0 THEN iEpochs + 1 ELSE iEpoch,
           NEW later, later = [brain |-> iBrain, rev |-> iRev, epoch |-> drawn,
                               epochs |-> IF iEpoch = 0 THEN drawn ELSE iEpochs]
    PROVE  GoesOn(Runtime, later) /\ drawn \in 1 .. later.epochs
<1>1. /\ later.brain = iBrain /\ later.rev = iRev /\ later.epoch = drawn
      /\ later.epochs = IF iEpoch = 0 THEN drawn ELSE iEpochs
  OBVIOUS
<1>2. /\ iBrain \in IGraph /\ iRev \in Nat /\ iEpoch \in Nat /\ iEpochs \in Nat /\ iEpoch <= iEpochs
      /\ Runtime.brain = iBrain /\ Runtime.rev = iRev /\ Runtime.epoch = iEpoch /\ Runtime.epochs = iEpochs
  BY DEF PanelInd, RuntimeSound, Runtime
<1> QED
  BY <1>1, <1>2 DEF GoesOn, RuntimeSound

(* An answer that is not a refusal is a page: the first, or the one after  *)
(* a cursor of this section, order, revision and lifetime.                 *)
LEMMA Answering ==
    ASSUME NEW drawn, NEW ask, NEW answer, answer = MonitorInspectionPage(drawn, ask),
           answer.status = 200
    PROVE  /\ ask.cursor = <<>> => answer = ReadInspectionPage(drawn, ask, <<>>)
           /\ ask.cursor # <<>> =>
                /\ answer = ReadInspectionPage(drawn, ask, <<ask.cursor[1].key>>)
                /\ SameSection(ask.cursor[1], ask) /\ SameView(ask.cursor[1], drawn)
<1>1. Refused(400).status = 400 /\ Refused(409).status = 409
  BY DEF Refused, NoAnswer
<1>2. answer # Refused(400) /\ answer # Refused(409)
  BY <1>1
<1>3. CASE ask.cursor = <<>>
  BY <1>3, Zenon DEF MonitorInspectionPage
<1>4. CASE ask.cursor # <<>>
  <2>1. PICK c : c = ask.cursor[1]
    OBVIOUS
  <2>2. answer = IF ~SameSection(c, ask) THEN Refused(400)
                 ELSE IF ~SameView(c, drawn) THEN Refused(409)
                 ELSE ReadInspectionPage(drawn, ask, <<c.key>>)
    BY <1>4, <2>1 DEF MonitorInspectionPage
  <2> QED
    BY <1>2, <1>4, <2>1, <2>2
<1> QED
  BY <1>3, <1>4, Zenon

(* The answer to the request made now.                                     *)
LEMMA AnswerComes ==
    ASSUME PanelInd, NEW drawn, drawn = IF iEpoch = 0 THEN iEpochs + 1 ELSE iEpoch,
           NEW later, later = [brain |-> iBrain, rev |-> iRev, epoch |-> drawn,
                               epochs |-> IF iEpoch = 0 THEN drawn ELSE iEpochs],
           NEW ask, ask.limit \in ILimit,
           ask.cursor = <<>> \/ (ask.cursor = iPage.next /\ iPage.next # <<>>),
           NEW answer, answer = MonitorInspectionPage(drawn, ask), answer.status = 200
    PROVE  /\ ask.cursor = <<>> => List(answer.whole) /\ Continues(answer, answer.whole, 0, later)
           /\ ask.cursor # <<>> => Continues(answer, iView.whole, Len(iView.got), later)
<1>0. /\ iBrain \in IGraph /\ iRev \in Nat /\ iEpoch \in Nat /\ iEpochs \in Nat /\ iEpoch <= iEpochs
      /\ Runtime.brain = iBrain /\ Runtime.rev = iRev /\ Runtime.epoch = iEpoch /\ Runtime.epochs = iEpochs
  BY DEF PanelInd, RuntimeSound, Runtime
<1>1. /\ later.brain = iBrain /\ later.rev = iRev /\ later.epoch = drawn
  OBVIOUS
<1>2. drawn \in 1 .. later.epochs
  BY Drawn
<1>3. PICK rows : rows = Rows(iBrain, ask.section)
  OBVIOUS
<1>4. PICK W : W = InOrder(rows, ask.order)
  OBVIOUS
<1>5. W \in Seq(rows) /\ Len(W) \in Nat
  BY <1>0, <1>3, <1>4, RowsKeyed, InOrderList
<1>6. W = InOrder(Rows(iBrain, ask.section), ask.order)
  BY <1>3, <1>4, Zenon
<1>7. ASSUME ask.cursor = <<>>
      PROVE  List(answer.whole) /\ Continues(answer, answer.whole, 0, later)
  <2>1. answer = ReadInspectionPage(drawn, ask, <<>>)
    BY <1>7, Zenon DEF MonitorInspectionPage
  <2>2. Start(<<>>, 0, W) /\ 0 <= Len(W)
    BY <1>5 DEF Start
  <2>3. 0 \in Nat
    OBVIOUS
  <2>4. Continues(answer, W, 0, later) /\ answer.whole = W
    BY <1>0, <1>1, <1>2, <1>6, <1>7, <2>1, <2>2, <2>3, Paging
  <2> QED
    BY <1>5, <2>4, Zenon DEF List
<1>8. ASSUME ask.cursor # <<>> PROVE Continues(answer, iView.whole, Len(iView.got), later)
  <2>1. PICK c : c = ask.cursor[1]
    OBVIOUS
  <2>2. PICK m : m = Len(iView.got)
    OBVIOUS
  <2>3. Known(c, iView.whole, m, Runtime)
    BY <1>8, <2>1, <2>2, Zenon DEF PanelInd, Sound, Shown
  <2>4. /\ answer = ReadInspectionPage(drawn, ask, <<c.key>>)
        /\ SameSection(c, ask) /\ SameView(c, drawn)
    BY <1>8, <2>1, Answering
  <2>5. c.section = ask.section /\ c.order = ask.order /\ c.epoch = drawn /\ c.rev = iRev
    BY <2>4, Zenon DEF SameSection, SameView
  <2>6. drawn = iEpoch
    <3>1. c.epoch \in 1 .. iEpochs
      BY <1>0, <2>3, Zenon DEF Known
    <3> QED
      BY <1>0, <2>5, <3>1
  <2>7. iView.whole = W
    <3>1. c.epoch = Runtime.epoch /\ c.rev = Runtime.rev
      BY <1>0, <2>5, <2>6, Zenon
    <3>2. iView.whole = InOrder(Rows(Runtime.brain, c.section), c.order)
      BY <2>3, <3>1, Zenon DEF Known
    <3> QED
      BY <1>0, <1>6, <2>5, <3>2, Zenon
  <2>8. m \in 1 .. Len(W) /\ c.key = W[m]
    BY <2>3, <2>7, Zenon DEF Known
  <2>9. m \in Nat /\ m <= Len(W) /\ Start(<<c.key>>, m, W)
    BY <1>5, <2>8 DEF Start
  <2>10. Continues(answer, W, m, later)
    BY <1>0, <1>1, <1>2, <1>6, <2>4, <2>9, Paging
  <2> QED
    BY <2>2, <2>7, <2>10, Zenon
<1> QED
  BY <1>7, <1>8

(* A request makes what was asked before it older.                         *)
LEMMA Asks ==
    ASSUME PanelInd, NEW order, NEW limit \in ILimit, NEW cursor,
           cursor = <<>> \/ (cursor = iPage.next /\ iPage.next # <<>>),
           Ask(order, limit, cursor)
    PROVE  PanelInd'
<1>1. PICK drawn : drawn = IF iEpoch = 0 THEN iEpochs + 1 ELSE iEpoch
  OBVIOUS
<1>2. PICK ask : ask = [section |-> iSection, order |-> order, limit |-> limit, cursor |-> cursor]
  OBVIOUS
<1>3. PICK answer : answer = MonitorInspectionPage(drawn, ask)
  OBVIOUS
<1>4. PICK new : new = [first |-> cursor = <<>>, order |-> order, newest |-> TRUE, answer |-> answer]
  OBVIOUS
<1>5. PICK old : old = [i \in DOMAIN iAsked |-> [iAsked[i] EXCEPT !.newest = FALSE]]
  OBVIOUS
<1>6. PICK later : later = [brain |-> iBrain, rev |-> iRev, epoch |-> drawn,
                            epochs |-> IF iEpoch = 0 THEN drawn ELSE iEpochs]
  OBVIOUS
<1>7. /\ iAsked' = Append(old, new) /\ iEpoch' = drawn
      /\ iEpochs' = (IF iEpoch = 0 THEN drawn ELSE iEpochs)
      /\ iBrain' = iBrain /\ iRev' = iRev /\ iPage' = iPage /\ iView' = iView
  BY <1>1, <1>2, <1>3, <1>4, <1>5, Zenon DEF Ask
<1>8. Runtime' = later
  BY <1>6, <1>7, Zenon DEF Runtime
<1>9. GoesOn(Runtime, later)
  BY <1>1, <1>6, Drawn, Zenon
<1>10. Sound(later, iPage, iAsked, iView)
  BY <1>9, SoundStays, Zenon DEF PanelInd
<1>11. PICK n \in Nat : DOMAIN iAsked = 1 .. n
  <2>1. List(iAsked)
    BY Zenon DEF PanelInd, Sound
  <2> QED
    BY <2>1 DEF List
<1>12. \A i \in 1 .. n : Coming(iAsked[i], iView, later)
  BY <1>10, <1>11, Zenon DEF Sound
<1>13. ASSUME NEW i \in 1 .. n PROVE ~old[i].newest /\ Coming(old[i], iView, later)
  <2>1. DOMAIN iAsked[i] = {"first", "order", "newest", "answer"}
    BY <1>12, Zenon DEF Coming
  <2>2. old[i] = [iAsked[i] EXCEPT !.newest = FALSE]
    BY <1>5, <1>11
  <2>3. DOMAIN old[i] = {"first", "order", "newest", "answer"} /\ old[i].newest = FALSE
    BY <2>1, <2>2
  <2> QED
    BY <2>3 DEF Coming
<1>14. /\ DOMAIN new = {"first", "order", "newest", "answer"} /\ new.first = (cursor = <<>>)
       /\ new.answer = answer /\ new.newest = TRUE
  BY <1>4
<1>15. Coming(new, iView, later)
  <2>1. ask.limit = limit /\ ask.cursor = cursor
    BY <1>2
  <2>2. ASSUME answer.status = 200
        PROVE  /\ cursor = <<>> => List(answer.whole) /\ Continues(answer, answer.whole, 0, later)
               /\ cursor # <<>> => Continues(answer, iView.whole, Len(iView.got), later)
    BY <1>1, <1>3, <1>6, <2>1, <2>2, AnswerComes
  <2> QED
    BY <1>14, <2>2 DEF Coming
<1>16. old \in Seq({old[i] : i \in 1 .. n}) /\ Len(old) = n
  BY <1>5, <1>11
<1>17. /\ List(iAsked') /\ DOMAIN iAsked' = 1 .. n + 1
       /\ \A i \in 1 .. n : iAsked'[i] = old[i]
       /\ iAsked'[n + 1] = new
  <2> DEFINE S == {old[i] : i \in 1 .. n} \cup {new}
  <2>1. old \in Seq(S) /\ new \in S
    BY <1>16
  <2> HIDE DEF S
  <2>2. Append(old, new) \in Seq(S) /\ Len(Append(old, new)) = n + 1
    BY <1>16, <2>1
  <2>3. Append(old, new)[n + 1] = new /\ \A i \in 1 .. n : Append(old, new)[i] = old[i]
    BY <1>16, <2>1
  <2> QED
    BY <1>7, <2>2, <2>3 DEF List
<1>18. \A i \in DOMAIN iAsked' : i = n + 1 \/ i \in 1 .. n
  BY <1>17
<1>19. \A i \in DOMAIN iAsked' : Coming(iAsked'[i], iView, later)
  BY <1>13, <1>15, <1>17, <1>18, Zenon
<1>20. \A i, j \in DOMAIN iAsked' : iAsked'[i].newest /\ iAsked'[j].newest => i = j
  BY <1>13, <1>17, <1>18, Zenon
<1>21. RuntimeSound(later)
  BY <1>9 DEF GoesOn
<1>22. Sound(Runtime', iPage', iAsked', iView')
  BY <1>7, <1>8, <1>10, <1>17, <1>19, <1>20, Zenon DEF Sound, OneNewer
<1>23. RuntimeSound(Runtime')
  BY <1>8, <1>21, Zenon
<1> QED
  BY <1>22, <1>23, Zenon DEF PanelInd

(* An older answer is dropped.                                             *)
LEMMA DropsOlder == ASSUME PanelInd, NEW i \in DOMAIN iAsked, DropOlder(i) PROVE PanelInd'
<1>1. PICK s : s = RemoveAt(iAsked, i)
  OBVIOUS
<1>2. iAsked' = s /\ iPage' = iPage /\ iView' = iView /\ Runtime' = Runtime
  BY <1>1 DEF DropOlder, Answered, iRuntime, Runtime
<1>3. List(s) /\ OneNewer(s) /\ \A j \in DOMAIN s : Coming(s[j], iView, Runtime)
  BY <1>1, Answers DEF PanelInd
<1>4. Shown(iPage, iView, Runtime) /\ RuntimeSound(Runtime)
  BY DEF PanelInd, Sound
<1> QED
  BY <1>2, <1>3, <1>4, Zenon DEF PanelInd, Sound

(* What is left behind the newest answer is older, and will not be shown.  *)
LEMMA NewestLeaves ==
    ASSUME PanelInd, NEW i \in DOMAIN iAsked, iAsked[i].newest, NEW page, NEW view,
           Shown(page, view, Runtime)
    PROVE  Sound(Runtime, page, RemoveAt(iAsked, i), view)
<1>1. PICK s : s = RemoveAt(iAsked, i)
  OBVIOUS
<1>2. /\ List(s) /\ OneNewer(s) /\ \A j \in DOMAIN s : Coming(s[j], iView, Runtime)
      /\ \A j \in DOMAIN s : ~s[j].newest
  BY <1>1, Answers DEF PanelInd
<1>3. ASSUME NEW j \in DOMAIN s PROVE Coming(s[j], view, Runtime)
  BY <1>2, Zenon DEF Coming
<1> QED
  BY <1>1, <1>2, <1>3, Zenon DEF Sound

(* An error clears what is shown.                                          *)
LEMMA ShowsError == ASSUME PanelInd, NEW i \in DOMAIN iAsked, ShowError(i) PROVE PanelInd'
<1>1. iAsked' = RemoveAt(iAsked, i) /\ iPage' = NoPage /\ iView' = NoView /\ Runtime' = Runtime
  BY DEF ShowError, Answered, iRuntime, Runtime
<1>2. Shown(NoPage, NoView, Runtime)
  <2>1. NoPage.next = <<>> /\ NoView.whole = <<>> /\ NoView.got = <<>> /\ NoView.ended = FALSE
    BY DEF NoPage, NoView
  <2>2. Len(<<>>) = 0 /\ <<>> = SubSeq(<<>>, 1, 0) /\ List(<<>>)
    BY EmptySeq DEF List
  <2> QED
    BY <2>1, <2>2 DEF Shown
<1>3. Sound(Runtime, NoPage, RemoveAt(iAsked, i), NoView)
  BY <1>2, NewestLeaves DEF ShowError
<1> QED
  BY <1>1, <1>3, Zenon DEF PanelInd

(* A page is put after what is shown.                                      *)
LEMMA PageShown ==
    ASSUME NEW answer, NEW whole, List(whole), NEW got, Len(got) \in Nat, Len(got) <= Len(whole),
           got = SubSeq(whole, 1, Len(got)), NEW run, Continues(answer, whole, Len(got), run),
           NEW order
    PROVE  Shown([next |-> answer.next, order |-> order],
                 [whole |-> whole, got |-> got \o answer.items, ended |-> answer.next = <<>>], run)
<1>1. PICK n \in Nat : /\ Len(got) + n <= Len(whole)
                       /\ answer.items = SubSeq(whole, Len(got) + 1, Len(got) + n)
                       /\ answer.next = <<>> => Len(got) + n = Len(whole)
                       /\ answer.next # <<>> => Known(answer.next[1], whole, Len(got) + n, run)
  BY DEF Continues
<1>2. PICK S : whole \in Seq(S)
  BY DEF List
<1>3. PICK m \in Nat : m = Len(got)
  OBVIOUS
<1>4. PICK items : items = answer.items
  OBVIOUS
<1>5. PICK all : all = got \o items
  OBVIOUS
<1>6. Len(all) = m + n /\ all = SubSeq(whole, 1, m + n)
  <2>1. got \in Seq(S) /\ \A i \in 1 .. m : got[i] = whole[i]
    <3>1. got = SubSeq(whole, 1, m) /\ m <= Len(whole)
      BY <1>3
    <3>2. SubSeq(whole, 1, m) = [i \in 1 .. m |-> whole[i]] /\ SubSeq(whole, 1, m) \in Seq(S)
      BY <1>2, <3>1
    <3> QED
      BY <3>1, <3>2, Zenon
  <2>2. items = [i \in 1 .. n |-> whole[m + i]]
    BY <1>1, <1>2, <1>3, <1>4
  <2>3. \A i \in 1 .. n : whole[m + i] \in S
    BY <1>1, <1>2, <1>3
  <2>4. items \in Seq(S) /\ Len(items) = n
    BY <2>2, <2>3
  <2>5. all \in Seq(S) /\ Len(all) = m + n
    <3>1. Len(got \o items) = Len(got) + Len(items) /\ got \o items \in Seq(S)
      BY <2>1, <2>4
    <3> QED
      BY <1>3, <1>5, <2>4, <3>1
  <2>6. ASSUME NEW i \in 1 .. m + n PROVE all[i] = whole[i]
    <3>1. CASE i <= m
      BY <1>3, <1>5, <2>1, <2>4, <3>1
    <3>2. CASE i > m
      <4>1. all[i] = items[i - m] /\ i - m \in 1 .. n
        BY <1>3, <1>5, <2>1, <2>4, <3>2
      <4>2. m + (i - m) = i
        BY <1>3
      <4> QED
        BY <2>2, <4>1, <4>2
    <3> QED
      BY <1>3, <3>1, <3>2
  <2>7. SubSeq(whole, 1, m + n) = [i \in 1 .. m + n |-> whole[i]]
    BY <1>1, <1>2, <1>3
  <2>8. all = [i \in 1 .. m + n |-> all[i]]
    BY <2>5
  <2> QED
    BY <2>5, <2>6, <2>7, <2>8
<1> DEFINE page == [next |-> answer.next, order |-> order]
           view == [whole |-> whole, got |-> got \o answer.items, ended |-> answer.next = <<>>]
<1>7. page.next = answer.next /\ view.whole = whole /\ view.got = all /\ view.ended = (answer.next = <<>>)
  BY <1>4, <1>5
<1> HIDE DEF page, view
<1>8. m + n \in Nat /\ m + n <= Len(whole)
  BY <1>1, <1>3
<1>9. Shown(page, view, run)
  BY <1>1, <1>3, <1>6, <1>7, <1>8 DEF Shown
<1> QED
  BY <1>9 DEF page, view

(* A page starts what is shown, or is put after it.                        *)
LEMMA ShowsPage == ASSUME PanelInd, NEW i \in DOMAIN iAsked, ShowPage(i) PROVE PanelInd'
<1>1. PICK ask : ask = iAsked[i]
  OBVIOUS
<1>2. PICK answer : answer = ask.answer
  OBVIOUS
<1>3. PICK whole, got : /\ whole = (IF ask.first THEN answer.whole ELSE iView.whole)
                        /\ got = (IF ask.first THEN <<>> ELSE iView.got)
  OBVIOUS
<1>4. PICK page, view :
        /\ page = [next |-> answer.next, order |-> ask.order]
        /\ view = [whole |-> whole, got |-> got \o answer.items, ended |-> answer.next = <<>>]
  OBVIOUS
<1>5. /\ iAsked' = RemoveAt(iAsked, i) /\ iPage' = page /\ iView' = view /\ Runtime' = Runtime
      /\ answer.status = 200 /\ ask.newest
  BY <1>1, <1>2, <1>3, <1>4 DEF ShowPage, Answered, iRuntime, Runtime
<1>6. Coming(ask, iView, Runtime) /\ Shown(iPage, iView, Runtime)
  BY <1>1, Zenon DEF PanelInd, Sound
<1>7. /\ List(whole) /\ Len(got) \in Nat /\ Len(got) <= Len(whole) /\ got = SubSeq(whole, 1, Len(got))
      /\ Continues(answer, whole, Len(got), Runtime)
  <2>1. CASE ask.first
    <3>1. whole = answer.whole /\ got = <<>>
      BY <1>3, <2>1
    <3>2. List(whole) /\ Continues(answer, whole, 0, Runtime)
      BY <1>2, <1>5, <1>6, <2>1, <3>1 DEF Coming
    <3>3. Len(got) = 0 /\ got = SubSeq(whole, 1, 0) /\ Len(whole) \in Nat
      BY <3>1, <3>2 DEF List
    <3> QED
      BY <3>2, <3>3
  <2>2. CASE ~ask.first
    <3>1. whole = iView.whole /\ got = iView.got
      BY <1>3, <2>2
    <3>2. Continues(answer, whole, Len(got), Runtime)
      BY <1>2, <1>5, <1>6, <2>2, <3>1 DEF Coming
    <3> QED
      BY <1>6, <3>1, <3>2, Zenon DEF Shown
  <2> QED
    BY <2>1, <2>2
<1>8. Shown(page, view, Runtime)
  BY <1>4, <1>7, PageShown
<1>9. Sound(Runtime, page, RemoveAt(iAsked, i), view)
  BY <1>1, <1>5, <1>8, NewestLeaves, Zenon
<1>10. RuntimeSound(Runtime)
  BY DEF PanelInd
<1> QED
  BY <1>5, <1>9, <1>10, Zenon DEF PanelInd

(* Every step.                                                             *)
LEMMA PanelStep == PanelInd /\ [INext]_iVars => PanelInd'
<1> SUFFICES ASSUME PanelInd, [INext]_iVars PROVE PanelInd'
  OBVIOUS
<1>1. ASSUME NEW brain \in IGraph, ICommit(brain) PROVE PanelInd'
  BY <1>1, RuntimeSteps
<1>2. ASSUME NEW brain \in IGraph, NEW at \in 0 .. MaxIRev, IRestore(brain, at) PROVE PanelInd'
  BY <1>2, RuntimeSteps
<1>3. ASSUME NEW section \in ISection, SelectSection(section) PROVE PanelInd'
  <2>1. Runtime' = Runtime /\ iPage' = iPage /\ iAsked' = iAsked /\ iView' = iView
    BY <1>3 DEF SelectSection, iRuntime, Runtime
  <2> QED
    BY <2>1, Zenon DEF PanelInd
<1>4. ASSUME NEW order \in {"id", "activity"}, NEW limit \in ILimit, LoadInspector(order, limit)
      PROVE  PanelInd'
  BY <1>4, Asks DEF LoadInspector
<1>5. ASSUME NEW limit \in ILimit, NextInspector(limit) PROVE PanelInd'
  BY <1>5, Asks DEF NextInspector
<1>6. ASSUME NEW i \in DOMAIN iAsked, DropOlder(i) \/ ShowPage(i) \/ ShowError(i) PROVE PanelInd'
  BY <1>6, DropsOlder, ShowsPage, ShowsError
<1>7. CASE UNCHANGED iVars
  <2>1. Runtime' = Runtime /\ iPage' = iPage /\ iAsked' = iAsked /\ iView' = iView
    BY <1>7 DEF iVars, Runtime
  <2> QED
    BY <2>1, Zenon DEF PanelInd
<1> QED
  BY <1>1, <1>2, <1>3, <1>4, <1>5, <1>6, <1>7 DEF INext

(* Whatever the panel shows is the beginning of one list, and what may     *)
(* still be shown continues it.                                            *)
THEOREM PanelInvariance == ISpec => []PanelInd
<1>1. PanelInd /\ [INext]_iVars => PanelInd'
  BY PanelStep
<1> QED
  BY <1>1, PanelInit, PTL DEF ISpec

(* The pages of a view, of whatever sizes, continue each other and end     *)
(* with the list: every record of the revision the first page was read at, *)
(* once and in order, and none of another (MonitorInspectionPage,          *)
(* ReadInspectionPage, loadInspector).                                     *)
THEOREM OneRevisionShown == ISpec => []ViewIsOneRevision
<1>1. PanelInd => ViewIsOneRevision
  <2> SUFFICES ASSUME PanelInd PROVE ViewIsOneRevision
    OBVIOUS
  <2>1. /\ List(iView.whole) /\ Len(iView.got) \in Nat /\ Len(iView.got) <= Len(iView.whole)
        /\ iView.got = SubSeq(iView.whole, 1, Len(iView.got))
        /\ iView.ended => Len(iView.got) = Len(iView.whole)
    BY Zenon DEF PanelInd, Sound, Shown
  <2>2. PICK whole, got : whole = iView.whole /\ got = iView.got
    OBVIOUS
  <2>3. PICK S : whole \in Seq(S)
    BY <2>1, <2>2 DEF List
  <2>4. IsPrefix(got, whole)
    BY <2>1, <2>2, <2>3 DEF IsPrefix
  <2>5. Len(got) = Len(whole) => got = whole
    BY <2>1, <2>2, <2>3
  <2> QED
    BY <2>1, <2>2, <2>4, <2>5 DEF ViewIsOneRevision
<1> QED
  BY <1>1, PanelInvariance, PTL
=============================================================================
