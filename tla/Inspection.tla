----------------------------- MODULE Inspection -----------------------------
(* A collection of the brain read page by page (knowledge/inspection_page.go,*)
(* runtime/inspection.go, bridge/inspection.go) by the monitor's inspector   *)
(* panel (web/monitor/app.js), while the brain commits, is restored in place *)
(* to an older revision, or is replaced after a failed command.              *)
(*                                                                           *)
(* A page is computed under the runtime lock.  Between two pages anything    *)
(* may happen, and the answer to an older click may come after a newer one.  *)
EXTENDS Integers, Sequences, FiniteSets, SequencesExt

CONSTANTS
    IGraph,      \* graphs the brain may have
    ISection,    \* sections the panel offers
    ILimit,      \* records a page may have
    IBytes,      \* bytes a page may have for its records
    MaxIRev,     \* bound: commits
    MaxIEpoch,   \* bound: lifetimes of a runtime that are read
    MaxIAsked    \* bound: requests in flight

ASSUME IAssumption ==
    /\ ILimit \subseteq Nat \ {0} /\ IBytes \in Nat /\ MaxIRev \in Nat
    /\ \A g \in IGraph :
          /\ IsFiniteSet(DOMAIN g.units) /\ DOMAIN g.units \subseteq Nat
          /\ \A u \in DOMAIN g.units : g.units[u].score \in Int /\ g.units[u].size \in Nat
          /\ IsFiniteSet(g.edges)
          /\ \A e \in g.edges : {e.source, e.target, e.ordinal} \subseteq Nat
          /\ \A e, d \in g.edges :
                <<e.source, e.target, e.ordinal>> = <<d.source, d.target, d.ordinal>> => e = d

VARIABLES
    (* the runtime *)
    iBrain,      \* units with activation and size, and connections
    iRev,
    iEpoch,      \* inspectionEpoch, 0 until it is first asked for
    iEpochs,     \* epochs drawn so far
    (* the panel *)
    iSection,    \* the section selected
    iPage,       \* inspectorPage: where it continues, or NoPage
    iAsked,      \* requests with the answers on their way; one of them is the newest
    iView        \* history: records shown since the first page, and what there was to show

iRuntime == <<iBrain, iRev, iEpoch, iEpochs>>
iPanel   == <<iSection, iPage, iAsked, iView>>
iVars    == <<iBrain, iRev, iEpoch, iEpochs, iSection, iPage, iAsked, iView>>
-----------------------------------------------------------------------------
(* Records.  A key is unique in its section and orders it: a unit's number,  *)
(* a connection's ends and its place in the list of the source.  The other   *)
(* sections are lists and maps, keyed by index or name.                      *)
Row(source, target, ordinal, score, size) ==
    [at |-> <<source, target, ordinal>>, score |-> score, size |-> size]

Rows(brain, section) ==
    IF section = "neural_units"
    THEN {Row(u, 0, 0, brain.units[u].score, brain.units[u].size) : u \in DOMAIN brain.units}
    ELSE {Row(e.source, e.target, e.ordinal, 0, 1) : e \in brain.edges}

KeyLess(a, b, order) ==
    IF order = "activity" /\ a.score # b.score THEN a.score > b.score
    ELSE \E i \in 1..3 : a.at[i] < b.at[i] /\ \A j \in 1..(i - 1) : a.at[j] = b.at[j]

InOrder(rows, order) ==
    CHOOSE list \in [1 .. Cardinality(rows) -> rows] :
        \A i, j \in DOMAIN list : i < j => KeyLess(list[i], list[j], order)

(* The inspectionHeap keeps the limit + 1 first rows after the key.          *)
Selected(rows, order, limit, key) ==
    LET later == InOrder({r \in rows : key = <<>> \/ KeyLess(key[1], r, order)}, order)
    IN  SubSeq(later, 1, IF Len(later) > limit THEN limit + 1 ELSE Len(later))

(* Records and their separators that fit; a record that exceeds a page of    *)
(* its own fails the page it would be on.                                    *)
Bytes(rows) == LET add(sum, r) == sum + r.size + 1 IN FoldLeft(add, -1, rows)
Fitting(keys, limit) ==
    {n \in 0..Len(keys) : n <= limit /\ Bytes(SubSeq(keys, 1, n)) <= IBytes}
Accepted(keys, limit) == CHOOSE n \in Fitting(keys, limit) : \A m \in Fitting(keys, limit) : m <= n
TooLarge(keys, n, limit) == n < Len(keys) /\ n < limit /\ keys[n + 1].size > IBytes

NoAnswer == [status |-> 0, items |-> <<>>, next |-> <<>>, whole |-> <<>>]
Refused(status) == [NoAnswer EXCEPT !.status = status]

PageOf(keys, n, limit, epoch, ask, whole) ==
    IF TooLarge(keys, n, limit) THEN Refused(413)
    ELSE [status |-> 200, items |-> SubSeq(keys, 1, n),
          next |-> IF n < Len(keys)
                   THEN <<[epoch |-> epoch, rev |-> iRev, section |-> ask.section,
                           order |-> ask.order, key |-> keys[n]]>>
                   ELSE <<>>,
          whole |-> IF ask.cursor = <<>> THEN whole ELSE <<>>]

ReadInspectionPage(epoch, ask, key) ==
    LET rows == Rows(iBrain, ask.section)
        keys == Selected(rows, ask.order, ask.limit, key)
    IN  PageOf(keys, Accepted(keys, ask.limit), ask.limit, epoch, ask, InOrder(rows, ask.order))

(* The cursor of another section or order is refused, as is that of another  *)
(* revision or of another lifetime of the runtime.                           *)
SameSection(cursor, ask) == cursor.section = ask.section /\ cursor.order = ask.order
(* Mutant: pages of one revision number are taken for pages of one revision. *)
SameNumber(cursor, epoch) == cursor.rev = iRev
SameView(cursor, epoch) == cursor.epoch = epoch /\ cursor.rev = iRev

MonitorInspectionPage(epoch, ask) ==
    IF ask.cursor = <<>> THEN ReadInspectionPage(epoch, ask, <<>>)
    ELSE LET cursor == ask.cursor[1]
         IN  IF ~SameSection(cursor, ask) THEN Refused(400)
             ELSE IF ~SameView(cursor, epoch) THEN Refused(409)
             ELSE ReadInspectionPage(epoch, ask, <<cursor.key>>)
-----------------------------------------------------------------------------
NoPage == [next |-> <<>>, order |-> "id"]
NoView == [whole |-> <<>>, got |-> <<>>, ended |-> FALSE]

IInit ==
    /\ iBrain \in IGraph /\ iRev = 0 /\ iEpoch = 0 /\ iEpochs = 0
    /\ iSection \in ISection /\ iPage = NoPage /\ iAsked = <<>> /\ iView = NoView

ICommit(brain) ==
    /\ iRev < MaxIRev
    /\ iBrain' = brain /\ iRev' = iRev + 1
    /\ UNCHANGED <<iEpoch, iEpochs, iPanel>>

(* A standalone runtime loads a brain or restores a checkpoint, at whatever  *)
(* revision that has; a supervisor publishes another runtime in the place of *)
(* one that requires recovery.  Either is without an epoch.                  *)
IRestore(brain, at) ==
    /\ iBrain' = brain /\ iRev' = at /\ iEpoch' = 0
    /\ UNCHANGED <<iEpochs, iPanel>>
-----------------------------------------------------------------------------
SelectSection(section) ==
    /\ iSection' = section /\ section # iSection
    /\ UNCHANGED <<iRuntime, iPage, iAsked, iView>>

(* The panel numbers its reads.  The handler runs under the runtime lock     *)
(* between the click and the answer; it reads nothing of the panel, so that  *)
(* what the runtime does before it may as well precede the click.            *)
Ask(order, limit, cursor) ==
    LET epoch == IF iEpoch = 0 THEN iEpochs + 1 ELSE iEpoch
        ask   == [section |-> iSection, order |-> order, limit |-> limit, cursor |-> cursor]
    IN  /\ Len(iAsked) < MaxIAsked /\ epoch <= MaxIEpoch
        /\ iAsked' = Append([i \in DOMAIN iAsked |-> [iAsked[i] EXCEPT !.newest = FALSE]],
                            [first |-> cursor = <<>>, order |-> order, newest |-> TRUE,
                             answer |-> MonitorInspectionPage(epoch, ask)])
        /\ iEpoch' = epoch /\ iEpochs' = (IF iEpoch = 0 THEN epoch ELSE iEpochs)
        /\ UNCHANGED <<iBrain, iRev, iSection, iPage, iView>>

LoadInspector(order, limit) ==
    /\ order = "activity" => iSection = "neural_units"
    /\ Ask(order, limit, <<>>)
NextInspector(limit) == iPage.next # <<>> /\ Ask(iPage.order, limit, iPage.next)

Answered(i) == iAsked' = RemoveAt(iAsked, i) /\ UNCHANGED <<iRuntime, iSection>>

DropOlder(i) == ~iAsked[i].newest /\ Answered(i) /\ UNCHANGED <<iPage, iView>>

ShowPage(i) ==
    LET ask == iAsked[i]
    IN  /\ ask.answer.status = 200 /\ ask.newest
        /\ Answered(i)
        /\ iPage' = [next |-> ask.answer.next, order |-> ask.order]
        /\ iView' = [whole |-> IF ask.first THEN ask.answer.whole ELSE iView.whole,
                     got   |-> (IF ask.first THEN <<>> ELSE iView.got) \o ask.answer.items,
                     ended |-> ask.answer.next = <<>>]

(* A refusal, a runtime that requires recovery (503), a lost answer, or a    *)
(* page whose hash does not match.                                           *)
ShowError(i) == iAsked[i].newest /\ Answered(i) /\ iPage' = NoPage /\ iView' = NoView

INext ==
    \/ \E brain \in IGraph : ICommit(brain)
    \/ \E brain \in IGraph, at \in 0..MaxIRev : IRestore(brain, at)
    \/ \E section \in ISection : SelectSection(section)
    \/ \E order \in {"id", "activity"}, limit \in ILimit : LoadInspector(order, limit)
    \/ \E limit \in ILimit : NextInspector(limit)
    \/ \E i \in DOMAIN iAsked : DropOlder(i) \/ ShowPage(i) \/ ShowError(i)

ISpec == IInit /\ [][INext]_iVars
-----------------------------------------------------------------------------
(* The pages of a view, of whatever sizes, continue each other: each record  *)
(* of the revision its first page was read at is shown once, in order, no    *)
(* record of another revision is, and a view that ends is complete           *)
(* (MonitorInspectionPage's cursor check, ReadInspectionPage's next key,     *)
(* loadInspector's serial).                                                  *)
ViewIsOneRevision ==
    /\ IsPrefix(iView.got, iView.whole)
    /\ iView.ended => iView.got = iView.whole
=============================================================================
