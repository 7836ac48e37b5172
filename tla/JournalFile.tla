----------------------------- MODULE JournalFile -----------------------------
(* The journal as a file (runtime/event_log.go): who may append to it, which *)
(* changes from outside an append notices, what a power failure leaves of    *)
(* lines and directory entries, what ReadEventLog and the contract timeline  *)
(* of a replay accept, and the repair of a log that several runtimes wrote   *)
(* with counters of their own.  A process that meets an error ends here;     *)
(* recovery within a process is in JournaledRuntime.                         *)
EXTENDS Integers, Sequences, FiniteSets, SequencesExt

CONSTANTS
    FFound,       \* journals a previous release may have left: sequences of lines
    Inode,        \* files that may exist at a time
    Noone,
    MaxFRecords,  \* appended records
    MaxFTampered  \* changes from outside

VARIABLES
    fContent,     \* lines of each inode
    fDurable,     \* how many of them are on the medium
    fNames,       \* the directory: inode of the journal and of the backup
    fDurableNames,
    fLocked,      \* whether a process holds the writer lock; what follows is its own
    fLog,         \* its EventLog: inode and acknowledgedSize
    fStep,        \* what it is doing
    fDoing,       \* the line being appended, or the temporary file of a repair
    fRuntime,     \* its runtime: sequence and contract in force
    (* history *)
    fHistory,     \* payloads acknowledged or read when durable, and those that follow
                  \* them, which a recovery read before they were
    fAppended, fTampered

fVars == <<fContent, fDurable, fNames, fDurableNames, fLocked, fLog, fStep, fDoing,
           fRuntime, fHistory, fAppended, fTampered>>
fFiles   == <<fContent, fDurable, fNames, fDurableNames>>
fProcess == <<fLocked, fLog, fStep, fDoing, fRuntime>>

(* A record as a line of the file.  Its payload is a name: those of this    *)
(* process are counted from 1, those found are others.                       *)
FLine == [seq : Nat, kind : {"process", "intent", "commit", "migration"}, of : Nat,
          enc : BOOLEAN, schema : Nat, end : {"line", "bare", "torn", "glued"}]

ASSUME FAssumption ==
    /\ FFound \subseteq Seq(FLine)
    /\ \A lines \in FFound : \A i \in DOMAIN lines : lines[i].of > MaxFRecords
    /\ IsFiniteSet(Inode) /\ Inode # {} /\ Noone \notin Inode
    /\ MaxFRecords \in Nat /\ MaxFTampered \in Nat

NoLine == [seq |-> 0, kind |-> "none", of |-> 0, enc |-> FALSE, schema |-> 3, end |-> "line"]
NoLog  == [inode |-> Noone, size |-> 0]
NoRuntime == [seq |-> 0, enc |-> FALSE]
-----------------------------------------------------------------------------
(* Reading.  A line may be torn, glued to its predecessor, or whole and      *)
(* without its newline, which the scanner accepts at the end of the file.    *)
Decodes(line) == line.end \in {"line", "bare"}
Same(line, other) == [line EXCEPT !.end = "line"] = [other EXCEPT !.end = "line"]

(* validateJournalPayload: a versioned contract needs its schema, and its    *)
(* migration is the last record without it.                                  *)
ValidPayload(line) ==
    /\ line.kind \in {"process", "intent", "commit", "migration"}
    /\ line.enc => line.schema >= 4
    /\ line.kind = "migration" => line.schema >= 4 /\ ~line.enc

Nothing == [ok |-> TRUE, events |-> <<>>, seen |-> {}, intent |-> NoLine]
Reject(r) == [r EXCEPT !.ok = FALSE]
Expected(r) == Len(r.events) + 1

ReadLine(r, line) ==
    IF ~r.ok THEN r
    ELSE IF ~Decodes(line) \/ line.seq > Expected(r) THEN Reject(r)
    ELSE IF line.seq < Expected(r)
    THEN IF \E other \in r.seen : Same(other, line) THEN r ELSE Reject(r)
    ELSE IF r.intent # NoLine
    THEN IF /\ line.kind = "commit" /\ ValidPayload(line)
            /\ line.of = r.intent.of /\ line.enc = r.intent.enc
         THEN [r EXCEPT !.events = Append(@, r.intent), !.seen = @ \cup {line},
                        !.intent = NoLine]
         ELSE Reject(r)
    ELSE IF ~ValidPayload(line) \/ line.kind = "commit" THEN Reject(r)
    ELSE IF line.kind = "intent"
    THEN [r EXCEPT !.intent = line, !.seen = @ \cup {line}]
    ELSE [r EXCEPT !.events = Append(@, line), !.seen = @ \cup {line}]

ReadEventLog(lines) ==
    LET r == FoldLeft(ReadLine, Nothing, lines)
    IN IF r.intent = NoLine THEN r ELSE Reject(r)

(* replayEventLogFromSequence checks the whole timeline before it applies    *)
(* the first command: the contract changes with its migration, once.         *)
Migrations(events) == {i \in DOMAIN events : events[i].kind = "migration"}
Timeline(events) ==
    \A i \in DOMAIN events :
        /\ events[i].enc <=> \E j \in Migrations(events) : j < i
        /\ i \in Migrations(events) => \A j \in Migrations(events) : j >= i
Recovers(lines) == ReadEventLog(lines).ok /\ Timeline(ReadEventLog(lines).events)

Payloads(events) == [i \in DOMAIN events |-> events[i].of]
Sure(payloads)   == [sure |-> payloads, hoped |-> <<>>]
-----------------------------------------------------------------------------
(* Files                                                                     *)
Visible == fContent[fNames.journal]

(* O_APPEND; what follows a line without newline is glued to it.             *)
Appended(lines, line) ==
    Append(lines, IF lines # <<>> /\ Last(lines).end # "line"
                  THEN [line EXCEPT !.end = "glued"] ELSE line)

Free ==
    {n \in Inode : n \notin {fNames.journal, fNames.backup, fDurableNames.journal,
                             fDurableNames.backup, fLog.inode}}
New == CHOOSE n \in Free : TRUE

FInit ==
    /\ fTampered = 0 /\ fAppended = 0
    /\ \E lines \in FFound, n \in Inode :
          /\ n = CHOOSE x \in Inode : TRUE
          /\ fContent = [x \in Inode |-> IF x = n THEN lines ELSE <<>>]
          /\ fDurable = [x \in Inode |-> IF x = n THEN Len(lines) ELSE 0]
          /\ fNames = [journal |-> n, backup |-> Noone]
          /\ fHistory = Sure(Payloads(IF ReadEventLog(lines).ok
                                      THEN ReadEventLog(lines).events ELSE lines))
    /\ fDurableNames = fNames
    /\ fLocked = FALSE /\ fLog = NoLog /\ fStep = "down" /\ fDoing = <<>>
    /\ fRuntime = NoRuntime

(* OpenEventLog takes the writer lock and makes the directory entry durable. *)
OpenEventLog ==
    /\ ~fLocked /\ fLocked' = TRUE
    /\ fLog' = [inode |-> fNames.journal, size |-> Len(Visible)]
    /\ fDurableNames' = fNames
    /\ UNCHANGED <<fContent, fDurable, fNames>>

(* A service recovers from what it reads, or does not start.                 *)
OpenToServe ==
    /\ Recovers(Visible)
    /\ OpenEventLog
    /\ LET events == ReadEventLog(Visible).events IN
       /\ fRuntime' = [seq |-> Len(events), enc |-> Migrations(events) # {}]
       /\ fHistory' = IF fDurable[fNames.journal] = Len(Visible) THEN Sure(Payloads(events))
                      ELSE [fHistory EXCEPT !.hoped =
                              SubSeq(Payloads(events), Len(fHistory.sure) + 1, Len(events))]
    /\ fStep' = "serving" /\ fDoing' = <<>>
    /\ UNCHANGED <<fAppended, fTampered>>

(* A repair is asked for when a recovery has refused the log.                *)
OpenToRepair ==
    /\ ~Recovers(Visible)
    /\ OpenEventLog
    /\ fStep' = "repair" /\ fDoing' = <<>> /\ fRuntime' = NoRuntime
    /\ UNCHANGED <<fHistory, fAppended, fTampered>>

(* Close, an error, or a crash: the lock goes with the process.              *)
Ended ==
    /\ fLocked' = FALSE /\ fLog' = NoLog /\ fStep' = "down" /\ fDoing' = <<>>
    /\ fRuntime' = NoRuntime
Ends ==
    /\ fLocked /\ Ended
    /\ UNCHANGED <<fFiles, fHistory, fAppended, fTampered>>
-----------------------------------------------------------------------------
(* Append, in the steps between which another program may touch the file.    *)
(* runJournalCommandLocked and the sensor boundary stamp a record with the   *)
(* contract in force (decorateCompositionJournalLocked).                     *)
Stamp(kind, of) ==
    [seq |-> fRuntime.seq + 1, kind |-> kind, of |-> of, enc |-> fRuntime.enc,
     schema |-> IF fRuntime.enc \/ kind = "migration" THEN 4 ELSE 3, end |-> "line"]

Offered ==
    IF fStep = "intent" THEN {Stamp("commit", fDoing[1].of)}
    ELSE {Stamp(kind, fAppended + 1) :
            kind \in {"process", "intent"} \cup
                     (IF fRuntime.enc THEN {} ELSE {"migration"})}

AppendChecks ==
    /\ fStep \in {"serving", "intent"}
    /\ fStep = "serving" => fAppended < MaxFRecords
    /\ fNames.journal = fLog.inode /\ Len(Visible) = fLog.size
    /\ \E line \in Offered : fDoing' = <<line>>
    /\ fStep' = "checked"
    /\ fAppended' = IF fStep = "intent" THEN fAppended ELSE fAppended + 1
    /\ UNCHANGED <<fFiles, fLocked, fLog, fRuntime, fHistory, fTampered>>

AppendWrites ==
    /\ fStep = "checked"
    /\ fContent' = [fContent EXCEPT ![fLog.inode] = Appended(@, fDoing[1])]
    /\ fStep' = "written"
    /\ UNCHANGED <<fDurable, fNames, fDurableNames, fLocked, fLog, fDoing, fRuntime,
                   fHistory, fAppended, fTampered>>

AppendSyncs ==
    /\ fStep = "written"
    /\ fDurable' = [fDurable EXCEPT ![fLog.inode] = Len(fContent[fLog.inode])]
    /\ fStep' = "synced"
    /\ UNCHANGED <<fContent, fNames, fDurableNames, fLocked, fLog, fDoing, fRuntime,
                   fHistory, fAppended, fTampered>>

(* Mutant: the file is not looked at again after the sync. *)
UnlookedAt == TRUE

(* The journal is still this file, and as long as the record makes it.       *)
AsWritten == fNames.journal = fLog.inode /\ Len(Visible) = fLog.size + 1

(* The record is acknowledged.  An intent is not: its commit is what counts. *)
AppendReturns ==
    /\ fStep = "synced" /\ AsWritten
    /\ fLog' = [fLog EXCEPT !.size = @ + 1]
    /\ LET line == fDoing[1] IN
       IF line.kind = "intent"
       THEN /\ fStep' = "intent" /\ UNCHANGED <<fDoing, fRuntime, fHistory>>
       ELSE /\ fStep' = "serving" /\ fDoing' = <<>>
            /\ fRuntime' = [seq |-> line.seq, enc |-> line.enc \/ line.kind = "migration"]
            /\ fHistory' = Sure(fHistory.sure \o Append(fHistory.hoped, line.of))
    /\ UNCHANGED <<fFiles, fLocked, fAppended, fTampered>>
-----------------------------------------------------------------------------
(* RepairConflictingSequences                                                *)
Disagree(lines) ==
    \E i, j \in DOMAIN lines : lines[i].seq = lines[j].seq /\ ~Same(lines[i], lines[j])

Repairable(lines) ==
    /\ lines # <<>> /\ lines[1].seq = 1
    /\ \A i \in DOMAIN lines :
          /\ Decodes(lines[i]) /\ ValidPayload(lines[i])
          /\ lines[i].schema < 4 /\ lines[i].kind = "process"
          /\ i > 1 => lines[i].seq \in lines[i - 1].seq .. lines[i - 1].seq + 1
    /\ Disagree(lines)

Renumbered(lines) == [i \in DOMAIN lines |-> [lines[i] EXCEPT !.seq = i, !.end = "line"]]

(* The backup is written, synced and closed, then the new log, under         *)
(* temporary name.                                                           *)
RepairWrites ==
    /\ fStep = "repair" /\ Repairable(Visible) /\ fNames.backup = Noone
    /\ Cardinality(Free) > 1
    /\ LET b == New
           t == CHOOSE n \in Free \ {New} : TRUE
       IN /\ fContent' = [fContent EXCEPT ![b] = Visible, ![t] = Renumbered(Visible)]
          /\ fDurable' = [fDurable EXCEPT ![b] = Len(Visible), ![t] = Len(Visible)]
          /\ fNames' = [fNames EXCEPT !.backup = b]
          /\ fDoing' = <<t>>
    /\ fStep' = "rename"
    /\ UNCHANGED <<fDurableNames, fLocked, fLog, fRuntime, fHistory, fAppended, fTampered>>

(* The data file is closed, replaced and reopened.                           *)
RepairRenames ==
    /\ fStep = "rename"
    /\ fNames' = [fNames EXCEPT !.journal = fDoing[1]]
    /\ fLog' = [inode |-> fDoing[1], size |-> Len(fContent[fDoing[1]])]
    /\ fStep' = "renamed"
    /\ UNCHANGED <<fContent, fDurable, fDurableNames, fLocked, fDoing, fRuntime, fHistory,
                   fAppended, fTampered>>

(* The directory is synced last.                                             *)
RepairReturns ==
    /\ fStep = "renamed"
    /\ fDurableNames' = fNames
    /\ fStep' = "repaired"
    /\ UNCHANGED <<fContent, fDurable, fNames, fLocked, fLog, fDoing, fRuntime, fHistory,
                   fAppended, fTampered>>
-----------------------------------------------------------------------------
(* What the medium keeps: synced lines, perhaps a part of those that follow; *)
(* each directory entry as it was or as it is.                               *)
Parts(line) == {[line EXCEPT !.end = "torn"]} \cup
               (IF line.end = "line" THEN {[line EXCEPT !.end = "bare"]} ELSE {})
Left(lines, synced) ==
    {SubSeq(lines, 1, k) : k \in synced .. Len(lines)} \cup
    UNION {{Append(SubSeq(lines, 1, k - 1), part) : part \in Parts(lines[k])} :
              k \in synced + 1 .. Len(lines)}

PowerFails ==
    /\ Ended
    /\ \E j \in {fNames.journal, fDurableNames.journal},
          b \in {fNames.backup, fDurableNames.backup} :
          \E lines \in Left(fContent[j], fDurable[j]) :
             /\ fNames' = [journal |-> j, backup |-> b]
             /\ fDurableNames' = fNames'
             /\ fContent' = [n \in Inode |-> IF n = j THEN lines
                                           ELSE IF n = b THEN fContent[n] ELSE <<>>]
             /\ fDurable' = [n \in Inode |-> Len(fContent'[n])]
    /\ UNCHANGED <<fHistory, fAppended, fTampered>>

(* A workspace supervisor or a copier that does not ask for the lock puts a  *)
(* copy of the journal, or an older one, in its place, or truncates it.      *)
(* What it leaves is the history from then on.  Never during a repair.       *)
Tamper ==
    /\ fTampered < MaxFTampered /\ fTampered' = fTampered + 1
    /\ fStep \notin {"repair", "rename", "renamed", "repaired"}
    /\ \E k \in 0 .. Len(Visible) :
          LET lines == SubSeq(Visible, 1, k) IN
          /\ \/ /\ Free # {}
                /\ fContent' = [fContent EXCEPT ![New] = lines]
                /\ fDurable' = [fDurable EXCEPT ![New] = k]
                /\ fNames' = [fNames EXCEPT !.journal = New]
             \/ /\ k < Len(Visible)
                /\ fContent' = [fContent EXCEPT ![fNames.journal] = lines]
                /\ fDurable' = [fDurable EXCEPT ![fNames.journal] = k]
                /\ UNCHANGED fNames
          /\ fDurableNames' = fNames'
          /\ Recovers(lines)
          /\ fHistory' = Sure(Payloads(ReadEventLog(lines).events))
    /\ UNCHANGED <<fProcess, fAppended>>

FNext ==
    \/ OpenToServe \/ OpenToRepair
    \/ Ends
    \/ AppendChecks \/ AppendWrites \/ AppendSyncs \/ AppendReturns
    \/ RepairWrites \/ RepairRenames \/ RepairReturns
    \/ PowerFails \/ Tamper

FSpec == FInit /\ [][FNext]_fVars
-----------------------------------------------------------------------------
(* What a recovery reads is what was acknowledged, perhaps followed by       *)
(* records whose append never returned: no acknowledged record is lost to    *)
(* another writer, a replaced file, a crash or a repair, and none is         *)
(* invented or read twice (Append's checks, ReadEventLog, the timeline).     *)
InDoubt ==
    IF fAppended \in {0} \cup ToSet(fHistory.sure) \cup ToSet(fHistory.hoped)
    THEN fHistory.hoped ELSE Append(fHistory.hoped, fAppended)
ReadsWhatWasAcknowledged ==
    LET r == ReadEventLog(Visible) IN
    r.ok /\ Timeline(r.events) =>
        \E last \in 0 .. Len(InDoubt) :
            Payloads(r.events) = fHistory.sure \o SubSeq(InDoubt, 1, last)
=============================================================================
