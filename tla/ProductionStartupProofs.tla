----------------------- MODULE ProductionStartupProofs -----------------------
(***************************************************************************)
(* What ProductionStartup keeps for any set of events, over any number of  *)
(* crashes, removals and repairs, with or without the memory of an older   *)
(* release: one brain for ever, and files that the next start accepts.     *)
(* And what JournalFile keeps of the journal, one of those files, line by  *)
(* line: what is read of it is what was acknowledged.                      *)
(***************************************************************************)
EXTENDS ProductionStartup, JournalFile, FoldTheorems, FiniteSetTheorems, SequenceTheorems,
        TLAPS

LEMMA PrefixGrows ==
    ASSUME NEW S, NEW p \in Seq(S), NEW q \in Seq(S), NEW x \in S, IsPrefix(p, q)
    PROVE  IsPrefix(p, Append(q, x))
<1>1. /\ Append(q, x) \in Seq(S) /\ Len(Append(q, x)) = Len(q) + 1
      /\ \A i \in 1 .. Len(q) : Append(q, x)[i] = q[i]
      /\ DOMAIN q = 1 .. Len(q) /\ DOMAIN Append(q, x) = 1 .. Len(q) + 1 /\ Len(q) \in Nat
  BY AppendProperties, LenProperties
<1> QED
  BY <1>1 DEF IsPrefix

LEMMA OwnPrefix == ASSUME NEW S, NEW q \in Seq(S) PROVE IsPrefix(q, q)
BY DEF IsPrefix

LEMMA NoMemory == Absent \in [brain : Brain \cup {None}, complete : BOOLEAN] /\ Absent.brain = None
BY DEF Absent

LEMMA LegacyMemory ==
    /\ OldMemory \in [brain : Brain \cup {None}, complete : BOOLEAN]
    /\ OldMemory.brain \in Brain /\ OldMemory.brain.base = "legacy" /\ OldMemory.brain.events = <<>>
<1>1. [base |-> "legacy", events |-> <<>>] \in Brain
  BY EmptySeq DEF Brain, Foundation
<1> QED
  BY <1>1 DEF OldMemory

LEMMA BrainExists == \A b \in Brain : b # None /\ Exists(b)
BY DEF Brain, None, Exists, Foundation
-----------------------------------------------------------------------------
(* The inductive invariant.                                                *)

(* The runtime has applied exactly the journal; files are owed by a        *)
(* running process only.                                                   *)
Running ==
    /\ pc = "down" => brain = None /\ owes = <<>>
    /\ pc # "down" => brain.events = journal /\ refused # "init"
    /\ pc = "serving" => origin # "none"
    /\ owes # <<>> => pc \in {"boot", "ready", "serving"}

(* No file is ahead of the journal. *)
Behind ==
    /\ Exists(ckpt) => IsPrefix(ckpt.events, journal)
    /\ Exists(memory.brain) => IsPrefix(memory.brain.events, journal)

(* A journal that has an event is anchored, unless the operator removed    *)
(* the checkpoint, for which the memory file stands in.                    *)
Kept ==
    /\ pc \in {"main", "boot", "ready", "serving"} => Exists(ckpt)
    /\ journal # <<>> /\ ~Exists(ckpt) => removed /\ Exists(memory.brain)
    /\ origin # "none" => Exists(ckpt) \/ Exists(memory.brain)

(* Runtime and files have one foundation. *)
OneFoundation == \E base \in Foundation :
    /\ Exists(ckpt) => ckpt.base = base
    /\ Exists(memory.brain) => memory.brain.base = base
    /\ pc # "down" => brain.base = base
    /\ origin \in {"none", base}

StartupInd ==
    /\ TypeOK /\ Running /\ Behind /\ Kept /\ OneFoundation
    /\ CrashNeverStrands

LEMMA StartupInit == Init => StartupInd
<1> SUFFICES ASSUME Init PROVE StartupInd
  OBVIOUS
<1> USE DEF Init
<1>1. \A S : <<>> \in Seq(S)
  BY EmptySeq
<1>0. memory = Absent \/ memory = OldMemory
  OBVIOUS
<1>2. TypeOK
  <2>1. memory \in [brain : Brain \cup {None}, complete : BOOLEAN]
    BY <1>0, NoMemory, LegacyMemory
  <2>2. owes \in Seq({"memory", "checkpoint"}) /\ Len(owes) <= 3 /\ journal \in Seq(Command)
    BY <1>1
  <2> QED
    BY <2>1, <2>2 DEF TypeOK
<1>3. Running /\ Kept /\ CrashNeverStrands
  BY DEF Running, Kept, CrashNeverStrands, Exists
<1>4. Behind
  <2>1. Exists(memory.brain) => memory.brain.events = <<>>
    BY <1>0, NoMemory, LegacyMemory DEF Exists
  <2>2. IsPrefix(<<>>, journal) /\ ~Exists(ckpt)
    BY <1>1, OwnPrefix DEF Exists
  <2> QED
    BY <2>1, <2>2 DEF Behind
<1>5. OneFoundation
  BY <1>0, NoMemory, LegacyMemory DEF OneFoundation, Foundation, Exists
<1> QED
  BY <1>2, <1>3, <1>4, <1>5 DEF StartupInd
-----------------------------------------------------------------------------
(* The starts.                                                             *)

(* A start that returns a brain with the committed events and the          *)
(* foundation of the files.                                                *)
LEMMA ReturnKeeps ==
    ASSUME StartupInd, pc = "down", NEW b \in Brain, NEW result \in BOOLEAN, NEW next \in {"anchor", "main"},
           Return(b, result, next), b.events = journal, next = "main" => Exists(ckpt),
           Exists(ckpt) => b.base = ckpt.base,
           Exists(memory.brain) => b.base = memory.brain.base
    PROVE  StartupInd'
<1> USE DEF StartupInd, Return, disk
<1>1. TypeOK' /\ CrashNeverStrands'
  BY DEF TypeOK, CrashNeverStrands
<1>2. Running' /\ Behind' /\ Kept'
  BY DEF Running, Behind, Kept
<1>3. OneFoundation'
  <2>1. b.base \in Foundation
    BY DEF Brain
  <2>2. PICK base \in Foundation : /\ Exists(ckpt) => ckpt.base = base
                                   /\ Exists(memory.brain) => memory.brain.base = base
                                   /\ origin \in {"none", base}
    BY DEF OneFoundation
  <2>3. origin \in {"none", b.base}
    BY <2>2 DEF Kept
  <2> QED
    BY <2>1, <2>3 DEF OneFoundation
<1> QED
  BY <1>1, <1>2, <1>3

LEMMA RefuseKeeps == ASSUME StartupInd, pc = "down", Refuse, removed \/ torn PROVE StartupInd'
BY DEF StartupInd, Refuse, disk, TypeOK, Running, Behind, Kept, OneFoundation, CrashNeverStrands

LEMMA RecoveredBrain ==
    ASSUME StartupInd, NEW b \in Brain
    PROVE  Recovered(b) \in Brain /\ Recovered(b).events = journal /\ Recovered(b).base = b.base
BY DEF StartupInd, TypeOK, Recovered, Brain

LEMMA FromCheckpointKeeps == ASSUME StartupInd, StartFromCheckpoint PROVE StartupInd'
<1>1. /\ pc = "down" /\ Exists(ckpt) /\ ckpt \in Brain /\ Anchors(ckpt)
  BY DEF StartFromCheckpoint, StartupInd, TypeOK, Behind, Anchors, Exists
<1>2. Return(Recovered(ckpt), journal = <<>> /\ ~Exists(memory.brain), "main")
  BY <1>1 DEF StartFromCheckpoint
<1>3. Exists(memory.brain) => memory.brain.base = ckpt.base
  BY <1>1 DEF StartupInd, OneFoundation
<1> QED
  BY <1>1, <1>2, <1>3, RecoveredBrain, ReturnKeeps

LEMMA FromServingMemoryKeeps == ASSUME StartupInd, StartFromServingMemory PROVE StartupInd'
<1>1. /\ pc = "down" /\ ~Exists(ckpt) /\ memory.brain \in Brain /\ Anchors(memory.brain)
  BY DEF StartFromServingMemory, StartupInd, TypeOK, Behind, Anchors, Exists
<1>2. Return(Recovered(memory.brain), FALSE, "anchor")
  BY <1>1 DEF StartFromServingMemory
<1> QED
  BY <1>1, <1>2, RecoveredBrain, ReturnKeeps

LEMMA FromJournalKeeps == ASSUME StartupInd, StartFromJournal PROVE StartupInd'
<1> DEFINE replayed == [base |-> "seed", events |-> journal]
<1>1. pc = "down" /\ ~Exists(ckpt) /\ removed /\ Exists(memory.brain)
  BY DEF StartFromJournal, StartupInd, Kept
<1>2. replayed \in Brain /\ replayed.events = journal
  BY DEF StartupInd, TypeOK, Brain, Foundation
<1>3. CASE memory.brain # replayed
  BY <1>1, <1>3, RefuseKeeps DEF StartFromJournal
<1>4. CASE memory.brain = replayed
  <2>1. Return(replayed, FALSE, "anchor")
    BY <1>4 DEF StartFromJournal
  <2> QED
    BY <1>1, <1>2, <1>4, <2>1, ReturnKeeps
<1> QED
  BY <1>3, <1>4

LEMMA FreshKeeps == ASSUME StartupInd, StartFresh PROVE StartupInd'
<1>1. pc = "down" /\ ~Exists(ckpt) /\ journal = <<>>
  BY DEF StartFresh
<1>2. <<>> \in Seq(Command)
  BY EmptySeq
<1>3. CASE Exists(memory.brain)
  <2> DEFINE b == [memory.brain EXCEPT !.events = <<>>]
  <2>1. memory.brain \in Brain
    BY <1>3 DEF StartupInd, TypeOK, Exists
  <2>2. b \in Brain /\ b.events = journal /\ b.base = memory.brain.base
    BY <1>1, <1>2, <2>1 DEF Brain
  <2>3. Return(b, FALSE, "anchor")
    BY <1>3 DEF StartFresh
  <2> QED
    BY <1>1, <2>2, <2>3, ReturnKeeps
<1>4. CASE ~Exists(memory.brain)
  <2> DEFINE b == [base |-> "seed", events |-> <<>>]
  <2>1. b \in Brain /\ b.events = journal
    BY <1>1, <1>2 DEF Brain, Foundation
  <2>2. Return(b, TRUE, "anchor")
    BY <1>4 DEF StartFresh
  <2> QED
    BY <1>1, <1>4, <2>1, <2>2, ReturnKeeps
<1> QED
  BY <1>3, <1>4

LEMMA AnchorKeeps == ASSUME StartupInd, Anchor PROVE StartupInd'
<1> USE DEF StartupInd, Anchor
<1>1. brain \in Brain /\ Exists(brain) /\ brain.events = journal
  BY BrainExists DEF TypeOK, Running
<1>2. TypeOK' /\ CrashNeverStrands' /\ Running' /\ Kept'
  BY <1>1 DEF TypeOK, CrashNeverStrands, Running, Kept
<1>3. Behind'
  BY <1>1, OwnPrefix DEF Behind, TypeOK
<1>4. OneFoundation'
  BY DEF OneFoundation
<1> QED
  BY <1>2, <1>3, <1>4
-----------------------------------------------------------------------------
(* Serving.                                                                *)

(* A mutation commits an event and owes files for it. *)
LEMMA ExtendKeeps ==
    ASSUME StartupInd, pc \in {"main", "ready", "serving"}, NEW e \in Command, Extend(e),
           owes' \in Seq({"memory", "checkpoint"}), Len(owes') <= 3,
           pc' = IF pc = "main" THEN "boot" ELSE pc,
           UNCHANGED <<torn, memory, ckpt, loaded, refused, removed, origin>>
    PROVE  StartupInd'
<1> USE DEF StartupInd, Extend
<1>1. /\ brain \in Brain /\ brain.events = journal /\ journal \in Seq(Command) /\ Exists(ckpt)
  BY DEF TypeOK, Running, Kept
<1>2. journal' \in Seq(Command) /\ journal' = Append(journal, e)
  BY <1>1, AppendProperties
<1>3. brain' \in Brain /\ brain'.events = journal' /\ brain'.base = brain.base
  BY <1>1, <1>2 DEF Brain
<1>4. TypeOK'
  BY <1>2, <1>3 DEF TypeOK
<1>5. Running' /\ Kept' /\ CrashNeverStrands'
  BY <1>1, <1>3 DEF Running, Kept, CrashNeverStrands
<1>6. Behind'
  <2>1. ckpt \in Brain /\ ckpt.events \in Seq(Command)
    BY <1>1 DEF TypeOK, Exists, Brain
  <2>2. Exists(memory.brain) => memory.brain.events \in Seq(Command)
    BY DEF TypeOK, Exists, Brain
  <2> QED
    BY <1>1, <1>2, <2>1, <2>2, PrefixGrows DEF Behind
<1>7. OneFoundation'
  BY <1>3 DEF OneFoundation
<1> QED
  BY <1>4, <1>5, <1>6, <1>7

(* The steps that commit an event, each with the files it owes. *)
LEMMA CommitsKeep ==
    ASSUME StartupInd,
           (MainBootstraps /\ ~Has(brain, Bootstrap)) \/ EnableComposition \/ ServiceCycle \/ Observation
    PROVE  StartupInd'
<1> DEFINE File == {"memory", "checkpoint"}
<1>1. /\ <<"memory", "checkpoint">> \in Seq(File) /\ Len(<<"memory", "checkpoint">>) = 2
      /\ <<"checkpoint">> \in Seq(File) /\ Len(<<"checkpoint">>) = 1
      /\ <<"memory">> \o <<>> \in Seq(File) /\ Len(<<"memory">> \o <<>>) = 1
      /\ <<"memory">> \o <<"memory", "checkpoint">> \in Seq(File)
      /\ Len(<<"memory">> \o <<"memory", "checkpoint">>) = 3
  OBVIOUS
<1>2. CASE MainBootstraps /\ ~Has(brain, Bootstrap)
  <2>1. /\ pc = "main" /\ pc' = "boot" /\ Extend(Bootstrap) /\ Bootstrap \in Command
        /\ owes' = <<"memory", "checkpoint">>
        /\ UNCHANGED <<torn, memory, ckpt, loaded, refused, removed, origin>>
    BY <1>2 DEF MainBootstraps, Command
  <2> QED
    BY <1>1, <2>1, ExtendKeeps
<1>3. CASE EnableComposition
  BY <1>1, <1>3, ExtendKeeps DEF EnableComposition, Command
<1>4. CASE ServiceCycle
  BY <1>1, <1>4, ExtendKeeps DEF ServiceCycle, Command
<1>5. CASE Observation
  <2>1. owes' \in Seq(File) /\ Len(owes') <= 3
    <3>1. CASE owes = <<>>
      <4>1. owes' = <<"memory">> \o <<>>
        BY <1>5, <3>1 DEF Observation
      <4> QED
        BY <1>1, <4>1
    <3>2. CASE owes = <<"memory", "checkpoint">>
      <4>1. owes' = <<"memory">> \o <<"memory", "checkpoint">>
        BY <1>5, <3>2 DEF Observation
      <4> QED
        BY <1>1, <4>1
    <3> QED
      BY <1>5, <3>1, <3>2 DEF Observation
  <2> QED
    BY <1>5, <2>1, ExtendKeeps DEF Observation, Command
<1> QED
  BY <1>2, <1>3, <1>4, <1>5

(* The process gives up or dies; what is on disk stays. *)
LEMMA DownKeeps ==
    ASSUME StartupInd, pc # "down", pc' = "down", brain' = None, owes' = <<>>, torn' \in BOOLEAN,
           refused' \in {"no", "main", "disk"},
           UNCHANGED <<journal, memory, ckpt, loaded, removed, origin>>
    PROVE  StartupInd'
<1> USE DEF StartupInd
<1>1. TypeOK'
  <2>1. <<>> \in Seq({"memory", "checkpoint"}) /\ Len(<<>>) = 0
    BY EmptySeq
  <2> QED
    BY <2>1 DEF TypeOK
<1>2. Running' /\ Behind' /\ Kept' /\ CrashNeverStrands' /\ OneFoundation'
  BY DEF Running, Behind, Kept, CrashNeverStrands, OneFoundation
<1> QED
  BY <1>1, <1>2

LEMMA BootstrapRefusedKeeps == ASSUME StartupInd, MainBootstraps, Has(brain, Bootstrap) PROVE StartupInd'
<1>1. owes = <<>>
  BY DEF MainBootstraps, StartupInd, Running
<1>2. torn \in BOOLEAN
  BY DEF StartupInd, TypeOK
<1> QED
  BY <1>1, <1>2, DownKeeps DEF MainBootstraps

LEMMA CrashKeeps == ASSUME StartupInd, Crash PROVE StartupInd'
<1>1. refused \in {"no", "main", "disk"} /\ torn' \in BOOLEAN
  BY DEF Crash, StartupInd, TypeOK, Running
<1> QED
  BY <1>1, DownKeeps DEF Crash

LEMMA ServesKeeps == ASSUME StartupInd, MainReady \/ MainServes PROVE StartupInd'
<1> USE DEF StartupInd, MainReady, MainServes, disk
<1>1. brain \in Brain /\ brain.base \in Foundation /\ "none" \notin Foundation
  BY DEF TypeOK, Brain, Foundation
<1>2. TypeOK' /\ CrashNeverStrands'
  BY <1>1 DEF TypeOK, CrashNeverStrands
<1>3. Running' /\ Behind' /\ Kept'
  BY <1>1 DEF Running, Behind, Kept
<1>4. OneFoundation'
  BY <1>1 DEF OneFoundation
<1> QED
  BY <1>2, <1>3, <1>4

LEMMA WriteKeeps == ASSUME StartupInd, Write PROVE StartupInd'
<1> USE DEF StartupInd, Write
<1>1. /\ pc \in {"boot", "ready", "serving"} /\ brain \in Brain /\ Exists(brain) /\ brain.events = journal
      /\ journal \in Seq(Command) /\ IsPrefix(journal, journal)
  BY BrainExists, OwnPrefix DEF TypeOK, Running
<1>2. /\ Tail(owes) \in Seq({"memory", "checkpoint"}) /\ Len(Tail(owes)) <= 3
  <2>1. owes \in Seq({"memory", "checkpoint"}) /\ owes # <<>> /\ Len(owes) <= 3
    BY DEF TypeOK
  <2>2. Len(owes) \in Nat /\ Len(Tail(owes)) = Len(owes) - 1 /\ Tail(owes) \in Seq({"memory", "checkpoint"})
    BY <2>1, HeadTailProperties, LenProperties
  <2> QED
    BY <2>1, <2>2
<1>3. Saved(brain) \in [brain : Brain \cup {None}, complete : BOOLEAN] /\ Saved(brain).brain = brain
  BY <1>1 DEF Saved, Has
<1>4. /\ memory' = memory \/ memory'.brain = brain
      /\ ckpt' = ckpt \/ ckpt' = brain
      /\ memory' \in [brain : Brain \cup {None}, complete : BOOLEAN]
      /\ ckpt' \in Brain \cup {None}
  BY <1>1, <1>3 DEF TypeOK
<1>5. TypeOK'
  BY <1>2, <1>4 DEF TypeOK
<1>6. Running' /\ Behind' /\ Kept' /\ CrashNeverStrands'
  BY <1>1, <1>4 DEF Running, Behind, Kept, CrashNeverStrands
<1>7. OneFoundation'
  BY <1>1, <1>4 DEF OneFoundation
<1> QED
  BY <1>5, <1>6, <1>7

LEMMA WriteFailsKeeps == ASSUME StartupInd, WriteFails PROVE StartupInd'
<1>1. /\ owes # <<>> /\ pc \in {"boot", "ready", "serving"}
      /\ owes \in Seq({"memory", "checkpoint"}) /\ torn \in BOOLEAN
  BY DEF WriteFails, StartupInd, Running, TypeOK
<1>2. CASE pc \in {"boot", "ready"}
  BY <1>1, <1>2, DownKeeps DEF WriteFails, disk
<1>3. CASE pc \notin {"boot", "ready"}
  <2> USE DEF StartupInd
  <2>1. /\ owes' = IF Len(owes) = 3 THEN Tail(owes) ELSE <<>>
        /\ UNCHANGED <<journal, torn, memory, ckpt, pc, brain, refused, loaded, removed, origin>>
    BY <1>3 DEF WriteFails, disk
  <2>2. owes' \in Seq({"memory", "checkpoint"}) /\ Len(owes') <= 3
    <3>1. Tail(owes) \in Seq({"memory", "checkpoint"}) /\ Len(Tail(owes)) = Len(owes) - 1
      BY <1>1, HeadTailProperties
    <3>2. <<>> \in Seq({"memory", "checkpoint"}) /\ Len(<<>>) = 0
      BY EmptySeq
    <3>3. CASE Len(owes) = 3
      <4>1. Len(Tail(owes)) <= 3
        <5>1. 3 - 1 <= 3
          OBVIOUS
        <5> QED
          BY <3>1, <3>3, <5>1, Zenon
      <4> QED
        BY <2>1, <3>1, <3>3, <4>1
    <3>4. CASE Len(owes) # 3
      BY <2>1, <3>2, <3>4
    <3> QED
      BY <3>3, <3>4
  <2>3. TypeOK' /\ CrashNeverStrands'
    BY <2>1, <2>2 DEF TypeOK, CrashNeverStrands
  <2>4. Running' /\ Behind' /\ Kept' /\ OneFoundation'
    BY <1>1, <2>1 DEF Running, Behind, Kept, OneFoundation
  <2> QED
    BY <2>3, <2>4
<1> QED
  BY <1>2, <1>3
-----------------------------------------------------------------------------
(* The operator.                                                           *)

LEMMA OperatorKeeps ==
    ASSUME StartupInd, RemoveCheckpoint \/ RemoveMemory \/ RepairJournal
    PROVE  StartupInd'
<1> USE DEF StartupInd, RemoveCheckpoint, RemoveMemory, RepairJournal, process
<1>1. TypeOK'
  BY NoMemory DEF TypeOK
<1>2. Running' /\ Behind' /\ Kept' /\ CrashNeverStrands'
  BY NoMemory DEF Running, Behind, Kept, CrashNeverStrands, Exists
<1>3. OneFoundation'
  BY NoMemory DEF OneFoundation, Exists
<1> QED
  BY <1>1, <1>2, <1>3

LEMMA StartupStep == StartupInd /\ [Next]_vars => StartupInd'
<1> SUFFICES ASSUME StartupInd, [Next]_vars PROVE StartupInd'
  OBVIOUS
<1>1. CASE StartUnreadable
  BY <1>1, RefuseKeeps DEF StartUnreadable
<1>2. CASE UNCHANGED vars
  BY <1>2 DEF vars, StartupInd, TypeOK, Running, Behind, Kept, OneFoundation, CrashNeverStrands, Exists
<1> QED
  BY <1>1, <1>2, FromCheckpointKeeps, FromServingMemoryKeeps, FromJournalKeeps, FreshKeeps, AnchorKeeps,
     CommitsKeep, BootstrapRefusedKeeps, ServesKeeps, WriteKeeps, WriteFailsKeeps, CrashKeeps, OperatorKeeps
     DEF Next

(* The inductive invariant holds in every reachable state. *)
THEOREM StartupInvariance == Spec => []StartupInd
<1> QED
  BY StartupInit, StartupStep, PTL DEF Spec

(* What is served grew from the foundation served first by exactly the     *)
(* committed events, and is anchored before its first write, whatever      *)
(* crashes, write failures and removals came before                        *)
(* (initializeProductionHorizon).                                          *)
THEOREM OneBrain == Spec => []SameBrain
<1>1. StartupInd => SameBrain
  <2> SUFFICES ASSUME StartupInd PROVE SameBrain
    OBVIOUS
  <2> USE DEF StartupInd
  <2>1. ASSUME pc = "serving" PROVE brain = [base |-> origin, events |-> journal]
    <3>1. brain \in Brain /\ brain.events = journal /\ brain.base = origin
      BY <2>1 DEF TypeOK, Running, OneFoundation
    <3> QED
      BY <3>1 DEF Brain
  <2>2. ASSUME pc \in {"main", "boot", "ready", "serving"}
        PROVE  Exists(ckpt) /\ ckpt.base = brain.base /\ Anchors(ckpt)
    BY <2>2 DEF Kept, OneFoundation, Behind, Anchors
  <2> QED
    BY <2>1, <2>2 DEF SameBrain
<1> QED
  BY <1>1, StartupInvariance, PTL

(* A start is refused only for a partial journal record or for a           *)
(* checkpoint the operator has taken away: no crash leaves files that      *)
(* initializeProductionHorizon does not accept.                            *)
THEOREM CrashesRecover == Spec => []CrashNeverStrands
<1>1. StartupInd => CrashNeverStrands
  BY DEF StartupInd
<1> QED
  BY <1>1, StartupInvariance, PTL

-----------------------------------------------------------------------------
(* Reading the journal line by line.                                       *)

Read(lines) == FoldLeft(ReadLine, Nothing, lines)
Result == [ok : BOOLEAN, events : Seq(FLine), seen : SUBSET FLine, intent : FLine \cup {NoLine}]
ReadBy(f, lines) ==
    f = [s \in SUBSET DOMAIN lines |->
            IF s = {} THEN Nothing ELSE ReadLine(f[s \ {Max(s)}], lines[Max(s)])]

(* A set of sequences with the empty one, and with every extension of its  *)
(* members, has all of them.                                               *)
LEMMA LinesInduction ==
    ASSUME NEW S, NEW T, <<>> \in T,
           \A s \in Seq(S), x \in S : s \in T => Append(s, x) \in T
    PROVE  Seq(S) \subseteq T
<1> DEFINE N == {k \in Nat : \A s \in Seq(S) : Len(s) = k => s \in T}
<1>1. 0 \in N
  <2>1. \A s \in Seq(S) : Len(s) = 0 => s = <<>>
    BY EmptySeq
  <2> QED
    BY <2>1
<1>2. ASSUME NEW k \in Nat, k \in N PROVE k + 1 \in N
  <2>1. ASSUME NEW s \in Seq(S), Len(s) = k + 1 PROVE s \in T
    <3>1. s # <<>>
      BY <2>1, EmptySeq
    <3>2. PICK p \in Seq(S), x \in S : s = Append(p, x)
      BY <3>1, SequenceEmptyOrAppend
    <3>3. Len(s) = Len(p) + 1 /\ Len(p) \in Nat
      BY <3>2, AppendProperties, LenProperties
    <3>4. p \in T
      BY <1>2, <2>1, <3>3
    <3> QED
      BY <3>2, <3>4
  <2> QED
    BY <2>1
<1> HIDE DEF N
<1>3. Nat \subseteq N
  BY <1>1, <1>2, Induction
<1>4. ASSUME NEW s \in Seq(S) PROVE s \in T
  <2>1. Len(s) \in N
    BY <1>3, LenProperties
  <2> QED
    BY <2>1 DEF N
<1> QED
  BY <1>4

(* The start of a reading.                                                 *)
LEMMA NothingRead == Nothing \in Result /\ NoLine \notin FLine
<1>1. <<>> \in Seq(FLine)
  BY EmptySeq
<1> QED
  BY <1>1 DEF Nothing, Result, NoLine, FLine

(* What one line adds to what was read.                                    *)
LEMMA LineRead ==
    ASSUME NEW r \in Result, NEW x \in FLine, NEW q, q = ReadLine(r, x)
    PROVE  /\ q \in Result
           /\ q.ok => r.ok /\ Decodes(x)
           /\ \/ q.events = r.events /\ q.intent = r.intent
              \/ q.events = r.events /\ q.intent = x /\ q.ok /\ x.kind = "intent"
              \/ q.events = Append(r.events, x) /\ q.intent = r.intent /\ x.kind # "intent"
                 /\ q.ok
              \/ q.events = Append(r.events, r.intent) /\ q.intent = NoLine
                 /\ r.intent # NoLine /\ x.kind # "intent" /\ q.ok
<1>0. NoLine \notin FLine /\ r.intent \in FLine \cup {NoLine} /\ r.events \in Seq(FLine)
  BY NothingRead DEF Result
<1>1. PICK ok \in BOOLEAN, events \in Seq(FLine), seen \in SUBSET FLine,
           intent \in FLine \cup {NoLine} :
             r = [ok |-> ok, events |-> events, seen |-> seen, intent |-> intent]
  BY DEF Result
<1>2. r.ok = ok /\ r.events = events /\ r.seen = seen /\ r.intent = intent
  BY <1>1
<1>3. CASE q = r /\ (r.ok => Decodes(x))
  BY <1>3
<1>4. CASE q = Reject(r)
  <2>1. q = [ok |-> FALSE, events |-> events, seen |-> seen, intent |-> intent]
    BY <1>1, <1>4 DEF Reject
  <2> QED
    BY <1>2, <2>1 DEF Result
<1>5. CASE /\ q = [r EXCEPT !.events = Append(@, r.intent), !.seen = @ \cup {x}, !.intent = NoLine]
           /\ r.ok /\ Decodes(x) /\ r.intent # NoLine /\ x.kind = "commit"
  <2>1. q = [ok |-> ok, events |-> Append(events, intent), seen |-> seen \cup {x},
             intent |-> NoLine]
    BY <1>1, <1>5
  <2>2. Append(events, intent) \in Seq(FLine)
    BY <1>2, <1>5, AppendProperties
  <2>3. seen \cup {x} \in SUBSET FLine
    OBVIOUS
  <2> QED
    BY <1>2, <1>5, <2>1, <2>2, <2>3 DEF Result
<1>6. CASE /\ q = [r EXCEPT !.intent = x, !.seen = @ \cup {x}]
           /\ r.ok /\ Decodes(x) /\ x.kind = "intent"
  <2>1. q = [ok |-> ok, events |-> events, seen |-> seen \cup {x}, intent |-> x]
    BY <1>1, <1>6
  <2>2. seen \cup {x} \in SUBSET FLine
    OBVIOUS
  <2> QED
    BY <1>2, <1>6, <2>1, <2>2 DEF Result
<1>7. CASE /\ q = [r EXCEPT !.events = Append(@, x), !.seen = @ \cup {x}]
           /\ r.ok /\ Decodes(x) /\ x.kind # "intent"
  <2>1. q = [ok |-> ok, events |-> Append(events, x), seen |-> seen \cup {x}, intent |-> intent]
    BY <1>1, <1>7
  <2>2. Append(events, x) \in Seq(FLine)
    BY AppendProperties
  <2>3. seen \cup {x} \in SUBSET FLine
    OBVIOUS
  <2> QED
    BY <1>2, <1>7, <2>1, <2>2, <2>3 DEF Result
<1>8. x.seq \in Nat /\ Expected(r) \in Int
  <2>1. Len(events) \in Nat
    BY LenProperties
  <2> QED
    BY <1>2, <2>1 DEF FLine, Expected
<1>9. CASE ~r.ok \/ ~Decodes(x) \/ x.seq > Expected(r)
  BY <1>3, <1>4, <1>9, Zenon DEF ReadLine
<1>10. CASE r.ok /\ Decodes(x) /\ ~(x.seq > Expected(r)) /\ x.seq < Expected(r)
  BY <1>3, <1>4, <1>10, Zenon DEF ReadLine
<1>11. CASE r.ok /\ Decodes(x) /\ ~(x.seq > Expected(r)) /\ ~(x.seq < Expected(r)) /\ r.intent # NoLine
  BY <1>4, <1>5, <1>11, Zenon DEF ReadLine
<1>12. CASE r.ok /\ Decodes(x) /\ ~(x.seq > Expected(r)) /\ ~(x.seq < Expected(r)) /\ r.intent = NoLine
  BY <1>4, <1>6, <1>7, <1>12, Zenon DEF ReadLine
<1> QED
  BY <1>9, <1>10, <1>11, <1>12

(* ReadEventLog reads line after line.                                     *)
LEMMA ReadUnfolds ==
    ASSUME NEW lines \in Seq(FLine), NEW n \in Nat, DOMAIN lines = 1 .. n
    PROVE  \E f \in [SUBSET (1 .. n) -> Result] : ReadBy(f, lines) /\ Read(lines) = f[1 .. n]
<1> DEFINE it == CHOOSE f : f = [s \in SUBSET DOMAIN lines |->
                     IF s = {} THEN Nothing ELSE ReadLine(f[s \ {Max(s)}], lines[Max(s)])]
           step == [v \in Result \X (1 .. n) |-> ReadLine(v[1], lines[v[2]])]
<1>1. Read(lines) = it[DOMAIN lines]
  BY Zenon DEF Read, FoldLeft, MapThenFoldSet
<1>2. it = CHOOSE f : ReadBy(f, lines)
  BY Zenon DEF ReadBy
<1>3. \A r \in Result, k \in 1 .. n : ReadLine(r, lines[k]) \in Result
  <2> SUFFICES ASSUME NEW r \in Result, NEW k \in 1 .. n PROVE ReadLine(r, lines[k]) \in Result
    OBVIOUS
  <2>1. lines[k] \in FLine
    BY ElementOfSeq, LenProperties
  <2> QED
    BY <2>1, LineRead, Zenon
<1>4. step \in [Result \X (1 .. n) -> Result]
      /\ \A v \in Result, k \in 1 .. n : step[<<v, k>>] = ReadLine(v, lines[k])
  BY <1>3
<1> HIDE DEF step, it
<1>5. PICK g \in [SUBSET (1 .. n) -> Result] : Folded(g, n, Nothing, step)
  BY <1>4, NothingRead, FoldExists, Zenon
<1>6. ReadBy(g, lines)
  <2>1. ASSUME NEW s \in SUBSET (1 .. n)
        PROVE  g[s] = IF s = {} THEN Nothing ELSE ReadLine(g[s \ {Max(s)}], lines[Max(s)])
    <3>1. CASE s = {}
      BY <1>5, <3>1, Zenon DEF Folded
    <3>2. CASE s # {}
      <4>1. Max(s) \in s /\ s \ {Max(s)} \in SUBSET (1 .. n)
        BY <3>2, MaxIsIn
      <4>2. g[s] = step[<<g[s \ {Max(s)}], Max(s)>>]
        BY <1>5, <3>2, Zenon DEF Folded
      <4>3. g[s \ {Max(s)}] \in Result /\ Max(s) \in 1 .. n
        BY <4>1
      <4> QED
        BY <1>4, <3>2, <4>2, <4>3
    <3> QED
      BY <3>1, <3>2
  <2>2. g = [s \in SUBSET (1 .. n) |-> g[s]]
    OBVIOUS
  <2> QED
    BY <2>1, <2>2, Zenon DEF ReadBy
<1>7. ReadBy(it, lines)
  BY <1>2, <1>6, Zenon
<1>8. ASSUME NEW s \in SUBSET (1 .. n), s # {}, it[s \ {Max(s)}] = g[s \ {Max(s)}]
      PROVE  it[s] = g[s]
  BY <1>6, <1>7, <1>8, Zenon DEF ReadBy
<1>9. it[{}] = g[{}]
  <2>1. {} \in SUBSET (1 .. n)
    OBVIOUS
  <2> QED
    BY <1>6, <1>7, <2>1, Zenon DEF ReadBy
<1>10. it[1 .. n] = g[1 .. n]
  BY <1>8, <1>9, FoldUnique
<1> QED
  BY <1>1, <1>6, <1>10

(* What is read of a file is what its last line adds to what precedes it.  *)
LEMMA ReadSteps ==
    /\ Read(<<>>) = Nothing
    /\ \A s \in Seq(FLine), x \in FLine : Read(Append(s, x)) = ReadLine(Read(s), x)
    /\ \A s \in Seq(FLine) : Read(s) \in Result
<1>1. Read(<<>>) = Nothing
  <2> DEFINE none == <<>>
  <2>1. none \in Seq(FLine) /\ DOMAIN none = 1 .. 0 /\ 1 .. 0 = {}
    BY EmptySeq
  <2> HIDE DEF none
  <2>2. PICK f \in [SUBSET (1 .. 0) -> Result] : ReadBy(f, none) /\ Read(none) = f[1 .. 0]
    BY <2>1, ReadUnfolds
  <2>3. f[{}] = Nothing
    <3>1. {} \in SUBSET DOMAIN none
      OBVIOUS
    <3> QED
      BY <2>2, <3>1, Zenon DEF ReadBy
  <2> QED
    BY <2>1, <2>2, <2>3 DEF none
<1>2. ASSUME NEW s \in Seq(FLine), NEW x \in FLine
      PROVE  Read(Append(s, x)) = ReadLine(Read(s), x) /\ Read(s) \in Result
  <2>1. PICK n \in Nat : n = Len(s) /\ DOMAIN s = 1 .. n
    BY LenProperties
  <2>2. PICK t \in Seq(FLine) : t = Append(s, x) /\ DOMAIN t = 1 .. n + 1 /\ t[n + 1] = x
                                /\ \A i \in 1 .. n : t[i] = s[i]
    <3>1. /\ Append(s, x) \in Seq(FLine) /\ Len(Append(s, x)) = n + 1
          /\ Append(s, x)[n + 1] = x /\ \A i \in 1 .. n : Append(s, x)[i] = s[i]
      <4>1. /\ Append(s, x) \in Seq(FLine) /\ Len(Append(s, x)) = Len(s) + 1
            /\ Append(s, x)[Len(s) + 1] = x
            /\ \A i \in 1 .. Len(s) : Append(s, x)[i] = s[i]
        BY AppendProperties
      <4> QED
        BY <2>1, <4>1, Zenon
    <3> QED
      BY <3>1, LenProperties
  <2>3. PICK f \in [SUBSET (1 .. n) -> Result] : ReadBy(f, s) /\ Read(s) = f[1 .. n]
    BY <2>1, ReadUnfolds
  <2>4. PICK g \in [SUBSET (1 .. n + 1) -> Result] : ReadBy(g, t) /\ Read(t) = g[1 .. n + 1]
    <3>1. n + 1 \in Nat
      OBVIOUS
    <3> QED
      BY <2>2, <3>1, ReadUnfolds
  <2>5. ASSUME NEW u \in SUBSET (1 .. n), u # {}, f[u \ {Max(u)}] = g[u \ {Max(u)}]
        PROVE  f[u] = g[u]
    <3>1. u \in SUBSET (1 .. n + 1) /\ Max(u) \in 1 .. n
      <4>1. Max(u) \in u
        BY <2>5, MaxIsIn
      <4>2. 1 .. n \subseteq 1 .. n + 1
        OBVIOUS
      <4> QED
        BY <4>1, <4>2, Zenon
    <3>2. f[u] = ReadLine(f[u \ {Max(u)}], s[Max(u)])
      BY <2>1, <2>3, <2>5, Zenon DEF ReadBy
    <3>3. g[u] = ReadLine(g[u \ {Max(u)}], t[Max(u)])
      BY <2>2, <2>4, <2>5, <3>1, Zenon DEF ReadBy
    <3> QED
      BY <2>2, <2>5, <3>1, <3>2, <3>3, Zenon
  <2>6. f[{}] = g[{}]
    <3>1. {} \in SUBSET DOMAIN s /\ {} \in SUBSET DOMAIN t
      OBVIOUS
    <3>2. f[{}] = Nothing
      BY <2>3, <3>1, Zenon DEF ReadBy
    <3>3. g[{}] = Nothing
      BY <2>4, <3>1, Zenon DEF ReadBy
    <3> QED
      BY <3>2, <3>3
  <2>7. f[1 .. n] = g[1 .. n]
    BY <2>5, <2>6, FoldUnique
  <2>8. /\ 1 .. n + 1 \in SUBSET (1 .. n + 1) /\ 1 .. n + 1 # {}
        /\ Max(1 .. n + 1) = n + 1 /\ (1 .. n + 1) \ {Max(1 .. n + 1)} = 1 .. n
    <3>1. n + 1 \in Nat /\ n < n + 1
      OBVIOUS
    <3> QED
      BY <3>1, PrefixFolded
  <2> DEFINE all == 1 .. n + 1
  <2>9. all \in SUBSET DOMAIN t
    BY <2>2, <2>8
  <2>10. g[all] = ReadLine(g[all \ {Max(all)}], t[Max(all)])
    BY <2>4, <2>8, <2>9, Zenon DEF ReadBy
  <2>11. g[all] = ReadLine(f[1 .. n], x)
    BY <2>2, <2>7, <2>8, <2>10, Zenon
  <2>12. f[1 .. n] \in Result /\ Read(t) = g[all]
    <3>1. 1 .. n \in SUBSET (1 .. n)
      OBVIOUS
    <3> QED
      BY <2>3, <2>4, <3>1 DEF all
  <2> QED
    BY <2>2, <2>3, <2>11, <2>12
<1>3. FLine # {}
  <2>1. [seq |-> 0, kind |-> "process", of |-> 0, enc |-> FALSE, schema |-> 0, end |-> "line"] \in FLine
    BY DEF FLine
  <2> QED
    BY <2>1
<1> QED
  BY <1>1, <1>2, <1>3

(* What a line to come next, or to be told apart from a repetition, adds.  *)
LEMMA NextLine ==
    ASSUME NEW r \in Result, NEW x \in FLine, x.seq >= Len(r.events) + 1,
           NEW q, q = ReadLine(r, x), q.ok
    PROVE  /\ r.ok /\ Decodes(x) /\ x.seq = Expected(r)
           /\ r.intent # NoLine => /\ x.kind = "commit" /\ x.of = r.intent.of
                                   /\ q.events = Append(r.events, r.intent) /\ q.intent = NoLine
           /\ r.intent = NoLine /\ x.kind = "intent" => q.events = r.events /\ q.intent = x
           /\ r.intent = NoLine /\ x.kind # "intent" =>
                /\ x.kind # "commit"
                /\ q.events = Append(r.events, x) /\ q.intent = NoLine
<1>1. PICK ok \in BOOLEAN, events \in Seq(FLine), seen \in SUBSET FLine,
           intent \in FLine \cup {NoLine} :
             r = [ok |-> ok, events |-> events, seen |-> seen, intent |-> intent]
  BY DEF Result
<1>2. x.seq \in Nat /\ Expected(r) = Len(events) + 1 /\ Len(events) \in Nat /\ r.events = events
  BY <1>1, LenProperties DEF FLine, Expected
<1>3. Reject(r).ok = FALSE
  BY <1>1 DEF Reject
<1>4. r.ok /\ Decodes(x) /\ ~(x.seq > Expected(r))
  BY <1>3, Zenon DEF ReadLine
<1>5. ~(x.seq < Expected(r)) /\ x.seq = Expected(r)
  BY <1>2, <1>4
<1>6. CASE r.intent # NoLine
  <2>1. /\ x.kind = "commit" /\ x.of = r.intent.of
        /\ q = [r EXCEPT !.events = Append(@, r.intent), !.seen = @ \cup {x}, !.intent = NoLine]
    BY <1>3, <1>4, <1>5, <1>6, Zenon DEF ReadLine
  <2>2. q.events = Append(r.events, r.intent) /\ q.intent = NoLine
    BY <1>1, <2>1
  <2> QED
    BY <1>4, <1>5, <1>6, <2>1, <2>2
<1>7. CASE r.intent = NoLine /\ x.kind = "intent"
  <2>1. q = [r EXCEPT !.intent = x, !.seen = @ \cup {x}]
    BY <1>3, <1>4, <1>5, <1>7, Zenon DEF ReadLine
  <2>2. q.events = r.events /\ q.intent = x
    BY <1>1, <2>1
  <2> QED
    BY <1>4, <1>5, <1>7, <2>2
<1>8. CASE r.intent = NoLine /\ x.kind # "intent"
  <2>1. x.kind # "commit" /\ q = [r EXCEPT !.events = Append(@, x), !.seen = @ \cup {x}]
    BY <1>3, <1>4, <1>5, <1>8, Zenon DEF ReadLine
  <2>2. q.events = Append(r.events, x) /\ q.intent = r.intent
    BY <1>1, <2>1
  <2> QED
    BY <1>4, <1>5, <1>8, <2>1, <2>2
<1> QED
  BY <1>6, <1>7, <1>8

(* A line is read alike with and without its newline.                      *)
LEMMA BareReads ==
    ASSUME NEW r \in Result, NEW x \in FLine, x.end = "line", NEW y, y = [x EXCEPT !.end = "bare"]
    PROVE  /\ y \in FLine
           /\ ReadLine(r, y).ok = ReadLine(r, x).ok
           /\ Len(ReadLine(r, y).events) = Len(ReadLine(r, x).events)
<1>1. PICK seq \in Nat, kind \in {"process", "intent", "commit", "migration"}, of \in Nat,
           enc \in BOOLEAN, schema \in Nat :
             x = [seq |-> seq, kind |-> kind, of |-> of, enc |-> enc, schema |-> schema, end |-> "line"]
  BY DEF FLine
<1>2. y = [seq |-> seq, kind |-> kind, of |-> of, enc |-> enc, schema |-> schema, end |-> "bare"]
  BY <1>1
<1>3. /\ y \in FLine /\ Decodes(x) /\ Decodes(y) /\ y.seq = x.seq /\ y.kind = x.kind
      /\ y.of = x.of /\ y.enc = x.enc /\ y.schema = x.schema
  BY <1>1, <1>2 DEF FLine, Decodes
<1>4. ValidPayload(y) = ValidPayload(x)
  BY <1>3, Zenon DEF ValidPayload
<1>5. \A z : Same(z, x) = Same(z, y)
  <2>1. [x EXCEPT !.end = "line"] = [y EXCEPT !.end = "line"]
    BY <1>1, <1>2
  <2> QED
    BY <2>1, Zenon DEF Same
<1>6. (\E z \in r.seen : Same(z, x)) <=> (\E z \in r.seen : Same(z, y))
  BY <1>5
<1>7. PICK ok \in BOOLEAN, events \in Seq(FLine), seen \in SUBSET FLine,
           intent \in FLine \cup {NoLine} :
             r = [ok |-> ok, events |-> events, seen |-> seen, intent |-> intent]
  BY DEF Result
<1> DEFINE Grown(z) == [r EXCEPT !.events = Append(@, z), !.seen = @ \cup {z}]
           Held(z) == [r EXCEPT !.intent = z, !.seen = @ \cup {z}]
           Done(z) == [r EXCEPT !.events = Append(@, r.intent), !.seen = @ \cup {z}, !.intent = NoLine]
<1>8. /\ Grown(y).ok = Grown(x).ok /\ Held(y).ok = Held(x).ok /\ Done(y).ok = Done(x).ok
      /\ Held(y).events = Held(x).events /\ Done(y).events = Done(x).events
      /\ Grown(y).events = Append(events, y) /\ Grown(x).events = Append(events, x)
  BY <1>7
<1>9. Len(Grown(y).events) = Len(Grown(x).events)
  BY <1>3, <1>8, AppendProperties
<1> DEFINE Step(z) == Decodes(z)
<1>10. \/ ReadLine(r, y) = ReadLine(r, x)
       \/ ReadLine(r, y) = Grown(y) /\ ReadLine(r, x) = Grown(x)
       \/ ReadLine(r, y) = Held(y) /\ ReadLine(r, x) = Held(x)
       \/ ReadLine(r, y) = Done(y) /\ ReadLine(r, x) = Done(x)
  <2>1. CASE ~r.ok \/ x.seq > Expected(r)
    BY <1>3, <2>1, Zenon DEF ReadLine
  <2>2. CASE r.ok /\ ~(x.seq > Expected(r)) /\ x.seq < Expected(r)
    BY <1>3, <1>6, <2>2, Zenon DEF ReadLine
  <2>3. CASE r.ok /\ ~(x.seq > Expected(r)) /\ ~(x.seq < Expected(r)) /\ r.intent # NoLine
    BY <1>3, <1>4, <2>3, Zenon DEF ReadLine
  <2>4. CASE r.ok /\ ~(x.seq > Expected(r)) /\ ~(x.seq < Expected(r)) /\ r.intent = NoLine
    BY <1>3, <1>4, <2>4, Zenon DEF ReadLine
  <2> QED
    BY <2>1, <2>2, <2>3, <2>4
<1> HIDE DEF Grown, Held, Done
<1> QED
  BY <1>3, <1>8, <1>9, <1>10

(* A file is read at least as far as what precedes its end.                *)
Within(r, q) == Len(r.events) <= Len(q.events) /\ (q.ok => r.ok)

(* A line takes nothing from what was read.                                *)
LEMMA LineWithin ==
    ASSUME NEW r \in Result, NEW x \in FLine
    PROVE  Within(r, ReadLine(r, x))
<1>1. PICK q \in Result : q = ReadLine(r, x)
  BY LineRead
<1>2. r.events \in Seq(FLine) /\ Len(r.events) \in Nat
  BY LenProperties DEF Result
<1>3. q.events = r.events \/ \E y \in FLine : q.events = Append(r.events, y)
  <2>1. r.intent # NoLine => r.intent \in FLine
    BY DEF Result
  <2> QED
    BY <1>1, <2>1, LineRead
<1>4. Len(r.events) <= Len(q.events)
  BY <1>2, <1>3, AppendProperties
<1>5. q.ok => r.ok
  BY <1>1, LineRead
<1> QED
  BY <1>1, <1>4, <1>5 DEF Within

(* Beginnings of a sequence and of one with an element more.               *)
LEMMA PrefixOfAppend ==
    ASSUME NEW S, NEW s \in Seq(S), NEW x \in S
    PROVE  /\ Append(s, x) \in Seq(S) /\ Len(Append(s, x)) = Len(s) + 1 /\ Len(s) \in Nat
           /\ \A i \in 0 .. Len(s) : SubSeq(Append(s, x), 1, i) = SubSeq(s, 1, i)
           /\ SubSeq(Append(s, x), 1, Len(s)) = s
           /\ SubSeq(Append(s, x), 1, Len(s) + 1) = Append(s, x)
<1>1. PICK n \in Nat, t \in Seq(S) : /\ n = Len(s) /\ t = Append(s, x) /\ Len(t) = n + 1
                                     /\ \A i \in 1 .. n : t[i] = s[i]
  <2>1. Append(s, x) \in Seq(S) /\ Len(Append(s, x)) = Len(s) + 1
        /\ \A i \in 1 .. Len(s) : Append(s, x)[i] = s[i]
    BY AppendProperties
  <2> QED
    BY <2>1, LenProperties
<1>2. ASSUME NEW i \in 0 .. n PROVE SubSeq(t, 1, i) = SubSeq(s, 1, i)
  <2>1. /\ SubSeq(t, 1, i) = [j \in 1 .. i |-> t[j]]
        /\ SubSeq(s, 1, i) = [j \in 1 .. i |-> s[j]]
    BY <1>1
  <2>2. \A j \in 1 .. i : t[j] = s[j]
    BY <1>1
  <2> QED
    BY <2>1, <2>2
<1>3. SubSeq(s, 1, n) = s /\ SubSeq(t, 1, n + 1) = t
  BY <1>1, SubSeqFull
<1>4. n \in 0 .. n
  OBVIOUS
<1> QED
  BY <1>1, <1>2, <1>3, <1>4

(* What is read of a beginning of a file is read of the file.              *)
LEMMA PrefixWithin ==
    ASSUME NEW s \in Seq(FLine), NEW k \in 0 .. Len(s)
    PROVE  SubSeq(s, 1, k) \in Seq(FLine) /\ Within(Read(SubSeq(s, 1, k)), Read(s))
<1> DEFINE T == {t \in Seq(FLine) : \A i \in 0 .. Len(t) :
                    SubSeq(t, 1, i) \in Seq(FLine) /\ Within(Read(SubSeq(t, 1, i)), Read(t))}
<1>0. \A t \in Seq(FLine) : Within(Read(t), Read(t))
  <2> SUFFICES ASSUME NEW t \in Seq(FLine) PROVE Within(Read(t), Read(t))
    OBVIOUS
  <2>1. Len(Read(t).events) \in Nat
    BY ReadSteps, LenProperties DEF Result
  <2> QED
    BY <2>1 DEF Within
<1>1. <<>> \in T
  <2>1. <<>> \in Seq(FLine) /\ Len(<<>>) = 0
    BY EmptySeq
  <2>2. SubSeq(<<>>, 1, 0) = <<>>
    OBVIOUS
  <2>3. \A i \in 0 .. 0 : i = 0
    OBVIOUS
  <2> QED
    BY <1>0, <2>1, <2>2, <2>3
<1>2. ASSUME NEW t \in Seq(FLine), NEW x \in FLine, t \in T PROVE Append(t, x) \in T
  <2>1. PICK n \in Nat, u \in Seq(FLine) : /\ u = Append(t, x) /\ Len(u) = n + 1 /\ n = Len(t)
                                           /\ \A i \in 0 .. n : SubSeq(u, 1, i) = SubSeq(t, 1, i)
                                           /\ SubSeq(u, 1, n + 1) = u
    <3>1. /\ Append(t, x) \in Seq(FLine) /\ Len(Append(t, x)) = Len(t) + 1 /\ Len(t) \in Nat
          /\ \A i \in 0 .. Len(t) : SubSeq(Append(t, x), 1, i) = SubSeq(t, 1, i)
          /\ SubSeq(Append(t, x), 1, Len(t) + 1) = Append(t, x)
      BY PrefixOfAppend, Zenon
    <3> QED
      BY <3>1, Zenon
  <2>2. ASSUME NEW i \in 0 .. n + 1 PROVE SubSeq(u, 1, i) \in Seq(FLine) /\ Within(Read(SubSeq(u, 1, i)), Read(u))
    <3>1. CASE i = n + 1
      BY <1>0, <2>1, <3>1
    <3>2. CASE i # n + 1
      <4>1. i \in 0 .. n
        BY <3>2
      <4>2. SubSeq(u, 1, i) = SubSeq(t, 1, i) /\ SubSeq(t, 1, i) \in Seq(FLine) /\ Within(Read(SubSeq(t, 1, i)), Read(t))
        BY <1>2, <2>1, <4>1
      <4>3. Within(Read(t), Read(u))
        BY <2>1, ReadSteps, LineWithin
      <4>4. PICK a \in Nat, b \in Nat, c \in Nat :
               /\ a = Len(Read(SubSeq(t, 1, i)).events) /\ b = Len(Read(t).events)
               /\ c = Len(Read(u).events)
        BY <4>2, ReadSteps, LenProperties DEF Result
      <4>5. a <= b /\ b <= c
        BY <4>2, <4>3, <4>4, Zenon DEF Within
      <4>6. a <= c
        BY <4>4, <4>5
      <4>7. Read(u).ok => Read(SubSeq(t, 1, i)).ok
        BY <4>2, <4>3, Zenon DEF Within
      <4> QED
        BY <4>2, <4>4, <4>6, <4>7 DEF Within
    <3> QED
      BY <3>1, <3>2
  <2> QED
    BY <2>1, <2>2
<1> HIDE DEF T
<1>3. Seq(FLine) \subseteq T
  BY <1>1, <1>2, LinesInduction
<1>4. s \in T
  BY <1>3
<1> QED
  BY <1>4 DEF T

(* What a power failure may leave of a line.                               *)
LEMMA PartsOf ==
    ASSUME NEW x \in FLine, NEW y \in Parts(x)
    PROVE  /\ y \in FLine /\ y.seq = x.seq /\ y.kind = x.kind /\ y.of = x.of
           /\ ~Decodes(y) \/ (x.end = "line" /\ y = [x EXCEPT !.end = "bare"])
<1>1. y = [x EXCEPT !.end = "torn"] \/ (x.end = "line" /\ y = [x EXCEPT !.end = "bare"])
  BY DEF Parts
<1>2. CASE y = [x EXCEPT !.end = "torn"]
  BY <1>2 DEF FLine, Decodes
<1>3. CASE x.end = "line" /\ y = [x EXCEPT !.end = "bare"]
  BY <1>3 DEF FLine
<1> QED
  BY <1>1, <1>2, <1>3

(* The cases of what it may leave of a file.                               *)
LEMMA LeftOf ==
    ASSUME NEW c \in Seq(FLine), NEW d \in 0 .. Len(c)
    PROVE  /\ c \in Left(c, d) /\ Left(c, Len(c)) = {c}
           /\ \A e \in Left(c, d) :
                 \/ \E k \in d .. Len(c) : e = SubSeq(c, 1, k)
                 \/ \E k \in d + 1 .. Len(c) : \E y \in Parts(c[k]) : e = Append(SubSeq(c, 1, k - 1), y)
<1>1. PICK n \in Nat : n = Len(c)
  BY LenProperties
<1>2. SubSeq(c, 1, n) = c
  BY <1>1, SubSeqFull
<1>3. d .. n \subseteq Int /\ n \in d .. n /\ n .. n = {n} /\ n + 1 .. n = {}
  BY <1>1
<1>4. c \in Left(c, d)
  BY <1>1, <1>2, <1>3 DEF Left
<1>5. Left(c, n) = {c}
  BY <1>1, <1>2, <1>3 DEF Left
<1> QED
  BY <1>1, <1>4, <1>5 DEF Left

LEMMA PrefixAppends ==
    ASSUME NEW c \in Seq(FLine), NEW k \in 1 .. Len(c)
    PROVE  /\ c[k] \in FLine /\ SubSeq(c, 1, k - 1) \in Seq(FLine)
           /\ SubSeq(c, 1, k) = Append(SubSeq(c, 1, k - 1), c[k])
<1>1. c[k] \in FLine /\ Len(c) \in Nat
  BY ElementOfSeq, LenProperties
<1>2. k - 1 \in 0 .. Len(c)
  BY <1>1
<1>3. SubSeq(c, 1, k - 1) \in Seq(FLine)
  BY <1>2, PrefixWithin
<1>4. 1 \in 1 .. Len(c) /\ k \in 1 .. Len(c)
  BY <1>1
<1>5. SubSeq(c, 1, k) = SubSeq(c, 1, k - 1) \o <<c[k]>>
  BY <1>4, SubSeqRecursiveSecond
<1> QED
  BY <1>1, <1>3, <1>5, AppendIsConcat

(* What a power failure leaves reads no further than what was there.       *)
LEMMA LeftWithin ==
    ASSUME NEW c \in Seq(FLine), NEW d \in 0 .. Len(c), NEW e \in Left(c, d)
    PROVE  /\ e \in Seq(FLine)
           /\ Len(Read(e).events) <= Len(Read(c).events)
           /\ Read(c).ok => Read(e).ok \/ \E i \in DOMAIN e : ~Decodes(e[i])
<1>0. Len(c) \in Nat
  BY LenProperties
<1>1. CASE \E k \in d .. Len(c) : e = SubSeq(c, 1, k)
  <2>1. PICK k \in d .. Len(c) : e = SubSeq(c, 1, k)
    BY <1>1
  <2>2. k \in 0 .. Len(c)
    BY <1>0
  <2> QED
    BY <2>1, <2>2, PrefixWithin, Zenon DEF Within
<1>2. CASE \E k \in d + 1 .. Len(c) : \E y \in Parts(c[k]) : e = Append(SubSeq(c, 1, k - 1), y)
  <2>1. PICK k \in d + 1 .. Len(c) : \E y \in Parts(c[k]) : e = Append(SubSeq(c, 1, k - 1), y)
    BY <1>2
  <2>12. PICK y \in Parts(c[k]) : e = Append(SubSeq(c, 1, k - 1), y)
    BY <2>1
  <2>2. k \in 1 .. Len(c) /\ k \in 0 .. Len(c)
    BY <1>0
  <2>3. PICK p \in Seq(FLine), x \in FLine : /\ p = SubSeq(c, 1, k - 1) /\ x = c[k]
                                             /\ SubSeq(c, 1, k) = Append(p, x)
    BY <2>2, PrefixAppends
  <2>4. y \in FLine /\ (~Decodes(y) \/ (x.end = "line" /\ y = [x EXCEPT !.end = "bare"]))
    BY <2>3, <2>12, PartsOf
  <2>5. PICK r \in Result : r = Read(p) /\ Read(e) = ReadLine(r, y) /\ Read(Append(p, x)) = ReadLine(r, x)
    BY <2>12, <2>3, <2>4, ReadSteps
  <2>6. Within(ReadLine(r, x), Read(c)) /\ Within(r, ReadLine(r, x))
    BY <2>2, <2>3, <2>5, PrefixWithin, LineWithin
  <2>7. PICK a \in Nat, b \in Nat, f \in Nat, g \in Nat :
          /\ a = Len(r.events) /\ b = Len(ReadLine(r, x).events) /\ f = Len(Read(c).events)
          /\ g = Len(Read(e).events)
    BY <2>3, <2>4, <2>5, LineRead, ReadSteps, LenProperties DEF Result
  <2>8. a <= b /\ b <= f
    BY <2>6, <2>7, Zenon DEF Within
  <2>9. e \in Seq(FLine) /\ Len(p) + 1 \in DOMAIN e /\ e[Len(p) + 1] = y
    <3>1. e \in Seq(FLine) /\ Len(e) = Len(p) + 1 /\ e[Len(p) + 1] = y /\ Len(p) \in Nat
      BY <2>12, <2>3, <2>4, AppendProperties, LenProperties
    <3> QED
      BY <3>1, LenProperties
  <2>10. CASE ~Decodes(y)
    <3>1. ReadLine(r, y).events = r.events
      BY <2>4, <2>10, LineRead
    <3> QED
      BY <2>5, <2>7, <2>8, <2>9, <2>10, <3>1
  <2>11. CASE x.end = "line" /\ y = [x EXCEPT !.end = "bare"]
    <3>1. ReadLine(r, y).ok = ReadLine(r, x).ok /\ g = b
      BY <2>5, <2>7, <2>11, BareReads
    <3>2. Read(c).ok => ReadLine(r, x).ok
      BY <2>6, Zenon DEF Within
    <3> QED
      BY <2>5, <2>7, <2>8, <2>9, <3>1, <3>2
  <2> QED
    BY <2>4, <2>10, <2>11
<1> QED
  BY <1>1, <1>2, LeftOf

(* What is left after one line more.                                       *)
LEMMA LeftAppend ==
    ASSUME NEW c \in Seq(FLine), NEW d \in 0 .. Len(c), NEW x \in FLine,
           NEW e \in Left(Append(c, x), d)
    PROVE  e \in Left(c, d) \/ \E y \in {x} \cup Parts(x) : e = Append(c, y)
<1>1. PICK n \in Nat, t \in Seq(FLine) :
         /\ n = Len(c) /\ t = Append(c, x) /\ Len(t) = n + 1 /\ t[n + 1] = x
         /\ \A i \in 1 .. n : t[i] = c[i]
         /\ \A i \in 0 .. n : SubSeq(t, 1, i) = SubSeq(c, 1, i)
         /\ SubSeq(t, 1, n) = c /\ SubSeq(t, 1, n + 1) = t
  <2>1. /\ Append(c, x) \in Seq(FLine) /\ Len(Append(c, x)) = Len(c) + 1 /\ Len(c) \in Nat
        /\ \A i \in 0 .. Len(c) : SubSeq(Append(c, x), 1, i) = SubSeq(c, 1, i)
        /\ SubSeq(Append(c, x), 1, Len(c)) = c
        /\ SubSeq(Append(c, x), 1, Len(c) + 1) = Append(c, x)
    BY PrefixOfAppend, Zenon
  <2>2. \A i \in 1 .. Len(c) : Append(c, x)[i] = c[i]
    BY AppendProperties
  <2>3. Append(c, x)[Len(c) + 1] = x
    BY AppendProperties
  <2> QED
    BY <2>1, <2>2, <2>3, Zenon
<1>2. d \in 0 .. n + 1 /\ d \in 0 .. Len(t)
  BY <1>1
<1>3. CASE \E k \in d .. Len(t) : e = SubSeq(t, 1, k)
  <2>1. PICK k \in d .. n + 1 : e = SubSeq(t, 1, k)
    BY <1>1, <1>3
  <2>2. CASE k = n + 1
    BY <1>1, <2>1, <2>2
  <2>3. CASE k # n + 1
    <3>1. k \in d .. n /\ k \in 0 .. n
      BY <1>1, <2>3
    <3>2. e = SubSeq(c, 1, k) /\ k \in d .. Len(c)
      BY <1>1, <2>1, <3>1
    <3> QED
      BY <3>2, Zenon DEF Left
  <2> QED
    BY <2>2, <2>3
<1>4. CASE \E k \in d + 1 .. Len(t) : \E y \in Parts(t[k]) : e = Append(SubSeq(t, 1, k - 1), y)
  <2>1. PICK k \in d + 1 .. n + 1 : \E y \in Parts(t[k]) : e = Append(SubSeq(t, 1, k - 1), y)
    BY <1>1, <1>4
  <2>4. PICK y \in Parts(t[k]) : e = Append(SubSeq(t, 1, k - 1), y)
    BY <2>1
  <2>2. CASE k = n + 1
    <3>1. k - 1 = n
      BY <2>2
    <3> QED
      BY <1>1, <2>4, <2>2, <3>1
  <2>3. CASE k # n + 1
    <3>1. k \in 1 .. n /\ k - 1 \in 0 .. n /\ k \in d + 1 .. Len(c)
      BY <1>1, <2>3
    <3>2. e = Append(SubSeq(c, 1, k - 1), y) /\ y \in Parts(c[k])
      BY <1>1, <2>4, <3>1
    <3> DEFINE Cut(i) == {Append(SubSeq(c, 1, i - 1), part) : part \in Parts(c[i])}
    <3>3. e \in Cut(k)
      BY <3>2
    <3> HIDE DEF Cut
    <3>4. e \in UNION {Cut(i) : i \in d + 1 .. Len(c)}
      BY <3>1, <3>3
    <3> QED
      BY <3>4, Zenon DEF Left, Cut
  <2> QED
    BY <2>2, <2>3
<1>5. \/ \E k \in d .. Len(t) : e = SubSeq(t, 1, k)
      \/ \E k \in d + 1 .. Len(t) : \E y \in Parts(t[k]) : e = Append(SubSeq(t, 1, k - 1), y)
  BY <1>1, <1>2, LeftOf
<1> QED
  BY <1>3, <1>4, <1>5

(* What a repair accepts, were there no disagreement.                      *)
PlainLine(x) == Decodes(x) /\ ValidPayload(x) /\ x.schema < 4 /\ x.kind = "process"
Plain(lines) ==
    /\ lines # <<>> /\ lines[1].seq = 1
    /\ \A i \in DOMAIN lines :
          /\ PlainLine(lines[i])
          /\ i > 1 => lines[i].seq \in lines[i - 1].seq .. lines[i - 1].seq + 1

(* What RepairConflictingSequences accepts is plain.                       *)
LEMMA RepairsPlain == ASSUME NEW c, Repairable(c) PROVE Plain(c)
  BY Zenon DEF Repairable, Plain, PlainLine

(* Lines of plain files count from 1, up by at most one.                   *)
LEMMA PlainAppends ==
    ASSUME NEW p \in Seq(FLine), NEW x \in FLine, Plain(Append(p, x))
    PROVE  /\ PlainLine(x) /\ ~x.enc
           /\ p = <<>> => x.seq = 1
           /\ p # <<>> => Plain(p) /\ p[Len(p)] \in FLine /\ x.seq <= p[Len(p)].seq + 1
<1>1. PICK n \in Nat, t \in Seq(FLine) :
         /\ n = Len(p) /\ t = Append(p, x) /\ Len(t) = n + 1 /\ t[n + 1] = x
         /\ DOMAIN t = 1 .. n + 1 /\ DOMAIN p = 1 .. n /\ \A i \in 1 .. n : t[i] = p[i]
  <2>1. /\ Append(p, x) \in Seq(FLine) /\ Len(Append(p, x)) = Len(p) + 1 /\ Len(p) \in Nat
        /\ \A i \in 1 .. Len(p) : Append(p, x)[i] = p[i]
        /\ Append(p, x)[Len(p) + 1] = x
    BY AppendProperties, LenProperties
  <2> QED
    BY <2>1, LenProperties
<1>2. /\ t[1].seq = 1
      /\ \A i \in 1 .. n + 1 : /\ PlainLine(t[i])
                               /\ i > 1 => t[i].seq \in t[i - 1].seq .. t[i - 1].seq + 1
  BY <1>1, Zenon DEF Plain
<1>3. n + 1 \in 1 .. n + 1
  OBVIOUS
<1>4. PlainLine(x) /\ ~x.enc
  <2>1. PlainLine(x)
    BY <1>1, <1>2, <1>3
  <2> QED
    BY <2>1 DEF PlainLine, ValidPayload, FLine
<1>5. ASSUME p = <<>> PROVE x.seq = 1
  <2>1. n = 0
    BY <1>1, <1>5, EmptySeq
  <2> QED
    BY <1>1, <1>2, <2>1
<1>6. ASSUME p # <<>> PROVE Plain(p) /\ p[Len(p)] \in FLine /\ x.seq <= p[Len(p)].seq + 1
  <2>1. n >= 1
    BY <1>1, <1>6, EmptySeq
  <2>2. p[n] \in FLine /\ p[n].seq \in Nat /\ x.seq \in Nat
    <3>1. n \in 1 .. Len(p)
      BY <1>1, <2>1
    <3>2. p[n] \in FLine
      BY <3>1, ElementOfSeq
    <3> QED
      BY <3>2 DEF FLine
  <2>3. x.seq \in p[n].seq .. p[n].seq + 1
    <3>1. n + 1 > 1 /\ (n + 1) - 1 = n /\ t[n] = p[n]
      BY <1>1, <2>1
    <3> QED
      BY <1>1, <1>2, <1>3, <3>1
  <2>4. p[1].seq = 1
    BY <1>1, <1>2, <2>1
  <2>5. ASSUME NEW i \in 1 .. n
        PROVE  PlainLine(p[i]) /\ (i > 1 => p[i].seq \in p[i - 1].seq .. p[i - 1].seq + 1)
    <3>1. i \in 1 .. n + 1 /\ t[i] = p[i] /\ (i > 1 => i - 1 \in 1 .. n /\ t[i - 1] = p[i - 1])
      BY <1>1
    <3> QED
      BY <1>2, <3>1
  <2>6. Plain(p)
    BY <1>1, <1>6, <2>4, <2>5, Zenon DEF Plain
  <2> QED
    BY <1>1, <2>2, <2>3, <2>6
<1> QED
  BY <1>4, <1>5, <1>6

(* What is read of plain lines has no pending intent and no migration, and *)
(* as many records as the last line says.                                  *)
Calm(r, last) ==
    /\ r.intent = NoLine
    /\ \A i \in DOMAIN r.events : r.events[i].kind = "process" /\ ~r.events[i].enc
    /\ last <= Len(r.events)

(* A command more, and still no contract and no open intent.               *)
LEMMA CalmAppends ==
    ASSUME NEW r \in Result, NEW x \in FLine, x.kind = "process", ~x.enc,
           r.intent = NoLine, NEW q \in Result, q.events = Append(r.events, x), q.intent = NoLine,
           \A i \in DOMAIN r.events : r.events[i].kind = "process" /\ ~r.events[i].enc,
           x.seq <= Len(r.events) + 1
    PROVE  Calm(q, x.seq)
<1>1. /\ r.events \in Seq(FLine) /\ Len(q.events) = Len(r.events) + 1
      /\ \A i \in 1 .. Len(r.events) : q.events[i] = r.events[i]
      /\ q.events[Len(r.events) + 1] = x /\ q.events \in Seq(FLine) /\ Len(r.events) \in Nat
  <2>1. r.events \in Seq(FLine)
    BY DEF Result
  <2> QED
    BY <2>1, AppendProperties, LenProperties
<1>2. DOMAIN q.events = 1 .. Len(r.events) + 1 /\ DOMAIN r.events = 1 .. Len(r.events)
  BY <1>1, LenProperties
<1>3. ASSUME NEW i \in DOMAIN q.events PROVE q.events[i].kind = "process" /\ ~q.events[i].enc
  BY <1>1, <1>2
<1> QED
  BY <1>1, <1>3 DEF Calm

(* A plain file that is read holds commands without a contract.            *)
LEMMA PlainReads ==
    ASSUME NEW s \in Seq(FLine), Plain(s), Read(s).ok
    PROVE  Calm(Read(s), s[Len(s)].seq)
<1> DEFINE T == {t \in Seq(FLine) : Plain(t) /\ Read(t).ok => Calm(Read(t), t[Len(t)].seq)}
<1>1. <<>> \in T
  BY EmptySeq DEF Plain
<1>2. ASSUME NEW p \in Seq(FLine), NEW x \in FLine, p \in T PROVE Append(p, x) \in T
  <2> DEFINE t == Append(p, x)
  <2>1. t \in Seq(FLine) /\ t[Len(t)] = x
    BY AppendProperties
  <2> SUFFICES ASSUME Plain(t), Read(t).ok PROVE Calm(Read(t), x.seq)
    BY <2>1, Zenon
  <2>2. PICK r \in Result, q \in Result : r = Read(p) /\ q = Read(t) /\ q = ReadLine(r, x)
    BY <2>1, ReadSteps
  <2>3. /\ x.kind = "process" /\ ~x.enc /\ x.seq \in Nat
        /\ p = <<>> => x.seq = 1
        /\ p # <<>> => Plain(p) /\ p[Len(p)] \in FLine /\ x.seq <= p[Len(p)].seq + 1
    BY PlainAppends DEF PlainLine, FLine
  <2> HIDE DEF t
  <2>4. Len(r.events) \in Nat
    BY LenProperties DEF Result
  <2>5. /\ r.intent = NoLine /\ x.seq <= Len(r.events) + 1
        /\ \A i \in DOMAIN r.events : r.events[i].kind = "process" /\ ~r.events[i].enc
    <3>1. CASE p = <<>>
      <4>1. r = Nothing
        BY <2>2, <3>1, ReadSteps
      <4>2. r.intent = NoLine /\ r.events = <<>>
        BY <4>1 DEF Nothing
      <4> QED
        BY <2>3, <2>4, <3>1, <4>2
    <3>2. CASE p # <<>>
      <4>1. r.ok
        BY <2>2, LineRead
      <4>2. Calm(r, p[Len(p)].seq)
        BY <1>2, <2>2, <2>3, <3>2, <4>1
      <4>3. p[Len(p)].seq \in Nat
        BY <2>3, <3>2 DEF FLine
      <4> QED
        BY <2>3, <2>4, <3>2, <4>2, <4>3 DEF Calm
    <3> QED
      BY <3>1, <3>2
  <2>6. CASE q.events = Append(r.events, x) /\ q.intent = NoLine
    BY <2>2, <2>3, <2>5, <2>6, CalmAppends
  <2>7. CASE q.events = r.events /\ q.intent = NoLine
    <3>1. CASE x.seq <= Len(r.events)
      BY <2>2, <2>5, <2>7, <3>1 DEF Calm
    <3>2. CASE ~(x.seq <= Len(r.events))
      <4>1. x.seq >= Len(r.events) + 1
        BY <2>3, <2>4, <3>2
      <4>2. q.events = Append(r.events, x) /\ q.intent = NoLine
        BY <2>2, <2>3, <2>5, <4>1, NextLine
      <4> QED
        BY <2>6, <4>2
    <3> QED
      BY <3>1, <3>2
  <2>8. \/ q.events = r.events /\ q.intent = r.intent
        \/ q.events = Append(r.events, x) /\ q.intent = r.intent
    <3>1. q = ReadLine(r, x)
      BY <2>2
    <3>2. \/ q.events = r.events /\ q.intent = r.intent
          \/ x.kind = "intent"
          \/ q.events = Append(r.events, x) /\ q.intent = r.intent
          \/ r.intent # NoLine
      BY <3>1, LineRead
    <3> QED
      BY <2>3, <2>5, <3>2
  <2> QED
    BY <2>5, <2>6, <2>7, <2>8
<1> HIDE DEF T
<1>3. Seq(FLine) \subseteq T
  BY <1>1, <1>2, LinesInduction
<1>4. s \in T
  BY <1>3
<1> QED
  BY <1>4 DEF T

(* Plain lines that are read are recovered from.                           *)
LEMMA CalmRecovers ==
    ASSUME NEW s \in Seq(FLine), Read(s).ok, NEW last, Calm(Read(s), last)
    PROVE  Recovers(s)
<1>1. ReadEventLog(s) = Read(s)
  BY Zenon DEF ReadEventLog, Read, Calm
<1>2. Migrations(Read(s).events) = {}
  BY DEF Calm, Migrations
<1>3. Timeline(Read(s).events)
  BY <1>2 DEF Timeline, Calm
<1> QED
  BY <1>1, <1>3 DEF Recovers

(* A plain line that is no repetition follows plain lines that are read.   *)
LEMMA PlainExtends ==
    ASSUME NEW p \in Seq(FLine), NEW x \in FLine, Plain(Append(p, x)),
           Plain(p) => Read(p).ok, x.seq >= Len(Read(p).events) + 1
    PROVE  Read(Append(p, x)).ok
<1>1. PICK r \in Result : r = Read(p) /\ Read(Append(p, x)) = ReadLine(r, x)
  BY ReadSteps
<1>2. /\ PlainLine(x) /\ x.seq \in Nat
      /\ p = <<>> => x.seq = 1
      /\ p # <<>> => Plain(p) /\ p[Len(p)] \in FLine /\ x.seq <= p[Len(p)].seq + 1
  BY PlainAppends DEF FLine
<1>3. Len(r.events) \in Nat
  BY LenProperties DEF Result
<1>4. r.ok /\ r.intent = NoLine /\ x.seq <= Len(r.events) + 1
  <2>1. CASE p = <<>>
    <3>1. r = Nothing
      BY <1>1, <2>1, ReadSteps
    <3>2. r.ok /\ r.intent = NoLine /\ r.events = <<>>
      BY <3>1 DEF Nothing
    <3> QED
      BY <1>2, <1>3, <2>1, <3>2
  <2>2. CASE p # <<>>
    <3>1. r.ok /\ Calm(r, p[Len(p)].seq)
      BY <1>1, <1>2, <2>2, PlainReads
    <3>2. p[Len(p)].seq \in Nat
      BY <1>2, <2>2 DEF FLine
    <3> QED
      BY <1>2, <1>3, <2>2, <3>1, <3>2 DEF Calm
  <2> QED
    BY <2>1, <2>2
<1>5. ~(x.seq > Expected(r)) /\ ~(x.seq < Expected(r))
  BY <1>1, <1>2, <1>3, <1>4 DEF Expected
<1>6. Decodes(x) /\ ValidPayload(x) /\ x.kind # "commit" /\ x.kind # "intent"
  BY <1>2 DEF PlainLine
<1>7. ReadLine(r, x) = [r EXCEPT !.events = Append(@, x), !.seen = @ \cup {x}]
  BY <1>4, <1>5, <1>6, Zenon DEF ReadLine
<1>8. [r EXCEPT !.events = Append(@, x), !.seen = @ \cup {x}].ok = r.ok
  BY DEF Result
<1> QED
  BY <1>1, <1>4, <1>7, <1>8

LEMMA PayloadsOf ==
    ASSUME NEW s \in Seq(FLine)
    PROVE  /\ Payloads(s) \in Seq(Nat) /\ Len(Payloads(s)) = Len(s)
           /\ \A x \in FLine : Payloads(Append(s, x)) = Append(Payloads(s), x.of)
<1>1. PICK n \in Nat : n = Len(s) /\ DOMAIN s = 1 .. n
  BY LenProperties
<1>2. \A i \in 1 .. n : s[i].of \in Nat
  <2> SUFFICES ASSUME NEW i \in 1 .. n PROVE s[i].of \in Nat
    OBVIOUS
  <2>1. s[i] \in FLine
    BY <1>1, ElementOfSeq
  <2> QED
    BY <2>1 DEF FLine
<1>3. Payloads(s) = [i \in 1 .. n |-> s[i].of]
  BY <1>1 DEF Payloads
<1>4. Payloads(s) \in Seq(Nat) /\ Len(Payloads(s)) = n
  BY <1>2, <1>3
<1>5. ASSUME NEW x \in FLine PROVE Payloads(Append(s, x)) = Append(Payloads(s), x.of)
  <2>1. PICK t \in Seq(FLine) : /\ t = Append(s, x) /\ Len(t) = n + 1 /\ t[n + 1] = x
                                /\ DOMAIN t = 1 .. n + 1 /\ \A i \in 1 .. n : t[i] = s[i]
    <3>1. /\ Append(s, x) \in Seq(FLine) /\ Len(Append(s, x)) = n + 1
          /\ \A i \in 1 .. n : Append(s, x)[i] = s[i]
          /\ Append(s, x)[n + 1] = x
      BY <1>1, AppendProperties
    <3> QED
      BY <3>1, LenProperties
  <2>2. Payloads(t) = [i \in 1 .. n + 1 |-> t[i].of]
    BY <2>1 DEF Payloads
  <2>3. x.of \in Nat
    BY DEF FLine
  <2>4. Append(Payloads(s), x.of) = [i \in 1 .. n + 1 |-> IF i <= n THEN s[i].of ELSE x.of]
    BY <1>2, <1>3, <2>3
  <2>5. ASSUME NEW i \in 1 .. n + 1 PROVE t[i].of = IF i <= n THEN s[i].of ELSE x.of
    <3>1. CASE i <= n
      BY <2>1, <3>1
    <3>2. CASE ~(i <= n)
      <4>1. i = n + 1
        BY <3>2
      <4> QED
        BY <2>1, <3>2, <4>1
    <3> QED
      BY <3>1, <3>2
  <2> QED
    BY <2>1, <2>2, <2>4, <2>5
<1> QED
  BY <1>1, <1>4, <1>5

(* Payloads that are read are in the file.                                 *)
From(s, B) == \A i \in DOMAIN s : s[i].of \in B

LEMMA FromAppend ==
    ASSUME NEW s \in Seq(FLine), NEW x \in FLine, NEW B
    PROVE  From(Append(s, x), B) <=> From(s, B) /\ x.of \in B
<1>1. PICK n \in Nat, t \in Seq(FLine) :
         /\ n = Len(s) /\ t = Append(s, x) /\ t[n + 1] = x
         /\ DOMAIN t = 1 .. n + 1 /\ DOMAIN s = 1 .. n /\ \A i \in 1 .. n : t[i] = s[i]
  <2>1. /\ Append(s, x) \in Seq(FLine) /\ Len(Append(s, x)) = Len(s) + 1 /\ Len(s) \in Nat
        /\ \A i \in 1 .. Len(s) : Append(s, x)[i] = s[i]
        /\ Append(s, x)[Len(s) + 1] = x
    BY AppendProperties, LenProperties
  <2> QED
    BY <2>1, LenProperties
<1>2. \A i : i \in 1 .. n + 1 <=> i \in 1 .. n \/ i = n + 1
  OBVIOUS
<1> QED
  BY <1>1, <1>2 DEF From

(* A reader invents no payload.                                            *)
LEMMA ReadFrom ==
    ASSUME NEW s \in Seq(FLine), NEW B, From(s, B)
    PROVE  From(Read(s).events, B) /\ (Read(s).intent # NoLine => Read(s).intent.of \in B)
<1> DEFINE Good(t) == From(Read(t).events, B) /\ (Read(t).intent # NoLine => Read(t).intent.of \in B)
           T == {t \in Seq(FLine) : From(t, B) => Good(t)}
<1>1. <<>> \in T
  <2>1. Read(<<>>) = Nothing /\ <<>> \in Seq(FLine)
    BY ReadSteps, EmptySeq
  <2> QED
    BY <2>1 DEF Nothing, From
<1>2. ASSUME NEW p \in Seq(FLine), NEW x \in FLine, p \in T PROVE Append(p, x) \in T
  <2>1. Append(p, x) \in Seq(FLine)
    BY AppendProperties
  <2> SUFFICES ASSUME From(Append(p, x), B) PROVE Good(Append(p, x))
    BY <2>1, Zenon
  <2>2. From(p, B) /\ x.of \in B
    BY FromAppend
  <2>3. PICK r \in Result, q \in Result : /\ r = Read(p) /\ q = Read(Append(p, x))
                                          /\ q = ReadLine(r, x)
    BY <2>1, ReadSteps
  <2>4. From(r.events, B) /\ (r.intent # NoLine => r.intent.of \in B /\ r.intent \in FLine)
        /\ r.events \in Seq(FLine)
    BY <1>2, <2>2, <2>3 DEF Result
  <2>5. \/ q.events = r.events /\ q.intent = r.intent
        \/ q.events = r.events /\ q.intent = x
        \/ q.events = Append(r.events, x) /\ q.intent = r.intent
        \/ q.events = Append(r.events, r.intent) /\ q.intent = NoLine /\ r.intent # NoLine
    <3>1. q = ReadLine(r, x)
      BY <2>3
    <3> QED
      BY <3>1, LineRead
  <2>6. r.intent # NoLine => From(Append(r.events, r.intent), B)
    BY <2>4, FromAppend
  <2>7. From(Append(r.events, x), B)
    BY <2>2, <2>4, FromAppend
  <2>8. From(q.events, B) /\ (q.intent # NoLine => q.intent.of \in B)
    BY <2>2, <2>4, <2>5, <2>6, <2>7, Zenon
  <2> QED
    BY <2>3, <2>8
<1> HIDE DEF T
<1>3. Seq(FLine) \subseteq T
  BY <1>1, <1>2, LinesInduction
<1>4. s \in T
  BY <1>3
<1> QED
  BY <1>4 DEF T

LEMMA PrefixFrom ==
    ASSUME NEW s \in Seq(FLine), NEW k \in 0 .. Len(s), NEW B, From(s, B)
    PROVE  From(SubSeq(s, 1, k), B)
<1>1. PICK n \in Nat : n = Len(s) /\ DOMAIN s = 1 .. n
  BY LenProperties
<1>2. SubSeq(s, 1, k) = [i \in 1 .. k |-> s[i]]
  BY <1>1
<1>3. \A i \in 1 .. k : i \in 1 .. n
  BY <1>1
<1> QED
  BY <1>1, <1>2, <1>3 DEF From

LEMMA LeftFrom ==
    ASSUME NEW c \in Seq(FLine), NEW d \in 0 .. Len(c), NEW e \in Left(c, d), NEW B, From(c, B)
    PROVE  From(e, B)
<1>0. Len(c) \in Nat
  BY LenProperties
<1>1. CASE \E k \in d .. Len(c) : e = SubSeq(c, 1, k)
  <2>1. PICK k \in d .. Len(c) : e = SubSeq(c, 1, k)
    BY <1>1
  <2>2. k \in 0 .. Len(c)
    BY <1>0
  <2> QED
    BY <2>1, <2>2, PrefixFrom
<1>2. CASE \E k \in d + 1 .. Len(c) : \E y \in Parts(c[k]) : e = Append(SubSeq(c, 1, k - 1), y)
  <2>1. PICK k \in d + 1 .. Len(c) : \E y \in Parts(c[k]) : e = Append(SubSeq(c, 1, k - 1), y)
    BY <1>2
  <2>2. PICK y \in Parts(c[k]) : e = Append(SubSeq(c, 1, k - 1), y)
    BY <2>1
  <2>3. k \in 1 .. Len(c) /\ k - 1 \in 0 .. Len(c)
    BY <1>0
  <2>4. c[k] \in FLine /\ SubSeq(c, 1, k - 1) \in Seq(FLine) /\ From(SubSeq(c, 1, k - 1), B)
    BY <2>3, PrefixAppends, PrefixFrom
  <2>5. y \in FLine /\ y.of = c[k].of
    BY <2>4, PartsOf
  <2>6. c[k].of \in B
    BY <2>3, LenProperties DEF From
  <2> QED
    BY <2>2, <2>4, <2>5, <2>6, FromAppend
<1> QED
  BY <1>1, <1>2, LeftOf

(* A repair counts the lines afresh: all of them are read.                 *)
Counted(x, n) == [x EXCEPT !.seq = n, !.end = "line"]

LEMMA CountedLine ==
    ASSUME NEW x \in FLine, NEW n \in Nat, PlainLine(x)
    PROVE  /\ Counted(x, n) \in FLine /\ Counted(x, n).seq = n /\ Counted(x, n).of = x.of
           /\ PlainLine(Counted(x, n)) /\ ~x.enc /\ ~Counted(x, n).enc
<1>1. /\ Counted(x, n) \in FLine /\ Counted(x, n).seq = n /\ Counted(x, n).of = x.of
      /\ Counted(x, n).kind = x.kind /\ Counted(x, n).enc = x.enc
      /\ Counted(x, n).schema = x.schema /\ Counted(x, n).end = "line"
  BY DEF FLine, Counted
<1>2. Decodes(Counted(x, n))
  BY <1>1 DEF Decodes
<1>3. x.kind = "process" /\ x.schema < 4 /\ x.schema \in Nat /\ x.enc \in BOOLEAN /\ ValidPayload(x)
  BY DEF PlainLine, FLine
<1>4. ~x.enc
  BY <1>3 DEF ValidPayload
<1>5. ValidPayload(Counted(x, n))
  BY <1>1, <1>3, <1>4 DEF ValidPayload
<1> QED
  BY <1>1, <1>2, <1>3, <1>4, <1>5 DEF PlainLine

LEMMA RenumberedAppend ==
    ASSUME NEW p \in Seq(FLine), NEW x \in FLine, Renumbered(p) \in Seq(FLine),
           Counted(x, Len(p) + 1) \in FLine
    PROVE  Renumbered(Append(p, x)) = Append(Renumbered(p), Counted(x, Len(p) + 1))
<1>1. PICK n \in Nat, t \in Seq(FLine) :
         /\ n = Len(p) /\ t = Append(p, x) /\ t[n + 1] = x
         /\ DOMAIN t = 1 .. n + 1 /\ DOMAIN p = 1 .. n /\ \A i \in 1 .. n : t[i] = p[i]
  <2>1. /\ Append(p, x) \in Seq(FLine) /\ Len(Append(p, x)) = Len(p) + 1 /\ Len(p) \in Nat
        /\ \A i \in 1 .. Len(p) : Append(p, x)[i] = p[i]
        /\ Append(p, x)[Len(p) + 1] = x
    BY AppendProperties, LenProperties
  <2> QED
    BY <2>1, LenProperties
<1>2. /\ Renumbered(t) = [i \in 1 .. n + 1 |-> Counted(t[i], i)]
      /\ Renumbered(p) = [i \in 1 .. n |-> Counted(p[i], i)]
  BY <1>1, Zenon DEF Renumbered, Counted
<1>3. PICK a \in Seq(FLine), y \in FLine :
         /\ a = Renumbered(p) /\ y = Counted(x, n + 1) /\ Len(a) = n
         /\ \A i \in 1 .. n : a[i] = Counted(t[i], i)
  <2>1. DOMAIN Renumbered(p) = 1 .. n
    BY <1>2
  <2>2. Len(Renumbered(p)) \in Nat /\ DOMAIN Renumbered(p) = 1 .. Len(Renumbered(p))
    BY LenProperties
  <2>3. Len(Renumbered(p)) = n
    BY <2>1, <2>2
  <2>4. \A i \in 1 .. n : Renumbered(p)[i] = Counted(t[i], i)
    BY <1>1, <1>2
  <2> QED
    BY <1>1, <2>3, <2>4
<1>4. PICK b \in Seq(FLine) : b = Append(a, y) /\ DOMAIN b = 1 .. n + 1 /\ b[n + 1] = y
                              /\ \A i \in 1 .. n : b[i] = a[i]
  <2>1. /\ Append(a, y) \in Seq(FLine) /\ Len(Append(a, y)) = n + 1
        /\ \A i \in 1 .. n : Append(a, y)[i] = a[i]
        /\ Append(a, y)[n + 1] = y
    BY <1>3, AppendProperties
  <2> QED
    BY <2>1, LenProperties
<1>5. ASSUME NEW i \in 1 .. n + 1 PROVE b[i] = Counted(t[i], i)
  <2>1. CASE i = n + 1
    BY <1>1, <1>3, <1>4, <2>1
  <2>2. CASE i # n + 1
    <3>1. i \in 1 .. n
      BY <2>2
    <3> QED
      BY <1>3, <1>4, <3>1
  <2> QED
    BY <2>1, <2>2
<1>6. b = [i \in 1 .. n + 1 |-> Counted(t[i], i)]
  <2>1. b = [i \in 1 .. n + 1 |-> b[i]]
    BY <1>4, LenProperties
  <2> QED
    BY <1>5, <2>1, Zenon
<1> QED
  BY <1>1, <1>2, <1>3, <1>4, <1>6

(* A repaired log is read whole, with the payloads that it had.            *)
LEMMA RenumberedReads ==
    ASSUME NEW s \in Seq(FLine), Plain(s)
    PROVE  /\ Renumbered(s) \in Seq(FLine) /\ Len(Renumbered(s)) = Len(s)
           /\ Read(Renumbered(s)).ok /\ Read(Renumbered(s)).events = Renumbered(s)
           /\ Payloads(Renumbered(s)) = Payloads(s)
           /\ Calm(Read(Renumbered(s)), 0)
<1> DEFINE Good(t) == /\ Renumbered(t) \in Seq(FLine) /\ Len(Renumbered(t)) = Len(t)
                      /\ Read(Renumbered(t)).ok /\ Read(Renumbered(t)).events = Renumbered(t)
                      /\ Payloads(Renumbered(t)) = Payloads(t)
                      /\ Calm(Read(Renumbered(t)), Len(t))
           T == {t \in Seq(FLine) : t = <<>> \/ Plain(t) => Good(t)}
<1>1. <<>> \in T
  <2>1. Read(<<>>) = Nothing /\ <<>> \in Seq(FLine) /\ Len(<<>>) = 0
    BY ReadSteps, EmptySeq
  <2>2. Renumbered(<<>>) = <<>>
    BY DEF Renumbered
  <2>3. Calm(Nothing, 0) /\ Nothing.ok /\ Nothing.events = <<>>
    BY <2>1 DEF Nothing, Calm
  <2> QED
    BY <2>1, <2>2, <2>3
<1>2. ASSUME NEW p \in Seq(FLine), NEW x \in FLine, p \in T PROVE Append(p, x) \in T
  <2>1. Append(p, x) \in Seq(FLine) /\ Append(p, x) # <<>> /\ Len(Append(p, x)) = Len(p) + 1
        /\ Len(p) \in Nat
    BY AppendProperties, LenProperties
  <2> SUFFICES ASSUME Plain(Append(p, x)) PROVE Good(Append(p, x))
    BY <2>1, Zenon
  <2>2. PlainLine(x) /\ (p # <<>> => Plain(p))
    BY PlainAppends
  <2>3. Good(p)
    BY <1>2, <2>2, Zenon
  <2>4. PICK n \in Nat : n = Len(p) /\ n + 1 \in Nat
    BY <2>1
  <2>5. PICK y \in FLine : y = Counted(x, n + 1) /\ y.seq = n + 1 /\ y.of = x.of
                           /\ PlainLine(y) /\ ~y.enc
    BY <2>2, <2>4, CountedLine
  <2>6. PICK a \in Seq(FLine) : a = Renumbered(p) /\ Len(a) = n
    BY <2>3, <2>4
  <2>7. Renumbered(Append(p, x)) = Append(a, y)
    BY <2>4, <2>5, <2>6, RenumberedAppend
  <2>8. PICK r \in Result, q \in Result : /\ r = Read(a) /\ q = Read(Append(a, y))
                                          /\ q = ReadLine(r, y)
    <3>1. Append(a, y) \in Seq(FLine)
      BY AppendProperties
    <3> QED
      BY <3>1, ReadSteps
  <2>9. r.ok /\ r.events = a /\ r.intent = NoLine /\ Calm(r, n)
    BY <2>3, <2>4, <2>6, <2>8 DEF Calm
  <2>10. ~(y.seq > Expected(r)) /\ ~(y.seq < Expected(r))
    BY <2>5, <2>6, <2>9 DEF Expected
  <2>11. Decodes(y) /\ ValidPayload(y) /\ y.kind # "commit" /\ y.kind # "intent" /\ y.kind = "process"
    BY <2>5 DEF PlainLine
  <2>12. q = [r EXCEPT !.events = Append(@, y), !.seen = @ \cup {y}]
    BY <2>8, <2>9, <2>10, <2>11, Zenon DEF ReadLine
  <2>13. q.ok /\ q.events = Append(a, y) /\ q.intent = NoLine
    BY <2>9, <2>12 DEF Result
  <2>14. Calm(q, n + 1)
    <3>1. /\ \A i \in DOMAIN r.events : r.events[i].kind = "process" /\ ~r.events[i].enc
          /\ y.seq <= Len(r.events) + 1
      BY <2>5, <2>6, <2>9 DEF Calm
    <3> QED
      BY <2>5, <2>8, <2>9, <2>11, <2>13, <3>1, CalmAppends
  <2>15. Payloads(Append(a, y)) = Payloads(Append(p, x))
    <3>1. /\ Payloads(Append(a, y)) = Append(Payloads(a), y.of)
          /\ Payloads(Append(p, x)) = Append(Payloads(p), x.of)
      BY PayloadsOf
    <3>2. Payloads(a) = Payloads(p)
      BY <2>3, <2>4, <2>6
    <3> QED
      BY <2>5, <3>1, <3>2
  <2>16. Append(a, y) \in Seq(FLine) /\ Len(Append(a, y)) = n + 1
    BY <2>6, AppendProperties
  <2> QED
    BY <2>1, <2>4, <2>7, <2>8, <2>13, <2>14, <2>15, <2>16
<1> HIDE DEF T
<1>3. Seq(FLine) \subseteq T
  BY <1>1, <1>2, LinesInduction
<1>4. Good(s)
  BY <1>3, Zenon DEF T
<1>5. Len(s) \in Nat
  BY LenProperties
<1>6. Calm(Read(Renumbered(s)), 0)
  BY <1>4, <1>5 DEF Calm
<1> QED
  BY <1>4, <1>6

-----------------------------------------------------------------------------
(* A file and the history.                                                 *)
Readable(c) == Read(c).ok /\ Read(c).intent = NoLine
Told(p, sure, doubt) == \E last \in 0 .. Len(doubt) : p = sure \o SubSeq(doubt, 1, last)
Tells(c, sure, doubt) == Told(Payloads(Read(c).events), sure, doubt)
Beyond(p, sure) == SubSeq(p, Len(sure) + 1, Len(p))
Orderly(c, d) == \A e \in Left(c, d) : Plain(e) => Read(e).ok
Named(h) == ToSet(h.sure) \cup ToSet(h.hoped)
History == [sure : Seq(Nat), hoped : Seq(Nat)]

(* All of it that a power failure may leave tells the history; and either  *)
(* it needs no repair, or the history is its lines.                        *)
Safe(c, d, h, doubt, ids) ==
    /\ From(c, ids)
    /\ \A e \in Left(c, d) : Readable(e) => Tells(e, h.sure, doubt)
    /\ Orderly(c, d) \/ (d = Len(c) /\ h = Sure(Payloads(c)))

(* ReadEventLog is the reading of all lines, unless an intent is open.     *)
LEMMA LogOf ==
    ASSUME NEW c \in Seq(FLine)
    PROVE  /\ ReadEventLog(c).ok <=> Readable(c)
           /\ ReadEventLog(c).events = Read(c).events
<1>1. Read(c) \in Result
  BY ReadSteps
<1>2. ReadEventLog(c) = IF Read(c).intent = NoLine THEN Read(c) ELSE Reject(Read(c))
  BY Zenon DEF ReadEventLog, Read
<1>3. Reject(Read(c)).ok = FALSE /\ Reject(Read(c)).events = Read(c).events
  BY <1>1 DEF Reject, Result
<1> QED
  BY <1>2, <1>3 DEF Readable

LEMMA EventsPaid ==
    ASSUME NEW c \in Seq(FLine)
    PROVE  /\ Payloads(Read(c).events) \in Seq(Nat)
           /\ Len(Payloads(Read(c).events)) = Len(Read(c).events)
           /\ Len(Read(c).events) \in Nat
<1>1. Read(c).events \in Seq(FLine)
  BY ReadSteps DEF Result
<1> QED
  BY <1>1, PayloadsOf, LenProperties

LEMMA NoneInDoubt ==
    ASSUME NEW s \in Seq(Nat), NEW doubt \in Seq(Nat)
    PROVE  /\ 0 \in 0 .. Len(doubt) /\ SubSeq(doubt, 1, 0) = <<>> /\ s \o <<>> = s
           /\ s \o SubSeq(doubt, 1, 0) = s
<1>1. Len(doubt) \in Nat
  BY LenProperties
<1>2. SubSeq(doubt, 1, 0) = <<>>
  OBVIOUS
<1>3. s \o <<>> = s
  BY ConcatEmptySeq
<1> QED
  BY <1>1, <1>2, <1>3

LEMMA TellsSure ==
    ASSUME NEW c, NEW s \in Seq(Nat), NEW doubt \in Seq(Nat), Payloads(Read(c).events) = s
    PROVE  Tells(c, s, doubt)
BY NoneInDoubt DEF Tells, Told

LEMMA TellsMore ==
    ASSUME NEW c, NEW s, NEW doubt \in Seq(Nat), NEW n \in Nat, Tells(c, s, doubt)
    PROVE  Tells(c, s, Append(doubt, n))
<1>1. PICK last \in 0 .. Len(doubt) : Payloads(Read(c).events) = s \o SubSeq(doubt, 1, last)
  BY DEF Tells, Told
<1>2. SubSeq(Append(doubt, n), 1, last) = SubSeq(doubt, 1, last)
      /\ Len(Append(doubt, n)) = Len(doubt) + 1 /\ Len(doubt) \in Nat
  BY PrefixOfAppend
<1>3. last \in 0 .. Len(Append(doubt, n))
  BY <1>2
<1> QED
  BY <1>1, <1>2, <1>3 DEF Tells, Told

LEMMA ConcatAppend ==
    ASSUME NEW s \in Seq(Nat), NEW hoped \in Seq(Nat), NEW n \in Nat
    PROVE  s \o Append(hoped, n) \in Seq(Nat) /\ s \o Append(hoped, n) = Append(s \o hoped, n)
<1>1. Append(hoped, n) \in Seq(Nat)
  BY AppendProperties
<1>2. <<n>> \in Seq(Nat) /\ s \o hoped \in Seq(Nat) /\ s \o Append(hoped, n) \in Seq(Nat)
  BY <1>1, ConcatProperties
<1>3. Append(hoped, n) = hoped \o <<n>> /\ Append(s \o hoped, n) = (s \o hoped) \o <<n>>
  BY <1>2, AppendIsConcat
<1>4. (s \o hoped) \o <<n>> = s \o (hoped \o <<n>>)
  BY <1>2, ConcatAssociative
<1> QED
  BY <1>2, <1>3, <1>4

(* An append that did not return is told like one that did.                *)
LEMMA TellsLast ==
    ASSUME NEW c, NEW s \in Seq(Nat), NEW hoped \in Seq(Nat), NEW n \in Nat,
           Payloads(Read(c).events) = Append(s \o hoped, n)
    PROVE  Tells(c, s, Append(hoped, n))
<1>1. /\ Append(hoped, n) \in Seq(Nat) /\ Len(Append(hoped, n)) = Len(hoped) + 1
      /\ Len(hoped) \in Nat /\ SubSeq(Append(hoped, n), 1, Len(hoped) + 1) = Append(hoped, n)
  BY PrefixOfAppend
<1>2. s \o Append(hoped, n) = Append(s \o hoped, n)
  BY ConcatAppend
<1>3. Len(hoped) + 1 \in 0 .. Len(Append(hoped, n))
  BY <1>1
<1> QED
  BY <1>1, <1>2, <1>3 DEF Tells, Told

(* Of two that tell a history the shorter tells what the longer one tells  *)
(* beyond what is sure.                                                    *)
LEMMA ToldWithin ==
    ASSUME NEW s \in Seq(Nat), NEW doubt \in Seq(Nat), NEW q \in Seq(Nat), NEW p \in Seq(Nat),
           Told(q, s, doubt), Told(p, s, doubt), Len(q) <= Len(p)
    PROVE  /\ Beyond(p, s) \in Seq(Nat) /\ p = s \o Beyond(p, s) /\ Told(q, s, Beyond(p, s))
           /\ ToSet(Beyond(p, s)) \subseteq ToSet(p)
<1>1. PICK a \in 0 .. Len(doubt) : q = s \o SubSeq(doubt, 1, a)
  BY DEF Told
<1>2. PICK b \in 0 .. Len(doubt) : p = s \o SubSeq(doubt, 1, b)
  BY DEF Told
<1>0. PICK hoped : hoped = Beyond(p, s) /\ hoped = SubSeq(p, Len(s) + 1, Len(p))
  BY DEF Beyond
<1>3. PICK m \in Nat, n \in Nat : m = Len(s) /\ n = Len(doubt)
  BY LenProperties
<1>4. \A i \in 0 .. n : /\ SubSeq(doubt, 1, i) \in Seq(Nat) /\ Len(SubSeq(doubt, 1, i)) = i
                        /\ \A j \in 1 .. i : SubSeq(doubt, 1, i)[j] = doubt[j]
  <2> SUFFICES ASSUME NEW i \in 0 .. n
               PROVE  /\ SubSeq(doubt, 1, i) \in Seq(Nat) /\ Len(SubSeq(doubt, 1, i)) = i
                      /\ \A j \in 1 .. i : SubSeq(doubt, 1, i)[j] = doubt[j]
    OBVIOUS
  <2>1. \A j \in 1 .. i : doubt[j] \in Nat
    BY <1>3
  <2> QED
    BY <1>3, <2>1
<1>5. PICK u \in Seq(Nat), v \in Seq(Nat) :
        /\ u = SubSeq(doubt, 1, a) /\ v = SubSeq(doubt, 1, b) /\ Len(u) = a /\ Len(v) = b
        /\ \A j \in 1 .. a : u[j] = doubt[j]
        /\ \A j \in 1 .. b : v[j] = doubt[j]
  BY <1>3, <1>4
<1>6. /\ s \o u \in Seq(Nat) /\ Len(s \o u) = m + a /\ s \o v \in Seq(Nat) /\ Len(s \o v) = m + b
      /\ \A i \in 1 .. m + b : (s \o v)[i] = IF i <= m THEN s[i] ELSE v[i - m]
  <2>1. /\ s \o u \in Seq(Nat) /\ Len(s \o u) = Len(s) + Len(u)
        /\ s \o v \in Seq(Nat) /\ Len(s \o v) = Len(s) + Len(v)
        /\ \A i \in 1 .. Len(s) + Len(v) :
              (s \o v)[i] = IF i <= Len(s) THEN s[i] ELSE v[i - Len(s)]
    BY ConcatProperties, Zenon
  <2>2. Len(u) = a /\ Len(v) = b /\ Len(s) = m
    BY <1>3, <1>5
  <2> QED
    BY <2>1, <2>2, Zenon
<1>7. a <= b /\ Len(p) = m + b
  BY <1>1, <1>2, <1>3, <1>5, <1>6
<1>8. hoped = v
  <2>0. hoped = SubSeq(p, m + 1, m + b)
    BY <1>0, <1>3, <1>7
  <2>1. \A i \in m + 1 .. m + b : p[i] \in Nat
    BY <1>7, ElementOfSeq
  <2>2. hoped \in Seq(Nat) /\ Len(hoped) = b /\ \A i \in 1 .. b : hoped[i] = p[m + i]
    BY <2>0, <2>1
  <2>3. \A i \in 1 .. b : hoped[i] = v[i]
    <3> SUFFICES ASSUME NEW i \in 1 .. b PROVE hoped[i] = v[i]
      OBVIOUS
    <3>1. m + i \in 1 .. m + b /\ ~(m + i <= m) /\ (m + i) - m = i
      OBVIOUS
    <3>2. (s \o v)[m + i] = v[i]
      BY <1>6, <3>1
    <3> QED
      BY <1>2, <1>5, <2>2, <3>2
  <2> QED
    BY <1>5, <2>2, <2>3, SeqEqual
<1>9. SubSeq(v, 1, a) = u
  <2>1. \A j \in 1 .. a : v[j] \in Nat /\ v[j] = u[j]
    BY <1>5, <1>7
  <2>2. SubSeq(v, 1, a) = [j \in 1 .. a |-> v[j]] /\ u = [j \in 1 .. a |-> u[j]]
    <3>1. a <= Len(v) /\ DOMAIN u = 1 .. a
      BY <1>5, <1>7, LenProperties
    <3> QED
      BY <3>1
  <2> QED
    BY <2>1, <2>2
<1>10. Told(q, s, hoped)
  <2>1. a \in 0 .. Len(hoped)
    BY <1>5, <1>7, <1>8
  <2> QED
    BY <1>1, <1>5, <1>8, <1>9, <2>1 DEF Told
<1>11. ToSet(hoped) \subseteq ToSet(p)
  <2> SUFFICES ASSUME NEW i \in 1 .. b PROVE \E j \in DOMAIN p : v[i] = p[j]
    <3>1. DOMAIN hoped = 1 .. b
      BY <1>5, <1>8, LenProperties
    <3>2. ToSet(hoped) = {v[k] : k \in 1 .. b} /\ ToSet(p) = {p[j] : j \in DOMAIN p}
      BY <1>8, <3>1, Zenon DEF ToSet
    <3> QED
      BY <3>2
  <2>1. m + i \in 1 .. m + b /\ ~(m + i <= m) /\ (m + i) - m = i
    OBVIOUS
  <2>2. p[m + i] = v[i]
    BY <1>2, <1>5, <1>6, <2>1
  <2> QED
    BY <1>7, <2>1, <2>2, LenProperties
<1> QED
  BY <1>0, <1>2, <1>5, <1>8, <1>10, <1>11

(* A file stays safe when more is in doubt.                                *)
LEMMA SafeGrows ==
    ASSUME NEW c, NEW d, NEW h \in History, NEW doubt \in Seq(Nat), NEW ids, NEW doubt2, NEW ids2,
           NEW n \in Nat, Safe(c, d, h, doubt, ids), ids \subseteq ids2,
           doubt2 = doubt \/ doubt2 = Append(doubt, n)
    PROVE  Safe(c, d, h, doubt2, ids2)
<1>1. From(c, ids2)
  BY DEF Safe, From
<1>2. ASSUME NEW e \in Left(c, d), Readable(e) PROVE Tells(e, h.sure, doubt2)
  <2>1. Tells(e, h.sure, doubt)
    BY <1>2, Zenon DEF Safe
  <2> QED
    BY <2>1, TellsMore
<1> QED
  BY <1>1, <1>2, Zenon DEF Safe

(* What a power failure left is all there is.                              *)
LEMMA SafeLeft ==
    ASSUME NEW c \in Seq(FLine), NEW d \in 0 .. Len(c), NEW h, NEW doubt, NEW ids,
           Safe(c, d, h, doubt, ids), NEW e \in Left(c, d)
    PROVE  Safe(e, Len(e), h, doubt, ids)
<1>1. e \in Seq(FLine) /\ From(e, ids)
  BY LeftWithin, LeftFrom DEF Safe
<1>2. Len(e) \in 0 .. Len(e)
  BY <1>1, LenProperties
<1>3. Left(e, Len(e)) = {e}
  BY <1>1, <1>2, LeftOf
<1>4. Readable(e) => Tells(e, h.sure, doubt)
  BY DEF Safe
<1>5. CASE Orderly(c, d)
  <2>1. Orderly(e, Len(e))
    BY <1>3, <1>5 DEF Orderly
  <2> QED
    BY <1>1, <1>3, <1>4, <2>1 DEF Safe
<1>6. CASE d = Len(c) /\ h = Sure(Payloads(c))
  <2>1. e = c
    BY <1>6, LeftOf
  <2> QED
    BY <1>1, <1>3, <1>4, <1>6, <2>1 DEF Safe
<1> QED
  BY <1>5, <1>6 DEF Safe

(* What is read of a file can be the history.                              *)
LEMMA SureOf ==
    ASSUME NEW c \in Seq(FLine), NEW ids, From(c, ids)
    PROVE  /\ Sure(Payloads(Read(c).events)) \in History
           /\ Sure(Payloads(c)) \in History
           /\ Named(Sure(Payloads(Read(c).events))) \subseteq ids
           /\ Named(Sure(Payloads(c))) \subseteq ids
<1>1. \A s \in Seq(FLine) : From(s, ids) =>
         /\ Sure(Payloads(s)) \in History
         /\ Named(Sure(Payloads(s))) \subseteq ids
  <2> SUFFICES ASSUME NEW s \in Seq(FLine), From(s, ids)
               PROVE  Sure(Payloads(s)) \in History /\ Named(Sure(Payloads(s))) \subseteq ids
    OBVIOUS
  <2>1. <<>> \in Seq(Nat) /\ Payloads(s) \in Seq(Nat)
    BY EmptySeq, PayloadsOf
  <2>2. ToSet(<<>>) = {}
    BY DEF ToSet
  <2>3. ToSet(Payloads(s)) = {Payloads(s)[i] : i \in DOMAIN Payloads(s)}
    BY Zenon DEF ToSet
  <2>4. ToSet(Payloads(s)) \subseteq ids
    BY <2>3 DEF From, Payloads
  <2> QED
    BY <2>1, <2>2, <2>4 DEF Sure, History, Named
<1>2. Read(c).events \in Seq(FLine)
  BY ReadSteps DEF Result
<1>3. From(Read(c).events, ids)
  BY ReadFrom
<1> QED
  BY <1>1, <1>2, <1>3

(* A file that is read and is on the medium is the history.                *)
LEMMA SafeRead ==
    ASSUME NEW c \in Seq(FLine), NEW ids, From(c, ids), Read(c).ok, NEW h, NEW doubt \in Seq(Nat),
           h.sure = Payloads(Read(c).events)
    PROVE  Safe(c, Len(c), h, doubt, ids)
<1>1. Len(c) \in 0 .. Len(c)
  BY LenProperties
<1>2. Left(c, Len(c)) = {c}
  BY <1>1, LeftOf
<1>3. Tells(c, h.sure, doubt)
  BY EventsPaid, TellsSure
<1>4. Orderly(c, Len(c))
  BY <1>2 DEF Orderly
<1> QED
  BY <1>2, <1>3, <1>4 DEF Safe

(* A file that is read needs no repair, whatever is left of it.            *)
LEMMA ReadOrderly ==
    ASSUME NEW c \in Seq(FLine), NEW d \in 0 .. Len(c), Read(c).ok
    PROVE  Orderly(c, d)
<1> SUFFICES ASSUME NEW e \in Left(c, d), Plain(e) PROVE Read(e).ok
  BY DEF Orderly
<1>1. Read(e).ok \/ \E i \in DOMAIN e : ~Decodes(e[i])
  BY LeftWithin
<1> QED
  BY <1>1 DEF Plain, PlainLine

(* A recovery from a file that is not all on the medium.                   *)
Hoping(h, p) == [h EXCEPT !.hoped = SubSeq(p, Len(h.sure) + 1, Len(p))]
LEMMA ServeSafe ==
    ASSUME NEW c \in Seq(FLine), NEW d \in 0 .. Len(c), NEW h \in History, NEW doubt \in Seq(Nat),
           NEW ids, Safe(c, d, h, doubt, ids), Readable(c), Named(h) \subseteq ids
    PROVE  \E g : /\ g = Hoping(h, Payloads(Read(c).events)) /\ g \in History
                  /\ Payloads(Read(c).events) = g.sure \o g.hoped /\ Named(g) \subseteq ids
                  /\ Safe(c, d, g, g.hoped, ids)
<1>15. PICK p : p = Payloads(Read(c).events)
  OBVIOUS
<1>16. PICK g : g = Hoping(h, p)
  OBVIOUS
<1>17. g = [h EXCEPT !.hoped = SubSeq(p, Len(h.sure) + 1, Len(p))]
  BY <1>16 DEF Hoping
<1>1. p \in Seq(Nat) /\ Len(p) = Len(Read(c).events)
  BY <1>15, EventsPaid
<1>2. h.sure \in Seq(Nat) /\ c \in Left(c, d)
  BY LeftOf DEF History
<1>3. Tells(c, h.sure, doubt)
  BY <1>2 DEF Safe
<1>4. /\ Beyond(p, h.sure) \in Seq(Nat) /\ p = h.sure \o Beyond(p, h.sure)
      /\ ToSet(Beyond(p, h.sure)) \subseteq ToSet(p)
  <2>1. Told(p, h.sure, doubt) /\ Len(p) <= Len(p)
    BY <1>1, <1>3, <1>15, EventsPaid DEF Tells
  <2> QED
    BY <1>1, <1>2, <2>1, ToldWithin
<1>5. g.sure = h.sure /\ g.hoped = Beyond(p, h.sure) /\ g \in History
  <2>1. g = [h EXCEPT !.hoped = Beyond(p, h.sure)]
    BY <1>17, Zenon DEF Beyond
  <2> QED
    BY <1>4, <2>1 DEF History
<1>6. ToSet(p) \subseteq ids
  <2>1. Named(Sure(p)) \subseteq ids
    BY <1>15, SureOf DEF Safe
  <2> QED
    BY <2>1 DEF Named, Sure
<1>7. Named(g) \subseteq ids
  BY <1>4, <1>5, <1>6 DEF Named
<1>8. ASSUME NEW e \in Left(c, d), Readable(e) PROVE Tells(e, g.sure, g.hoped)
  <2>1. Told(Payloads(Read(e).events), h.sure, doubt) /\ Told(p, h.sure, doubt)
    BY <1>3, <1>8, <1>15 DEF Safe, Tells
  <2>2. e \in Seq(FLine) /\ Len(Read(e).events) <= Len(Read(c).events)
    BY LeftWithin
  <2>3. /\ Payloads(Read(e).events) \in Seq(Nat)
        /\ Len(Payloads(Read(e).events)) <= Len(p)
    BY <1>1, <2>2, EventsPaid
  <2>4. Told(Payloads(Read(e).events), h.sure, Beyond(p, h.sure))
    BY <1>1, <1>2, <2>1, <2>3, ToldWithin
  <2> QED
    BY <1>5, <2>4 DEF Tells
<1>9. Orderly(c, d)
  BY ReadOrderly DEF Readable
<1>14. Safe(c, d, g, g.hoped, ids)
  BY <1>5, <1>8, <1>9 DEF Safe
<1> QED
  BY <1>4, <1>5, <1>7, <1>14, <1>15, <1>16

-----------------------------------------------------------------------------
(* A file that is being appended to.                                       *)

(* Before the line is written: the file tells the history, and what is     *)
(* pending in it is the intent of which the commit is offered.             *)
Held(c, size, seq, h, pending, n) ==
    /\ Len(c) <= size /\ Len(Read(c).events) <= seq
    /\ Read(c).ok => /\ Payloads(Read(c).events) = h.sure \o h.hoped
                     /\ Read(c).intent # NoLine =>
                          pending /\ Read(c).intent.of = n /\ n \notin Named(h)

(* After: unless the file was changed, it tells the record as well.        *)
Written(c, h, kind, n) ==
    /\ n \notin Named(h)
    /\ kind = "intent" => /\ Payloads(Read(c).events) = h.sure \o h.hoped
                          /\ Read(c).intent # NoLine /\ Read(c).intent.of = n
    /\ kind # "intent" => /\ Payloads(Read(c).events) = Append(h.sure \o h.hoped, n)
                          /\ Read(c).intent = NoLine
Wrote(c, size, seq, h, kind, n) ==
    /\ Len(c) <= size + 1
    /\ Len(Read(c).events) <= seq + (IF kind = "intent" THEN 0 ELSE 1)
    /\ Len(c) = size + 1 /\ Read(c).ok => Written(c, h, kind, n)

(* The next line is read as the record that was to be appended.            *)
LEMMA LineWritten ==
    ASSUME NEW c \in Seq(FLine), NEW size \in Nat, NEW seq \in Nat, NEW h \in History,
           NEW pending \in BOOLEAN, NEW n \in Nat, Held(c, size, seq, h, pending, n),
           NEW y \in FLine, y.seq = seq + 1, y.of = n, pending <=> y.kind = "commit",
           ~pending => n \notin Named(h)
    PROVE  /\ Append(c, y) \in Seq(FLine) /\ Wrote(Append(c, y), size, seq, h, y.kind, n)
           /\ Read(Append(c, y)).ok => Written(Append(c, y), h, y.kind, n)
<1>1. PICK r \in Result, q \in Result : /\ r = Read(c) /\ q = Read(Append(c, y))
                                        /\ q = ReadLine(r, y)
  <2>1. Append(c, y) \in Seq(FLine)
    BY AppendProperties
  <2> QED
    BY <2>1, ReadSteps
<1>2. PICK k \in Nat : k = Len(r.events) /\ k <= seq
  BY <1>1, LenProperties DEF Held, Result
<1>3. r.events \in Seq(FLine) /\ q = ReadLine(r, y) /\ (r.intent # NoLine => r.intent \in FLine)
  BY <1>1 DEF Result
<1>4. Len(q.events) <= seq + (IF y.kind = "intent" THEN 0 ELSE 1)
  <2>1. \/ q.events = r.events
        \/ q.events = Append(r.events, y) /\ y.kind # "intent"
        \/ q.events = Append(r.events, r.intent) /\ r.intent # NoLine /\ y.kind # "intent"
    <3>1. q = ReadLine(r, y)
      BY <1>3
    <3> QED
      BY <3>1, LineRead
  <2>2. Len(q.events) = k \/ (Len(q.events) = k + 1 /\ y.kind # "intent")
    BY <1>2, <1>3, <2>1, AppendProperties
  <2> QED
    BY <1>2, <2>2
<1>5. ASSUME q.ok PROVE Written(Append(c, y), h, y.kind, n)
  <2>1. y.seq >= Len(r.events) + 1
    BY <1>2
  <2>2. /\ r.ok
        /\ r.intent # NoLine => /\ y.kind = "commit" /\ y.of = r.intent.of
                                /\ q.events = Append(r.events, r.intent) /\ q.intent = NoLine
        /\ r.intent = NoLine /\ y.kind = "intent" => q.events = r.events /\ q.intent = y
        /\ r.intent = NoLine /\ y.kind # "intent" =>
             y.kind # "commit" /\ q.events = Append(r.events, y) /\ q.intent = NoLine
    BY <1>3, <1>5, <2>1, NextLine
  <2>3. /\ Payloads(r.events) = h.sure \o h.hoped
        /\ r.intent # NoLine => pending /\ r.intent.of = n /\ n \notin Named(h)
    BY <1>1, <2>2 DEF Held
  <2>4. CASE r.intent # NoLine
    <3>1. Payloads(q.events) = Append(h.sure \o h.hoped, n)
      <4>1. Payloads(Append(r.events, r.intent)) = Append(Payloads(r.events), r.intent.of)
        BY <1>3, <2>4, PayloadsOf
      <4> QED
        BY <2>2, <2>3, <2>4, <4>1
    <3> QED
      BY <1>1, <2>2, <2>3, <2>4, <3>1 DEF Written
  <2>5. CASE r.intent = NoLine /\ y.kind = "intent"
    BY <1>1, <2>2, <2>3, <2>5, NothingRead DEF Written
  <2>6. CASE r.intent = NoLine /\ y.kind # "intent"
    <3>1. Payloads(q.events) = Append(h.sure \o h.hoped, n)
      BY <1>3, <2>2, <2>3, <2>6, PayloadsOf
    <3> QED
      BY <1>1, <2>2, <2>3, <2>6, <3>1 DEF Written
  <2> QED
    BY <2>4, <2>5, <2>6
<1>6. Append(c, y) \in Seq(FLine) /\ Len(Append(c, y)) = Len(c) + 1 /\ Len(c) \in Nat /\ Len(c) <= size
  BY AppendProperties, LenProperties DEF Held
<1>7. Len(Append(c, y)) <= size + 1
  BY <1>6
<1> QED
  BY <1>1, <1>4, <1>5, <1>6, <1>7 DEF Wrote

(* The line x, record n of a process that has counted seq, is to follow c. *)
Due(c, d, size, seq, h, pending, n, x, ids, ids2, doubt) ==
    /\ c \in Seq(FLine) /\ d \in 0 .. Len(c) /\ Safe(c, d, h, h.hoped, ids) /\ Orderly(c, d)
    /\ size \in Nat /\ seq \in Nat /\ h \in History /\ pending \in BOOLEAN /\ n \in Nat
    /\ Held(c, size, seq, h, pending, n)
    /\ x \in FLine /\ x.seq = seq + 1 /\ x.of = n /\ (pending <=> x.kind = "commit")
    /\ ~pending => n \notin Named(h)
    /\ ids \subseteq ids2 /\ n \in ids2
    /\ doubt = h.hoped \/ doubt = Append(h.hoped, n)
    /\ n \notin Named(h) => doubt = Append(h.hoped, n)

(* A file is safe with the line and with any part of it.                   *)
LEMMA WriteSafe ==
    ASSUME NEW c, NEW d, NEW size, NEW seq, NEW h, NEW pending, NEW n, NEW x, NEW ids, NEW ids2,
           NEW doubt, Due(c, d, size, seq, h, pending, n, x, ids, ids2, doubt)
    PROVE  /\ Safe(Appended(c, x), d, h, doubt, ids2) /\ Orderly(Appended(c, x), d)
           /\ Wrote(Appended(c, x), size, seq, h, x.kind, n)
<1> USE DEF Due
<1>0. PICK t : t = Appended(c, x)
  OBVIOUS
<1>1. PICK z \in FLine : t = Append(c, z) /\ z.seq = seq + 1 /\ z.kind = x.kind /\ z.of = n
  <2> DEFINE glued == [x EXCEPT !.end = "glued"]
  <2>1. glued \in FLine /\ glued.seq = x.seq /\ glued.kind = x.kind /\ glued.of = x.of
    BY DEF FLine
  <2> HIDE DEF glued
  <2>2. t = Append(c, x) \/ t = Append(c, glued)
    BY <1>0, Zenon DEF Appended, glued
  <2> QED
    BY <2>1, <2>2
<1> DEFINE Lines == {z} \cup Parts(z)
<1>2. \A y \in Lines : y \in FLine /\ y.seq = seq + 1 /\ y.kind = x.kind /\ y.of = n
  BY <1>1, PartsOf
<1>3. ASSUME NEW y \in Lines
      PROVE  /\ Append(c, y) \in Seq(FLine) /\ Wrote(Append(c, y), size, seq, h, x.kind, n)
             /\ Read(Append(c, y)).ok => Written(Append(c, y), h, x.kind, n)
  <2>1. y \in FLine /\ y.seq = seq + 1 /\ y.kind = x.kind /\ y.of = n
    BY <1>2
  <2>2. (pending <=> y.kind = "commit")
    BY <2>1
  <2> HIDE DEF Lines
  <2> QED
    BY <2>1, <2>2, LineWritten
<1>4. t \in Seq(FLine) /\ Wrote(t, size, seq, h, x.kind, n)
  BY <1>1, <1>3
<1>5. Len(t) = Len(c) + 1 /\ Len(c) \in Nat
  BY <1>1, AppendProperties, LenProperties
<1>6. d \in 0 .. Len(t)
  BY <1>5
<1>7. \A e \in Left(t, d) : e \in Left(c, d) \/ \E y \in Lines : e = Append(c, y)
  BY <1>1, LeftAppend
<1> HIDE DEF Lines
<1>8. From(t, ids2)
  <2>1. From(c, ids2)
    BY DEF Safe, From
  <2> QED
    BY <1>1, <2>1, FromAppend
<1>9. h.sure \in Seq(Nat) /\ h.hoped \in Seq(Nat)
  BY DEF History
<1>10. ASSUME NEW e \in Left(t, d), Readable(e) PROVE Tells(e, h.sure, doubt)
  <2>1. CASE e \in Left(c, d)
    <3>1. Tells(e, h.sure, h.hoped)
      BY <1>10, <2>1 DEF Safe
    <3>2. Tells(e, h.sure, Append(h.hoped, n))
      BY <1>9, <3>1, TellsMore
    <3> QED
      BY <3>1, <3>2
  <2>2. CASE \E y \in Lines : e = Append(c, y)
    <3>1. Written(e, h, x.kind, n)
      BY <1>3, <1>10, <2>2 DEF Readable
    <3>2. n \notin Named(h) /\ Payloads(Read(e).events) = Append(h.sure \o h.hoped, n)
      BY <1>10, <3>1 DEF Written, Readable
    <3> QED
      <4>1. Tells(e, h.sure, Append(h.hoped, n))
        BY <1>9, <3>2, TellsLast
      <4> QED
        BY <3>2, <4>1
  <2> QED
    BY <1>7, <2>1, <2>2
<1>11. ASSUME NEW e \in Left(t, d), Plain(e) PROVE Read(e).ok
  <2>1. CASE e \in Left(c, d)
    BY <1>11, <2>1 DEF Orderly
  <2>2. CASE \E y \in Lines : e = Append(c, y)
    <3>1. PICK y \in FLine : e = Append(c, y) /\ y.seq = seq + 1
      BY <1>2, <2>2
    <3>2. c \in Left(c, d)
      BY LeftOf
    <3>3. Plain(c) => Read(c).ok
      BY <3>2 DEF Orderly
    <3>4. y.seq >= Len(Read(c).events) + 1
      <4>1. Len(Read(c).events) \in Nat /\ Len(Read(c).events) <= seq
        BY EventsPaid DEF Held
      <4> QED
        BY <3>1, <4>1
    <3> QED
      BY <1>11, <3>1, <3>3, <3>4, PlainExtends
  <2> QED
    BY <1>7, <2>1, <2>2
<1>12. Orderly(t, d)
  BY <1>11 DEF Orderly
<1>13. Safe(t, d, h, doubt, ids2)
  BY <1>8, <1>10, <1>12 DEF Safe
<1> QED
  BY <1>0, <1>4, <1>12, <1>13

-----------------------------------------------------------------------------
(* The inductive invariant.                                                *)
FType ==
    /\ fContent \in [Inode -> Seq(FLine)]
    /\ fDurable \in [Inode -> Nat] /\ \A n \in Inode : fDurable[n] <= Len(fContent[n])
    /\ fNames \in [journal : Inode, backup : Inode \cup {Noone}]
    /\ fDurableNames \in [journal : Inode, backup : Inode \cup {Noone}]
    /\ fLog \in [inode : Inode \cup {Noone}, size : Nat]
    /\ fRuntime \in [seq : Nat, enc : BOOLEAN]
    /\ fHistory \in History
    /\ fAppended \in 0 .. MaxFRecords

(* What the process is doing.                                              *)
FSteps ==
    /\ fStep \notin {"down", "renamed"} => fNames.journal = fDurableNames.journal
    /\ fStep \in {"intent", "checked", "written", "synced"} =>
         fDoing[1] \in FLine /\ fDoing[1].of = fAppended /\ fAppended # 0
    /\ fStep \in {"checked", "written", "synced"} => fDoing[1].seq = fRuntime.seq + 1

(* Payloads that are in the file or in the history.                        *)
Upto(k) == 1 .. k \cup {i \in Nat : i > MaxFRecords}
Settled == IF fStep = "checked" /\ fDoing[1].kind # "commit" THEN fAppended - 1 ELSE fAppended

(* Both files that may be the journal after a power failure are safe.      *)
Doubt == IF fStep \in {"serving", "intent", "checked"} THEN fHistory.hoped ELSE InDoubt
Journals == {fNames.journal, fDurableNames.journal}
Files == \A j \in Journals : Safe(fContent[j], fDurable[j], fHistory, Doubt, Upto(Settled))
Serving == fStep \in {"serving", "intent", "checked", "written", "synced"} =>
    Orderly(Visible, fDurable[fNames.journal])

Pending == fStep = "intent" \/ (fStep = "checked" /\ fDoing[1].kind = "commit")
BeforeAppend == fStep \in {"serving", "intent", "checked"} /\ fNames.journal = fLog.inode =>
    Held(Visible, fLog.size, fRuntime.seq, fHistory, Pending, fAppended)
AfterAppend == fStep \in {"written", "synced"} /\ fNames.journal = fLog.inode =>
    /\ Wrote(Visible, fLog.size, fRuntime.seq, fHistory, fDoing[1].kind, fAppended)
    /\ fStep = "synced" => fDurable[fNames.journal] = Len(Visible)

Repairing ==
    /\ fStep = "repair" => ~Recovers(Visible)
    /\ fStep = "rename" =>
         /\ fDoing[1] \in Inode /\ fContent[fDoing[1]] = Renumbered(Visible)
         /\ fDurable[fDoing[1]] = Len(fContent[fDoing[1]])
         /\ Plain(Visible) /\ fHistory = Sure(Payloads(Visible))

FInd ==
    /\ FType /\ FSteps /\ Named(fHistory) \subseteq Upto(Settled) /\ Files /\ Serving
    /\ BeforeAppend /\ AfterAppend /\ Repairing

(* What is in doubt is at most one record more than what was hoped for.    *)
LEMMA DoubtOf ==
    ASSUME FType
    PROVE  /\ InDoubt \in {fHistory.hoped, Append(fHistory.hoped, fAppended)}
           /\ fAppended # 0 /\ fAppended \notin Named(fHistory) =>
                InDoubt = Append(fHistory.hoped, fAppended)
           /\ InDoubt \in Seq(Nat) /\ Doubt \in Seq(Nat)
           /\ InDoubt \in {Doubt, Append(Doubt, fAppended)}
           /\ fHistory.hoped \in Seq(Nat) /\ fHistory.sure \in Seq(Nat) /\ fAppended \in Nat
<1>1. fAppended \in Nat /\ fHistory.hoped \in Seq(Nat) /\ fHistory.sure \in Seq(Nat)
  BY FAssumption DEF FType, History
<1>2. InDoubt = fHistory.hoped \/ InDoubt = Append(fHistory.hoped, fAppended)
  BY Zenon DEF InDoubt
<1>3. fAppended # 0 /\ fAppended \notin Named(fHistory) =>
                InDoubt = Append(fHistory.hoped, fAppended)
  BY DEF InDoubt, Named
<1>4. Append(fHistory.hoped, fAppended) \in Seq(Nat)
  BY <1>1, AppendProperties
<1>5. Doubt = fHistory.hoped \/ Doubt = InDoubt
  BY Zenon DEF Doubt
<1> QED
  BY <1>1, <1>2, <1>3, <1>4, <1>5

LEMMA UptoGrows ==
    ASSUME NEW a \in Int, NEW b \in Int, a <= b
    PROVE  Upto(a) \subseteq Upto(b)
BY DEF Upto

LEMMA SettledOf ==
    ASSUME FType
    PROVE  /\ Settled \in Int /\ Settled <= fAppended /\ fAppended \in Int
           /\ fAppended <= MaxFRecords /\ MaxFRecords \in Nat
           /\ Upto(Settled) \subseteq Upto(fAppended)
<1>1. fAppended \in Nat /\ Settled \in Int /\ Settled <= fAppended
      /\ fAppended <= MaxFRecords /\ MaxFRecords \in Nat
  BY FAssumption DEF FType, Settled
<1> QED
  BY <1>1, UptoGrows

(* The journal and what of it is on the medium.                            *)
LEMMA JournalTypes ==
    ASSUME FType
    PROVE  /\ \A j \in Inode : fContent[j] \in Seq(FLine) /\ fDurable[j] \in 0 .. Len(fContent[j])
           /\ Journals \subseteq Inode /\ fNames.journal \in Journals
           /\ Visible \in Seq(FLine) /\ Visible = fContent[fNames.journal]
<1>1. fNames.journal \in Inode /\ fDurableNames.journal \in Inode
  BY DEF FType
<1>2. ASSUME NEW j \in Inode PROVE fContent[j] \in Seq(FLine) /\ fDurable[j] \in 0 .. Len(fContent[j])
  <2>1. fContent[j] \in Seq(FLine) /\ fDurable[j] \in Nat /\ fDurable[j] <= Len(fContent[j])
    BY DEF FType
  <2> QED
    BY <2>1, LenProperties
<1> QED
  BY <1>1, <1>2 DEF Journals, Visible

(* The files are safe if nothing but the doubt and the count changes.      *)
LEMMA FilesKept ==
    ASSUME FType, FType', Files, Journals' \subseteq Journals, fHistory' = fHistory,
           \A j \in Journals' : fContent'[j] = fContent[j] /\ fDurable'[j] = fDurable[j],
           Doubt' = Doubt \/ \E n \in Nat : Doubt' = Append(Doubt, n),
           Settled <= Settled'
    PROVE  Files'
<1>1. ASSUME NEW j \in Journals' PROVE Safe(fContent'[j], fDurable'[j], fHistory', Doubt', Upto(Settled'))
  <2>1. Safe(fContent[j], fDurable[j], fHistory, Doubt, Upto(Settled))
    BY DEF Files
  <2>2. Settled \in Int /\ Settled' \in Int
    <3>1. Settled' \in Int
      BY FAssumption DEF FType, Settled
    <3> QED
      BY <3>1, SettledOf
  <2>3. Upto(Settled) \subseteq Upto(Settled')
    BY <2>2, UptoGrows
  <2>4. PICK n \in Nat : Doubt' = Doubt \/ Doubt' = Append(Doubt, n)
    OBVIOUS
  <2>5. fHistory \in History /\ Doubt \in Seq(Nat)
    BY DoubtOf DEF FType
  <2> QED
    BY <2>1, <2>3, <2>4, <2>5, SafeGrows
<1> QED
  BY <1>1 DEF Files, Upto

(* What a previous release left.                                           *)
LEMMA FIndInit == FInit => FInd
<1> SUFFICES ASSUME FInit PROVE FInd
  OBVIOUS
<1>1. PICK lines \in FFound, n \in Inode :
         /\ fContent = [x \in Inode |-> IF x = n THEN lines ELSE <<>>]
         /\ fDurable = [x \in Inode |-> IF x = n THEN Len(lines) ELSE 0]
         /\ fNames = [journal |-> n, backup |-> Noone]
         /\ fHistory = Sure(Payloads(IF ReadEventLog(lines).ok
                                     THEN ReadEventLog(lines).events ELSE lines))
  BY DEF FInit
<1>2. /\ fDurableNames = fNames /\ fLog = [inode |-> Noone, size |-> 0] /\ fStep = "down"
      /\ fRuntime = [seq |-> 0, enc |-> FALSE] /\ fAppended = 0
  BY DEF FInit, NoLog, NoRuntime
<1>3. lines \in Seq(FLine) /\ From(lines, Upto(0))
  <2>1. lines \in Seq(FLine) /\ MaxFRecords \in Nat
    BY FAssumption
  <2>2. \A i \in DOMAIN lines : lines[i].of > MaxFRecords /\ lines[i].of \in Nat
    <3> SUFFICES ASSUME NEW i \in DOMAIN lines
                 PROVE  lines[i].of > MaxFRecords /\ lines[i].of \in Nat
      OBVIOUS
    <3>1. lines[i] \in FLine
      BY <2>1, ElementOfSeq, LenProperties
    <3> QED
      BY <3>1, FAssumption DEF FLine
  <2> QED
    BY <2>1, <2>2 DEF From, Upto
<1>4. <<>> \in Seq(FLine) /\ Len(<<>>) = 0 /\ Len(lines) \in Nat
  BY <1>3, EmptySeq, LenProperties
<1>5. \/ fHistory = Sure(Payloads(Read(lines).events)) /\ Readable(lines)
      \/ fHistory = Sure(Payloads(lines)) /\ ~Readable(lines)
  BY <1>1, <1>3, LogOf, Zenon
<1>6. fHistory \in History /\ Named(fHistory) \subseteq Upto(0)
  BY <1>3, <1>5, SureOf
<1>7. FType
  <2>1. fContent \in [Inode -> Seq(FLine)]
    BY <1>1, <1>3, <1>4
  <2>2. fDurable \in [Inode -> Nat] /\ \A x \in Inode : fDurable[x] <= Len(fContent[x])
    BY <1>1, <1>3, <1>4
  <2>3. fNames \in [journal : Inode, backup : Inode \cup {Noone}]
    BY <1>1
  <2>4. /\ fLog \in [inode : Inode \cup {Noone}, size : Nat]
        /\ fRuntime \in [seq : Nat, enc : BOOLEAN]
    BY <1>2
  <2>5. fAppended \in 0 .. MaxFRecords
    BY <1>2, FAssumption
  <2> QED
    BY <1>2, <1>6, <2>1, <2>2, <2>3, <2>4, <2>5 DEF FType
<1>8. Settled = 0 /\ Journals = {n} /\ fContent[n] = lines /\ fDurable[n] = Len(lines)
  BY <1>1, <1>2 DEF Settled, Journals
<1>9. Safe(lines, Len(lines), fHistory, Doubt, Upto(0))
  <2>1. Doubt \in Seq(Nat)
    BY <1>7, DoubtOf
  <2>2. CASE Readable(lines) /\ fHistory = Sure(Payloads(Read(lines).events))
    <3>1. fHistory.sure = Payloads(Read(lines).events) /\ Read(lines).ok
      BY <2>2 DEF Sure, Readable
    <3> QED
      BY <1>3, <2>1, <3>1, SafeRead
  <2>3. CASE ~Readable(lines) /\ fHistory = Sure(Payloads(lines))
    <3>1. Len(lines) \in 0 .. Len(lines)
      BY <1>4
    <3>2. Left(lines, Len(lines)) = {lines}
      BY <1>3, <3>1, LeftOf
    <3> QED
      BY <1>3, <2>3, <3>2 DEF Safe
  <2> QED
    BY <1>5, <2>2, <2>3
<1>10. Files
  BY <1>8, <1>9 DEF Files
<1>11. Named(fHistory) \subseteq Upto(Settled)
  BY <1>6, <1>8
<1> QED
  BY <1>2, <1>7, <1>10, <1>11 DEF FInd, FSteps, Serving, BeforeAppend, AfterAppend, Repairing

(* A process opens a journal that it recovers from.                        *)
LEMMA ServeKeeps == ASSUME FInd, OpenToServe PROVE FInd'
<1> USE DEF FInd
<1>1. /\ Recovers(Visible) /\ fDurableNames' = fNames
      /\ fLog' = [inode |-> fNames.journal, size |-> Len(Visible)]
      /\ UNCHANGED <<fContent, fDurable, fNames, fAppended>>
      /\ fStep' = "serving"
  BY DEF OpenToServe, OpenEventLog
<1>2. PICK c \in Seq(FLine), j \in Inode, d \in Nat :
         /\ d \in 0 .. Len(c) /\ c = Visible /\ j = fNames.journal /\ c = fContent[j] /\ d = fDurable[j] /\ j \in Journals
  BY JournalTypes
<1>3. Readable(c) /\ ReadEventLog(c).events = Read(c).events
  BY <1>1, <1>2, LogOf DEF Recovers
<1>4. PICK p : p = Payloads(Read(c).events)
  OBVIOUS
<1>5. /\ fRuntime'.seq = Len(Read(c).events)
      /\ fRuntime' \in [seq : Nat, enc : BOOLEAN]
  <2>1. fRuntime' = [seq |-> Len(Read(c).events), enc |-> Migrations(Read(c).events) # {}]
    BY <1>2, <1>3 DEF OpenToServe
  <2>2. Len(Read(c).events) \in Nat
    BY EventsPaid
  <2> QED
    BY <2>1, <2>2
<1>6. \/ d = Len(c) /\ fHistory' = Sure(p)
      \/ fHistory' = [fHistory EXCEPT !.hoped = SubSeq(p, Len(fHistory.sure) + 1, Len(p))]
  <2>1. Len(p) = Len(Read(c).events)
    BY <1>4, EventsPaid
  <2> QED
    BY <1>2, <1>3, <1>4, <2>1 DEF OpenToServe
<1>7. Safe(c, d, fHistory, Doubt, Upto(Settled)) /\ From(c, Upto(Settled))
  BY <1>2 DEF Files, Safe
<1>8. /\ fHistory' \in History /\ p = fHistory'.sure \o fHistory'.hoped
      /\ Named(fHistory') \subseteq Upto(Settled)
      /\ Safe(c, d, fHistory', fHistory'.hoped, Upto(Settled))
  <2>1. CASE d = Len(c) /\ fHistory' = Sure(p)
    <3>1. fHistory' \in History /\ Named(fHistory') \subseteq Upto(Settled)
      BY <1>4, <1>7, <2>1, SureOf
    <3>2. fHistory'.sure = p /\ fHistory'.hoped = <<>> /\ p \in Seq(Nat) /\ <<>> \in Seq(Nat)
      BY <1>4, <2>1, EventsPaid, EmptySeq DEF Sure
    <3>3. p = fHistory'.sure \o fHistory'.hoped
      BY <3>2, NoneInDoubt
    <3>4. Safe(c, d, fHistory', fHistory'.hoped, Upto(Settled))
      BY <1>3, <1>4, <1>7, <2>1, <3>2, SafeRead DEF Readable
    <3> QED
      BY <3>1, <3>3, <3>4
  <2>2. CASE fHistory' = [fHistory EXCEPT !.hoped = SubSeq(p, Len(fHistory.sure) + 1, Len(p))]
    <3>1. fHistory \in History /\ Doubt \in Seq(Nat)
      BY DoubtOf DEF FType
    <3> QED
      <4>1. Named(fHistory) \subseteq Upto(Settled) /\ Readable(c) /\ p = Payloads(Read(c).events)
        BY <1>3, <1>4
      <4>2. fHistory' = Hoping(fHistory, p)
        BY <2>2 DEF Hoping
      <4>3. \E g : /\ g = Hoping(fHistory, p) /\ g \in History
                   /\ p = g.sure \o g.hoped /\ Named(g) \subseteq Upto(Settled)
                   /\ Safe(c, d, g, g.hoped, Upto(Settled))
        BY <1>2, <1>7, <3>1, <4>1, ServeSafe
      <4> QED
        BY <4>2, <4>3
  <2> QED
    BY <1>6, <2>1, <2>2
<1>9. FType'
  <2>1. Len(Visible) \in Nat /\ fNames.journal \in Inode
    BY <1>2, LenProperties
  <2>2. fLog' \in [inode : Inode \cup {Noone}, size : Nat]
    BY <1>1, <2>1
  <2> QED
    BY <1>1, <1>5, <1>8, <2>2 DEF FType
<1>10. Doubt' = fHistory'.hoped /\ Settled' = fAppended /\ Journals' = {j} /\ Visible' = c
  BY <1>1, <1>2 DEF Doubt, Settled, Journals, Visible
<1>11. Upto(Settled) \subseteq Upto(fAppended) /\ Upto(fAppended) = Upto(Settled')
  BY <1>10, SettledOf
<1>12. Files'
  <2>1. fHistory'.hoped \in Seq(Nat)
    BY <1>8 DEF History
  <2>2. Safe(c, d, fHistory', fHistory'.hoped, Upto(fAppended))
    BY <1>8, <1>11, <2>1, SafeGrows
  <2> QED
    BY <1>1, <1>2, <1>10, <1>11, <2>2 DEF Files
<1>13. Serving'
  <2>1. Orderly(c, d)
    BY <1>2, <1>3, ReadOrderly DEF Readable
  <2> QED
    BY <1>1, <1>2, <1>10, <2>1 DEF Serving
<1>14. BeforeAppend'
  <2>1. Len(c) <= Len(c) /\ Len(Read(c).events) <= Len(Read(c).events)
    BY EventsPaid, LenProperties
  <2>2. fLog'.size = Len(c)
    BY <1>1, <1>2
  <2>3. Held(c, fLog'.size, fRuntime'.seq, fHistory', Pending', fAppended')
    BY <1>3, <1>4, <1>5, <1>8, <2>1, <2>2 DEF Held, Readable
  <2> QED
    BY <1>10, <2>3 DEF BeforeAppend
<1> QED
  BY <1>1, <1>8, <1>9, <1>11, <1>12, <1>13, <1>14 DEF FSteps, AfterAppend, Repairing

(* Nothing is being appended, and no line has moved.                       *)
LEMMA IdleKeeps ==
    ASSUME FInd, fStep' \notin {"serving", "intent", "checked", "written", "synced"},
           UNCHANGED <<fContent, fDurable, fHistory, fAppended>>, FType',
           Journals' \subseteq Journals
    PROVE  /\ Files' /\ Serving' /\ BeforeAppend' /\ AfterAppend'
           /\ Named(fHistory') \subseteq Upto(Settled')
<1>1. Settled' = fAppended /\ Doubt' = InDoubt
  BY DEF Settled, Doubt, InDoubt
<1>2. Doubt' = Doubt \/ \E n \in Nat : Doubt' = Append(Doubt, n)
  BY <1>1, DoubtOf DEF FInd
<1>3. Settled <= Settled' /\ Upto(Settled) \subseteq Upto(Settled')
  BY <1>1, SettledOf DEF FInd
<1>4. Files'
  BY <1>2, <1>3, FilesKept DEF FInd
<1> QED
  BY <1>3, <1>4 DEF FInd, Serving, BeforeAppend, AfterAppend

(* A process opens a journal that it does not recover from.                *)
LEMMA RepairOpens == ASSUME FInd, OpenToRepair PROVE FInd'
<1>1. /\ ~Recovers(Visible) /\ fDurableNames' = fNames /\ fStep' = "repair"
      /\ fLog' = [inode |-> fNames.journal, size |-> Len(Visible)]
      /\ fRuntime' = [seq |-> 0, enc |-> FALSE]
      /\ UNCHANGED <<fContent, fDurable, fNames, fAppended, fHistory>>
  BY DEF OpenToRepair, OpenEventLog, NoRuntime
<1>2. Journals' = {fNames.journal} /\ Visible' = Visible
  BY <1>1 DEF Journals, Visible
<1>3. FType'
  <2>1. Len(Visible) \in Nat /\ fNames.journal \in Inode
    <3>1. Visible \in Seq(FLine)
      BY JournalTypes DEF FInd
    <3> QED
      BY <3>1, LenProperties DEF FInd, FType
  <2>2. fLog' \in [inode : Inode \cup {Noone}, size : Nat] /\ fRuntime' \in [seq : Nat, enc : BOOLEAN]
    BY <1>1, <2>1
  <2> QED
    BY <1>1, <2>2 DEF FInd, FType
<1>4. Journals' \subseteq Journals
  BY <1>2 DEF Journals
<1>5. FSteps' /\ Repairing'
  BY <1>1, <1>2 DEF FSteps, Repairing, Recovers
<1> QED
  BY <1>1, <1>3, <1>4, <1>5, IdleKeeps DEF FInd

(* Close, an error or a crash.                                             *)
LEMMA EndKeeps == ASSUME FInd, Ends PROVE FInd'
<1>1. /\ fStep' = "down" /\ fLog' = [inode |-> Noone, size |-> 0]
      /\ fRuntime' = [seq |-> 0, enc |-> FALSE]
      /\ UNCHANGED <<fContent, fDurable, fNames, fDurableNames, fAppended, fHistory>>
  BY DEF Ends, Ended, NoLog, NoRuntime, fFiles
<1>2. FType'
  <2>1. fLog' \in [inode : Inode \cup {Noone}, size : Nat] /\ fRuntime' \in [seq : Nat, enc : BOOLEAN]
    BY <1>1
  <2> QED
    BY <1>1, <2>1 DEF FInd, FType
<1>3. Journals' = Journals
  BY <1>1 DEF Journals
<1>4. FSteps' /\ Repairing'
  BY <1>1 DEF FSteps, Repairing
<1> QED
  BY <1>1, <1>2, <1>3, <1>4, IdleKeeps DEF FInd

(* The directory is synced after a repair.                                 *)
LEMMA RepairEnds == ASSUME FInd, RepairReturns PROVE FInd'
<1>1. /\ fStep' = "repaired" /\ fDurableNames' = fNames
      /\ UNCHANGED <<fContent, fDurable, fNames, fLog, fRuntime, fAppended, fHistory>>
  BY DEF RepairReturns
<1>2. FType'
  BY <1>1 DEF FInd, FType
<1>3. Journals' \subseteq Journals
  BY <1>1 DEF Journals
<1>4. FSteps' /\ Repairing'
  BY <1>1 DEF FSteps, Repairing
<1> QED
  BY <1>1, <1>2, <1>3, <1>4, IdleKeeps DEF FInd

(* The checks that precede a write.                                        *)
LEMMA CheckKeeps == ASSUME FInd, AppendChecks PROVE FInd'
<1> USE DEF FInd
<1>1. /\ fStep \in {"serving", "intent"} /\ fStep' = "checked"
      /\ fStep = "serving" => fAppended < MaxFRecords
      /\ fNames.journal = fLog.inode
      /\ fAppended' = IF fStep = "intent" THEN fAppended ELSE fAppended + 1
      /\ UNCHANGED <<fContent, fDurable, fNames, fDurableNames, fLog, fRuntime, fHistory>>
  BY DEF AppendChecks, fFiles
<1>2. fAppended \in Nat /\ MaxFRecords \in Nat /\ fAppended <= MaxFRecords /\ fRuntime.seq \in Nat
      /\ fRuntime.enc \in BOOLEAN
  BY FAssumption DEF FType
<1>3. fAppended' \in 0 .. MaxFRecords /\ fAppended' \in Nat /\ fAppended' # 0
  <2>1. CASE fStep = "intent"
    BY <1>1, <1>2, <2>1 DEF FSteps
  <2>2. CASE fStep = "serving"
    BY <1>1, <1>2, <2>2
  <2> QED
    BY <1>1, <2>1, <2>2
<1>4. PICK line \in Offered : fDoing' = <<line>>
  BY DEF AppendChecks
<1>5. \A kind \in {"process", "intent", "commit", "migration"}, of \in Nat :
         /\ Stamp(kind, of) \in FLine
         /\ Stamp(kind, of).seq = fRuntime.seq + 1
         /\ Stamp(kind, of).kind = kind /\ Stamp(kind, of).of = of
  BY <1>2 DEF Stamp, FLine
<1>6. /\ line \in FLine /\ line.seq = fRuntime.seq + 1 /\ line.of = fAppended'
      /\ line.kind = "commit" <=> fStep = "intent"
  <2>1. CASE fStep = "intent"
    <3>1. line = Stamp("commit", fDoing[1].of) /\ fDoing[1].of = fAppended
      BY <1>4, <2>1 DEF Offered, FSteps
    <3> QED
      BY <1>1, <1>2, <1>5, <2>1, <3>1
  <2>2. CASE fStep = "serving"
    <3>1. PICK kind \in {"process", "intent", "migration"} : line = Stamp(kind, fAppended + 1)
      BY <1>4, <2>2 DEF Offered
    <3>2. fAppended + 1 \in Nat
      BY <1>2
    <3> QED
      BY <1>1, <1>5, <2>2, <3>1, <3>2
  <2> QED
    BY <1>1, <2>1, <2>2
<1>7. fDoing'[1] = line
  BY <1>4
<1>8. FType'
  BY <1>1, <1>3 DEF FType
<1>9. FSteps'
  BY <1>1, <1>3, <1>6, <1>7 DEF FSteps
<1>10. Settled' = fAppended /\ Settled = fAppended /\ Doubt' = fHistory.hoped /\ Doubt = fHistory.hoped
       /\ Journals' = Journals /\ Visible' = Visible
  <2>1. Settled = fAppended /\ Doubt' = fHistory.hoped /\ Doubt = fHistory.hoped
    BY <1>1 DEF Settled, Doubt
  <2>2. Settled' = IF line.kind # "commit" THEN fAppended' - 1 ELSE fAppended'
    BY <1>1, <1>7 DEF Settled
  <2>3. Settled' = fAppended
    BY <1>1, <1>2, <1>6, <2>2
  <2> QED
    BY <1>1, <2>1, <2>3 DEF Journals, Visible
<1>11. Settled' \in Int /\ Settled <= Settled' /\ Upto(Settled') = Upto(Settled)
  BY <1>2, <1>10
<1>12. Files'
  BY <1>1, <1>8, <1>10, <1>11, FilesKept
<1>13. Named(fHistory') \subseteq Upto(Settled')
  BY <1>1, <1>11
<1>14. Serving'
  BY <1>1, <1>10 DEF Serving
<1>15. BeforeAppend'
  <2>1. Held(Visible, fLog.size, fRuntime.seq, fHistory, Pending, fAppended)
    BY <1>1 DEF BeforeAppend
  <2>2. Pending <=> fStep = "intent"
    BY <1>1 DEF Pending
  <2>3. Pending' <=> fStep = "intent"
    BY <1>1, <1>6, <1>7 DEF Pending
  <2>4. Held(Visible, fLog.size, fRuntime.seq, fHistory, Pending', fAppended')
    <3>1. CASE fStep = "intent"
      BY <1>1, <2>1, <2>2, <2>3, <3>1 DEF Held
    <3>2. CASE fStep = "serving"
      BY <1>1, <2>1, <2>2, <2>3, <3>2 DEF Held
    <3> QED
      BY <1>1, <3>1, <3>2
  <2> QED
    BY <1>1, <1>10, <2>4 DEF BeforeAppend
<1> QED
  BY <1>1, <1>8, <1>9, <1>12, <1>13, <1>14, <1>15 DEF AfterAppend, Repairing

LEMMA AppendedOf ==
    ASSUME NEW c \in Seq(FLine), NEW x \in FLine
    PROVE  Appended(c, x) \in Seq(FLine) /\ Len(Appended(c, x)) = Len(c) + 1 /\ Len(c) \in Nat
<1> DEFINE glued == [x EXCEPT !.end = "glued"]
<1>1. glued \in FLine
  BY DEF FLine
<1> HIDE DEF glued
<1>2. Appended(c, x) = Append(c, x) \/ Appended(c, x) = Append(c, glued)
  BY Zenon DEF Appended, glued
<1> QED
  BY <1>1, <1>2, AppendProperties, LenProperties

(* The line reaches the file that was opened, which may not be the journal *)
(* any longer.                                                             *)
LEMMA LineKeeps == ASSUME FInd, AppendWrites PROVE FInd'
<1> USE DEF FInd
<1>1. /\ fStep = "checked" /\ fStep' = "written"
      /\ fContent' = [fContent EXCEPT ![fLog.inode] = Appended(fContent[fLog.inode], fDoing[1])]
      /\ UNCHANGED <<fDurable, fNames, fDurableNames, fLog, fDoing, fRuntime, fHistory, fAppended>>
  BY DEF AppendWrites
<1>2. PICK x \in FLine : x = fDoing[1] /\ x.of = fAppended /\ x.seq = fRuntime.seq + 1 /\ fAppended # 0
  BY <1>1 DEF FSteps
<1>3. /\ fAppended \in Nat /\ MaxFRecords \in Nat /\ fAppended <= MaxFRecords
      /\ fLog.size \in Nat /\ fRuntime.seq \in Nat /\ fLog.inode \in Inode \cup {Noone}
      /\ fHistory \in History
  BY SettledOf, DoubtOf DEF FType
<1>4. /\ \A j \in Inode : j # fLog.inode => fContent'[j] = fContent[j]
      /\ \A j \in Inode : j = fLog.inode => fContent'[j] = Appended(fContent[j], x)
  BY <1>1, <1>2 DEF FType
<1>5. \A j \in Inode : fContent'[j] \in Seq(FLine) /\ Len(fContent[j]) <= Len(fContent'[j])
  <2> SUFFICES ASSUME NEW j \in Inode
               PROVE  fContent'[j] \in Seq(FLine) /\ Len(fContent[j]) <= Len(fContent'[j])
    OBVIOUS
  <2>1. fContent[j] \in Seq(FLine) /\ Len(fContent[j]) \in Nat
    BY JournalTypes, LenProperties
  <2>2. Appended(fContent[j], x) \in Seq(FLine) /\ Len(Appended(fContent[j], x)) = Len(fContent[j]) + 1
    BY <2>1, AppendedOf
  <2>3. fContent'[j] = fContent[j] \/ fContent'[j] = Appended(fContent[j], x)
    BY <1>4
  <2>4. CASE fContent'[j] = fContent[j]
    BY <2>1, <2>4
  <2>5. CASE fContent'[j] = Appended(fContent[j], x)
    BY <2>1, <2>2, <2>5
  <2> QED
    BY <2>3, <2>4, <2>5
<1>6. FType'
  <2>1. fContent' \in [Inode -> Seq(FLine)]
    <3>1. DOMAIN fContent' = Inode /\ fContent' = [j \in Inode |-> fContent'[j]]
      BY <1>1 DEF FType
    <3> QED
      BY <1>5, <3>1
  <2>2. \A j \in Inode : fDurable'[j] <= Len(fContent'[j])
    <3> SUFFICES ASSUME NEW j \in Inode PROVE fDurable[j] <= Len(fContent'[j])
      BY <1>1
    <3>1. fDurable[j] \in 0 .. Len(fContent[j]) /\ Len(fContent[j]) \in Nat /\ Len(fContent'[j]) \in Nat
      BY <1>5, JournalTypes, LenProperties
    <3> QED
      BY <1>5, <3>1
  <2> QED
    BY <1>1, <2>1, <2>2 DEF FType
<1>7. FSteps'
  BY <1>1 DEF FSteps
<1>8. /\ Settled' = fAppended /\ Doubt' = InDoubt /\ Doubt = fHistory.hoped /\ Journals' = {fNames.journal}
      /\ Journals = {fNames.journal}
  BY <1>1 DEF Settled, Doubt, Journals, FSteps, InDoubt
<1>9. Named(fHistory') \subseteq Upto(Settled') /\ Upto(Settled) \subseteq Upto(fAppended)
  BY <1>1, <1>8, SettledOf
<1>10. PICK c \in Seq(FLine), j \in Inode, d \in Nat :
         /\ d \in 0 .. Len(c) /\ c = Visible /\ j = fNames.journal /\ c = fContent[j] /\ d = fDurable[j]
  BY JournalTypes
<1>11. Visible' = fContent'[j]
  BY <1>1, <1>10 DEF Visible
<1>12. CASE j # fLog.inode
  <2>1. fContent'[j] = fContent[j]
    BY <1>4, <1>12
  <2>2. Files'
    <3>1. Doubt' = Doubt \/ \E n \in Nat : Doubt' = Append(Doubt, n)
      BY <1>3, <1>8, DoubtOf
    <3>2. Settled <= Settled'
      BY <1>8, SettledOf
    <3>3. Journals' \subseteq Journals /\ \A i \in Journals' : fContent'[i] = fContent[i] /\ fDurable'[i] = fDurable[i]
      BY <1>1, <1>8, <1>10, <2>1
    <3> QED
      BY <1>1, <1>6, <3>1, <3>2, <3>3, FilesKept
  <2>3. Serving'
    BY <1>1, <1>10, <1>11, <2>1 DEF Serving
  <2> QED
    BY <1>1, <1>6, <1>7, <1>9, <1>10, <1>12, <2>2, <2>3 DEF BeforeAppend, AfterAppend, Repairing
<1>13. CASE j = fLog.inode
  <2>1. PICK t : t = Appended(c, x) /\ t = fContent'[j]
    BY <1>4, <1>10, <1>13
  <2>2. Held(c, fLog.size, fRuntime.seq, fHistory, Pending, fAppended)
    BY <1>1, <1>10, <1>13 DEF BeforeAppend
  <2>3. Pending <=> x.kind = "commit"
    BY <1>1, <1>2 DEF Pending
  <2>4. ~Pending => fAppended \notin Named(fHistory)
    <3>1. ~Pending => Settled = fAppended - 1
      BY <1>1, <1>2, <2>3 DEF Settled
    <3>2. fAppended \notin Upto(fAppended - 1)
      BY <1>3 DEF Upto
    <3> QED
      BY <3>1, <3>2
  <2>5. fAppended \in Upto(fAppended)
    BY <1>2, <1>3 DEF Upto
  <2>6. /\ InDoubt \in {fHistory.hoped, Append(fHistory.hoped, fAppended)}
        /\ fAppended \notin Named(fHistory) => InDoubt = Append(fHistory.hoped, fAppended)
    BY <1>2, DoubtOf
  <2>7. Safe(c, d, fHistory, fHistory.hoped, Upto(Settled)) /\ Orderly(c, d)
    <3>1. j \in Journals
      BY <1>8, <1>10
    <3> QED
      BY <1>1, <1>8, <1>10, <3>1 DEF Files, Serving
  <2>8. Pending \in BOOLEAN
    BY DEF Pending
  <2>9. /\ Safe(t, d, fHistory, InDoubt, Upto(fAppended)) /\ Orderly(t, d)
        /\ Wrote(t, fLog.size, fRuntime.seq, fHistory, x.kind, fAppended)
    <3> HIDE DEF FInd
    <3> QED
      <4>1. /\ x \in FLine /\ x.of = fAppended /\ x.seq = fRuntime.seq + 1 /\ fAppended \in Nat
            /\ fLog.size \in Nat /\ fRuntime.seq \in Nat /\ fHistory \in History
        BY <1>2, <1>3
      <4>2. d \in 0 .. Len(c) /\ c \in Seq(FLine)
        BY <1>10
      <4>3. InDoubt = fHistory.hoped \/ InDoubt = Append(fHistory.hoped, fAppended)
        BY <2>6
      <4>4. fAppended \notin Named(fHistory) => InDoubt = Append(fHistory.hoped, fAppended)
        BY <2>6
      <4>6. PICK b \in BOOLEAN : b = Pending
        BY <2>8
      <4>7. Held(c, fLog.size, fRuntime.seq, fHistory, b, fAppended)
        BY <2>2, <4>6
      <4>8. (b <=> x.kind = "commit") /\ (~b => fAppended \notin Named(fHistory))
        BY <2>3, <2>4, <4>6
      <4>9. Safe(c, d, fHistory, fHistory.hoped, Upto(Settled)) /\ Orderly(c, d)
        BY <2>7
      <4>5. /\ Safe(Appended(c, x), d, fHistory, InDoubt, Upto(fAppended))
            /\ Orderly(Appended(c, x), d)
            /\ Wrote(Appended(c, x), fLog.size, fRuntime.seq, fHistory, x.kind, fAppended)
        <5>1. Due(c, d, fLog.size, fRuntime.seq, fHistory, b, fAppended, x, Upto(Settled),
                  Upto(fAppended), InDoubt)
          BY <1>9, <2>5, <4>1, <4>2, <4>3, <4>4, <4>7, <4>8, <4>9 DEF Due
        <5> QED
          BY <5>1, WriteSafe
      <4> QED
        BY <2>1, <4>5
  <2>10. Files'
    BY <1>1, <1>8, <1>10, <2>1, <2>9 DEF Files, Upto
  <2>11. Serving'
    BY <1>1, <1>10, <1>11, <2>1, <2>9 DEF Serving
  <2>12. AfterAppend'
    BY <1>1, <1>2, <1>11, <2>1, <2>9 DEF AfterAppend
  <2> QED
    BY <1>1, <1>6, <1>7, <1>9, <2>10, <2>11, <2>12 DEF BeforeAppend, Repairing
<1> QED
  BY <1>12, <1>13

(* A sync leaves fewer outcomes.                                           *)
LEMMA SafeSynced ==
    ASSUME NEW c \in Seq(FLine), NEW d \in 0 .. Len(c), NEW h, NEW doubt, NEW ids
    PROVE  /\ Safe(c, d, h, doubt, ids) => Safe(c, Len(c), h, doubt, ids)
           /\ Orderly(c, d) => Orderly(c, Len(c))
<1>1. Left(c, Len(c)) = {c} /\ c \in Left(c, d)
  BY LeftOf
<1>2. Orderly(c, d) => Orderly(c, Len(c))
  BY <1>1 DEF Orderly
<1>3. Safe(c, d, h, doubt, ids) => Safe(c, Len(c), h, doubt, ids)
  <2> HAVE Safe(c, d, h, doubt, ids)
  <2>1. \A e \in Left(c, Len(c)) : Readable(e) => Tells(e, h.sure, doubt)
    BY <1>1 DEF Safe
  <2>2. Orderly(c, Len(c)) \/ (Len(c) = Len(c) /\ h = Sure(Payloads(c)))
    BY <1>2, Zenon DEF Safe
  <2> QED
    BY <2>1, <2>2, Zenon DEF Safe
<1> QED
  BY <1>2, <1>3

(* The history with the record that is acknowledged.                       *)
LEMMA NamedGrows ==
    ASSUME NEW h \in History, NEW n \in Nat
    PROVE  /\ h.sure \o Append(h.hoped, n) \in Seq(Nat)
           /\ h.sure \o Append(h.hoped, n) = Append(h.sure \o h.hoped, n)
           /\ Sure(h.sure \o Append(h.hoped, n)) \in History
           /\ Named(Sure(h.sure \o Append(h.hoped, n))) \subseteq Named(h) \cup {n}
<1>1. PICK s \in Seq(Nat), u \in Seq(Nat), k \in Nat, m \in Nat :
         s = h.sure /\ u = h.hoped /\ k = Len(s) /\ m = Len(u)
  BY LenProperties DEF History
<1>2. PICK v \in Seq(Nat) : v = Append(u, n) /\ v = u \o <<n>> /\ <<n>> \in Seq(Nat)
  <2>1. Append(u, n) \in Seq(Nat)
    BY AppendProperties
  <2>2. <<n>> \in Seq(Nat)
    OBVIOUS
  <2>3. Append(u, n) = u \o <<n>>
    BY AppendIsConcat
  <2> QED
    BY <2>1, <2>2, <2>3
<1>3. Len(v) = m + 1 /\ \A i \in 1 .. m + 1 : v[i] = IF i <= m THEN u[i] ELSE n
  BY <1>1, <1>2, AppendProperties
<1>4. PICK t \in Seq(Nat) : t = s \o v /\ Len(t) = k + (m + 1)
         /\ \A i \in 1 .. k + (m + 1) : t[i] = IF i <= k THEN s[i] ELSE v[i - k]
  <2>1. /\ s \o v \in Seq(Nat) /\ Len(s \o v) = Len(s) + Len(v)
        /\ \A i \in 1 .. Len(s) + Len(v) : (s \o v)[i] = IF i <= Len(s) THEN s[i] ELSE v[i - Len(s)]
    BY ConcatProperties, Zenon
  <2>2. Len(s) = k /\ Len(v) = m + 1
    BY <1>1, <1>3
  <2> QED
    BY <2>1, <2>2, Zenon
<1>5. t = Append(s \o u, n)
  BY <1>2, <1>4, ConcatAppend
<1>6. ToSet(t) \subseteq Named(h) \cup {n}
  <2>1. \A i \in DOMAIN t : t[i] \in {s[j] : j \in DOMAIN s} \cup {u[j] : j \in DOMAIN u} \cup {n}
    <3> SUFFICES ASSUME NEW i \in 1 .. k + (m + 1)
                 PROVE  t[i] \in {s[j] : j \in DOMAIN s} \cup {u[j] : j \in DOMAIN u} \cup {n}
      BY <1>4, LenProperties
    <3>1. DOMAIN s = 1 .. k /\ DOMAIN u = 1 .. m
      BY <1>1, LenProperties
    <3>2. CASE i <= k
      <4>1. i \in 1 .. k /\ t[i] = s[i]
        BY <1>4, <3>2
      <4> QED
        BY <3>1, <4>1
    <3>3. CASE ~(i <= k)
      <4>0. t[i] = IF i <= k THEN s[i] ELSE v[i - k]
        BY <1>4, Zenon
      <4>1. i - k \in 1 .. m + 1 /\ t[i] = v[i - k]
        BY <3>3, <4>0
      <4>2. PICK q \in 1 .. m + 1 : q = i - k
        BY <4>1
      <4>3. (v[q] = u[q] /\ q \in 1 .. m) \/ v[q] = n
        BY <1>3
      <4> QED
        BY <3>1, <4>1, <4>2, <4>3
    <3> QED
      BY <3>2, <3>3
  <2>2. ToSet(t) = {t[i] : i \in DOMAIN t}
    BY Zenon DEF ToSet
  <2>3. Named(h) = {s[j] : j \in DOMAIN s} \cup {u[j] : j \in DOMAIN u}
    BY <1>1, Zenon DEF Named, ToSet
  <2> QED
    BY <2>1, <2>2, <2>3
<1>7. Named(Sure(t)) = ToSet(t)
  <2>1. ToSet(<<>>) = {}
    BY DEF ToSet
  <2> QED
    BY <2>1 DEF Named, Sure
<1>8. Sure(t) \in History
  BY EmptySeq DEF Sure, History
<1> QED
  BY <1>1, <1>2, <1>4, <1>5, <1>6, <1>7, <1>8

(* The line reaches the medium, if the file is still the journal.          *)
LEMMA SyncKeeps == ASSUME FInd, AppendSyncs PROVE FInd'
<1> USE DEF FInd
<1>1. /\ fStep = "written" /\ fStep' = "synced"
      /\ fDurable' = [fDurable EXCEPT ![fLog.inode] = Len(fContent[fLog.inode])]
      /\ UNCHANGED <<fContent, fNames, fDurableNames, fLog, fDoing, fRuntime, fHistory, fAppended>>
  BY DEF AppendSyncs
<1>2. \A i \in Inode : fDurable'[i] = IF i = fLog.inode THEN Len(fContent[i]) ELSE fDurable[i]
  BY <1>1 DEF FType
<1>3. FType'
  <2>1. \A i \in Inode : fDurable'[i] \in Nat /\ fDurable'[i] <= Len(fContent[i])
    <3> SUFFICES ASSUME NEW i \in Inode PROVE fDurable'[i] \in Nat /\ fDurable'[i] <= Len(fContent[i])
      OBVIOUS
    <3>1. fDurable[i] \in 0 .. Len(fContent[i]) /\ Len(fContent[i]) \in Nat
      BY JournalTypes, LenProperties
    <3> QED
      BY <1>2, <3>1
  <2>2. fDurable' \in [Inode -> Nat]
    <3>1. fDurable' = [i \in Inode |-> fDurable'[i]]
      BY <1>1 DEF FType
    <3> QED
      BY <2>1, <3>1
  <2> QED
    BY <1>1, <2>1, <2>2 DEF FType
<1>4. FSteps'
  BY <1>1 DEF FSteps
<1>5. /\ Settled' = fAppended /\ Settled = fAppended /\ Doubt' = InDoubt /\ Doubt = InDoubt
      /\ Journals' = {fNames.journal} /\ Journals = {fNames.journal} /\ Visible' = Visible
  BY <1>1 DEF Settled, Doubt, Journals, FSteps, InDoubt, Visible
<1>6. PICK c \in Seq(FLine), j \in Inode, d \in Nat :
         /\ d \in 0 .. Len(c) /\ c = Visible /\ j = fNames.journal /\ c = fContent[j] /\ d = fDurable[j]
  BY JournalTypes
<1>7. Safe(c, d, fHistory, InDoubt, Upto(fAppended)) /\ Orderly(c, d)
  BY <1>1, <1>5, <1>6 DEF Files, Serving
<1>8. Safe(c, Len(c), fHistory, InDoubt, Upto(fAppended)) /\ Orderly(c, Len(c))
  BY <1>6, <1>7, SafeSynced
<1>9. fDurable'[j] = d \/ fDurable'[j] = Len(c)
  BY <1>2, <1>6
<1>10. Safe(c, fDurable'[j], fHistory, InDoubt, Upto(fAppended)) /\ Orderly(c, fDurable'[j])
  BY <1>7, <1>8, <1>9
<1>11. Files'
  BY <1>1, <1>5, <1>6, <1>10 DEF Files, Upto
<1>12. Serving'
  BY <1>1, <1>5, <1>6, <1>10 DEF Serving
<1>13. AfterAppend'
  BY <1>1, <1>2, <1>5, <1>6 DEF AfterAppend
<1>14. Named(fHistory') \subseteq Upto(Settled')
  BY <1>1, <1>5
<1> QED
  BY <1>1, <1>3, <1>4, <1>11, <1>12, <1>13, <1>14 DEF BeforeAppend, Repairing

(* The record is acknowledged.                                             *)
LEMMA AppendReturnKeeps == ASSUME FInd, AppendReturns PROVE FInd'
<1> USE DEF FInd
<1>1. /\ fStep = "synced" /\ fNames.journal = fLog.inode /\ Len(Visible) = fLog.size + 1
      /\ fLog' = [fLog EXCEPT !.size = fLog.size + 1]
      /\ UNCHANGED <<fContent, fDurable, fNames, fDurableNames, fAppended>>
  BY DEF AppendReturns, AsWritten, fFiles
<1>2. PICK x \in FLine : x = fDoing[1] /\ x.of = fAppended /\ x.seq = fRuntime.seq + 1 /\ fAppended # 0
  BY <1>1 DEF FSteps
<1>3. /\ fAppended \in Nat /\ fLog.size \in Nat /\ fRuntime.seq \in Nat /\ fLog.inode \in Inode
      /\ fHistory \in History /\ fHistory.sure \in Seq(Nat) /\ fHistory.hoped \in Seq(Nat)
      /\ fLog' \in [inode : Inode \cup {Noone}, size : Nat] /\ fLog'.size = fLog.size + 1
      /\ fLog'.inode = fLog.inode
  <2>1. fLog.size \in Nat /\ fLog.inode \in Inode \cup {Noone} /\ fLog.inode \in Inode
    BY <1>1 DEF FType
  <2>2. /\ fLog' \in [inode : Inode \cup {Noone}, size : Nat] /\ fLog'.size = fLog.size + 1
        /\ fLog'.inode = fLog.inode
    <3>1. fLog \in [inode : Inode \cup {Noone}, size : Nat]
      BY DEF FType
    <3>2. fLog' = [fLog EXCEPT !.size = fLog.size + 1] /\ fLog.size + 1 \in Nat
      BY <1>1, <2>1
    <3>3. PICK m \in Nat : m = fLog.size + 1
      BY <3>2
    <3>4. fLog' = [fLog EXCEPT !.size = m]
      BY <3>2, <3>3
    <3>5. /\ fLog' \in [inode : Inode \cup {Noone}, size : Nat] /\ fLog'.size = m
          /\ fLog'.inode = fLog.inode
      BY ONLY <3>1, <3>4, m \in Nat
    <3> QED
      BY <3>3, <3>5
  <2>3. fRuntime.seq \in Nat /\ fHistory \in History
    BY DEF FType
  <2> QED
    BY <2>1, <2>2, <2>3, DoubtOf
<1>4. PICK c \in Seq(FLine), j \in Inode :
         /\ c = Visible /\ j = fNames.journal /\ c = fContent[j] /\ Visible' = c
         /\ Len(c) \in 0 .. Len(c) /\ fDurable[j] = Len(c)
  <2>1. fDurable[fNames.journal] = Len(Visible)
    BY <1>1 DEF AfterAppend
  <2>2. Visible \in Seq(FLine) /\ Visible' = Visible /\ fNames.journal \in Inode
        /\ Visible = fContent[fNames.journal]
    BY <1>1, JournalTypes DEF Visible, FType
  <2>3. Len(Visible) \in 0 .. Len(Visible)
    BY <2>2, LenProperties
  <2> QED
    BY <2>1, <2>2, <2>3
<1>5. /\ Settled' = fAppended /\ Settled = fAppended /\ Doubt = InDoubt
      /\ Journals' = {j} /\ Journals = {j}
  <2>1. fStep' \in {"intent", "serving"}
    BY Zenon DEF AppendReturns
  <2> QED
    BY <1>1, <1>4, <2>1 DEF Settled, Doubt, Journals, FSteps
<1>6. Safe(c, Len(c), fHistory, InDoubt, Upto(fAppended)) /\ Orderly(c, Len(c)) /\ Left(c, Len(c)) = {c}
  BY <1>1, <1>4, <1>5, LeftOf DEF Files, Serving
<1>7. From(c, Upto(fAppended))
  BY <1>6 DEF Safe
<1>8. /\ Len(c) <= fLog.size + 1
      /\ Len(Read(c).events) <= fRuntime.seq + (IF x.kind = "intent" THEN 0 ELSE 1)
      /\ Read(c).ok => Written(c, fHistory, x.kind, fAppended)
  <2>1. Wrote(c, fLog.size, fRuntime.seq, fHistory, x.kind, fAppended)
    BY <1>1, <1>2, <1>4 DEF AfterAppend
  <2> QED
    BY <1>1, <1>4, <2>1 DEF Wrote
<1>9. CASE x.kind = "intent"
  <2>1. fStep' = "intent" /\ UNCHANGED <<fDoing, fRuntime, fHistory>>
    BY <1>2, <1>9 DEF AppendReturns
  <2>2. ~Readable(c)
    BY <1>8, <1>9 DEF Readable, Written
  <2>3. Safe(c, Len(c), fHistory, fHistory.hoped, Upto(fAppended))
    BY <1>6, <1>7, <2>2 DEF Safe
  <2>4. Doubt' = fHistory.hoped
    BY <2>1 DEF Doubt
  <2>5. Files' /\ Serving'
    BY <1>1, <1>4, <1>5, <1>6, <2>1, <2>3, <2>4 DEF Files, Serving, Upto
  <2>6. BeforeAppend'
    <3>1. Held(c, fLog.size + 1, fRuntime.seq, fHistory, TRUE, fAppended)
      <4>1. Len(Read(c).events) <= fRuntime.seq
        BY <1>3, <1>8, <1>9
      <4>2. Read(c).ok => Written(c, fHistory, "intent", fAppended)
        BY <1>8, <1>9
      <4> QED
        BY <1>8, <4>1, <4>2 DEF Held, Written
    <3>2. Pending'
      BY <2>1 DEF Pending
    <3> QED
      BY <1>1, <1>3, <1>4, <2>1, <3>1, <3>2 DEF BeforeAppend, Held
  <2>7. FType' /\ FSteps'
    BY <1>1, <1>2, <1>3, <2>1 DEF FType, FSteps
  <2>8. Named(fHistory') \subseteq Upto(Settled')
    BY <1>1, <1>5, <2>1
  <2> QED
    BY <2>1, <2>5, <2>6, <2>7, <2>8 DEF AfterAppend, Repairing
<1>10. CASE x.kind # "intent"
  <2>1. /\ fStep' = "serving" /\ fDoing' = <<>>
        /\ fRuntime' = [seq |-> x.seq, enc |-> x.enc \/ x.kind = "migration"]
        /\ fHistory' = Sure(fHistory.sure \o Append(fHistory.hoped, fAppended))
    BY <1>2, <1>10 DEF AppendReturns
  <2>2. PICK s \in Seq(Nat) :
           /\ s = fHistory.sure \o Append(fHistory.hoped, fAppended)
           /\ s = Append(fHistory.sure \o fHistory.hoped, fAppended)
           /\ fHistory' = Sure(s) /\ fHistory' \in History
           /\ Named(fHistory') \subseteq Named(fHistory) \cup {fAppended}
    BY <1>3, <2>1, NamedGrows
  <2>3. fHistory'.sure = s /\ fHistory'.hoped = <<>> /\ <<>> \in Seq(Nat) /\ s \o <<>> = s
    BY <2>2, EmptySeq, NoneInDoubt DEF Sure
  <2>4. Doubt' = <<>>
    BY <2>1, <2>3 DEF Doubt
  <2>5. Read(c).ok => Payloads(Read(c).events) = s /\ Read(c).intent = NoLine
    BY <1>8, <1>10, <2>2 DEF Written
  <2>6. Safe(c, Len(c), fHistory', <<>>, Upto(fAppended))
    <3>1. \A e \in Left(c, Len(c)) : Readable(e) => Tells(e, fHistory'.sure, <<>>)
      BY <1>6, <2>3, <2>5, TellsSure DEF Readable
    <3> QED
      BY <1>6, <1>7, <3>1 DEF Safe
  <2>7. Files' /\ Serving'
    <3>1. Files'
      BY <1>1, <1>4, <1>5, <2>4, <2>6 DEF Files, Upto
    <3> QED
      BY <1>1, <1>4, <1>6, <3>1 DEF Serving
  <2>8. BeforeAppend'
    <3>1. fRuntime'.seq = fRuntime.seq + 1
      BY <1>2, <2>1
    <3>2. Held(c, fLog.size + 1, fRuntime.seq + 1, fHistory', Pending', fAppended)
      BY <1>8, <1>10, <2>3, <2>5 DEF Held
    <3> QED
      BY <1>1, <1>3, <1>4, <3>1, <3>2 DEF BeforeAppend
  <2>9. FType'
    <3>1. fRuntime' \in [seq : Nat, enc : BOOLEAN]
      <4>1. x.seq \in Nat /\ x.enc \in BOOLEAN
        BY DEF FLine
      <4> QED
        BY <2>1, <4>1
    <3> QED
      BY <1>1, <1>3, <2>2, <3>1 DEF FType
  <2>10. FSteps'
    BY <1>1, <2>1 DEF FSteps
  <2>11. Named(fHistory') \subseteq Upto(Settled')
    <3>1. fAppended \in Upto(fAppended)
      BY <1>2, <1>3 DEF Upto
    <3> QED
      BY <1>5, <2>2, <3>1 DEF Upto
  <2> QED
    BY <2>1, <2>7, <2>8, <2>9, <2>10, <2>11 DEF AfterAppend, Repairing
<1> QED
  BY <1>9, <1>10

(* A repair finds a file for the backup and another for the new log.       *)
LEMMA TwoFree ==
    ASSUME FType, Cardinality(Free) > 1
    PROVE  New \in Free /\ (CHOOSE n \in Free \ {New} : TRUE) \in Free \ {New}
<1>1. Free # {}
  BY FS_EmptySet
<1>2. New \in Free
  BY <1>1, Zenon DEF New
<1>3. Free # {New}
  <2>1. Cardinality({New}) = 1
    BY FS_Singleton
  <2> QED
    BY <2>1
<1>4. Free \ {New} # {}
  BY <1>2, <1>3
<1> QED
  BY <1>2, <1>4, Zenon

(* A log that is repaired has not told the history: it is the history,     *)
(* line by line.                                                           *)
LEMMA RepairWriteKeeps == ASSUME FInd, RepairWrites PROVE FInd'
<1> USE DEF FInd
<1>1. /\ fStep = "repair" /\ fStep' = "rename" /\ Plain(Visible) /\ Cardinality(Free) > 1
      /\ ~Recovers(Visible)
      /\ UNCHANGED <<fDurableNames, fLog, fRuntime, fHistory, fAppended>>
  BY RepairsPlain DEF RepairWrites, Repairing
<1>2. PICK b \in Inode, t \in Inode :
         /\ b # t /\ b \in Free /\ t \in Free
         /\ fContent' = [fContent EXCEPT ![b] = Visible, ![t] = Renumbered(Visible)]
         /\ fDurable' = [fDurable EXCEPT ![b] = Len(Visible), ![t] = Len(Visible)]
         /\ fNames' = [fNames EXCEPT !.backup = b]
         /\ fDoing' = <<t>>
  <2>1. New \in Free /\ (CHOOSE n \in Free \ {New} : TRUE) \in Free \ {New}
    BY <1>1, TwoFree
  <2>2. Free \subseteq Inode
    BY DEF Free
  <2> QED
    BY <2>1, <2>2 DEF RepairWrites
<1>3. PICK c \in Seq(FLine), j \in Inode, d \in Nat :
         /\ d \in 0 .. Len(c) /\ c = Visible /\ j = fNames.journal /\ c = fContent[j] /\ d = fDurable[j]
  BY JournalTypes
<1>4. /\ Renumbered(c) \in Seq(FLine) /\ Len(Renumbered(c)) = Len(c) /\ Len(c) \in Nat
  BY <1>1, <1>3, RenumberedReads, LenProperties
<1>5. j # b /\ j # t
  BY <1>2, <1>3 DEF Free
<1>6. /\ fContent'[j] = c /\ fDurable'[j] = d /\ fContent'[t] = Renumbered(c) /\ fDurable'[t] = Len(c)
  BY <1>2, <1>3, <1>5 DEF FType
<1>7. FType'
  <2>1. fContent' \in [Inode -> Seq(FLine)] /\ fDurable' \in [Inode -> Nat]
    BY <1>2, <1>3, <1>4 DEF FType
  <2>2. \A i \in Inode : fDurable'[i] <= Len(fContent'[i])
    <3> SUFFICES ASSUME NEW i \in Inode PROVE fDurable'[i] <= Len(fContent'[i])
      OBVIOUS
    <3>1. CASE i = t
      BY <1>4, <1>6, <3>1
    <3>2. CASE i # t /\ i = b
      <4>1. fDurable'[i] = Len(c) /\ fContent'[i] = c
        BY <1>2, <1>3, <3>2 DEF FType
      <4> QED
        BY <1>4, <4>1
    <3>3. CASE i # t /\ i # b
      BY <1>2, <3>3 DEF FType
    <3> QED
      BY <3>1, <3>2, <3>3
  <2>3. fNames' \in [journal : Inode, backup : Inode \cup {Noone}]
    BY <1>2 DEF FType
  <2> QED
    BY <1>1, <2>1, <2>2, <2>3 DEF FType
<1>8. fNames'.journal = j /\ Visible' = c /\ fDurableNames.journal = j
  BY <1>1, <1>2, <1>3, <1>6 DEF Visible, FType, FSteps
<1>9. FSteps'
  BY <1>1, <1>8 DEF FSteps
<1>10. /\ Settled' = fAppended /\ Settled = fAppended /\ Doubt' = InDoubt /\ Doubt = InDoubt
       /\ Journals' = {j} /\ Journals = {j}
  BY <1>1, <1>3, <1>8 DEF Settled, Doubt, InDoubt, Journals
<1>11. Safe(c, d, fHistory, InDoubt, Upto(fAppended))
  BY <1>3, <1>10 DEF Files
<1>12. Files'
  BY <1>1, <1>6, <1>10, <1>11 DEF Files, Upto
<1>13. fHistory = Sure(Payloads(c))
  <2>1. CASE Orderly(c, d)
    <3>1. Read(c).ok
      BY <1>1, <1>3, <2>1, LeftOf DEF Orderly
    <3>2. Recovers(c)
      BY <1>1, <1>3, <3>1, PlainReads, CalmRecovers
    <3> QED
      BY <1>1, <1>3, <3>2
  <2>2. CASE fHistory = Sure(Payloads(c))
    BY <2>2
  <2> QED
    BY <1>11, <2>1, <2>2 DEF Safe
<1>14. Repairing'
  <2>1. fDoing'[1] = t
    BY <1>2
  <2> QED
    BY <1>1, <1>3, <1>4, <1>6, <1>8, <1>13, <2>1 DEF Repairing
<1>15. Named(fHistory') \subseteq Upto(Settled')
  BY <1>1, <1>10
<1> QED
  BY <1>1, <1>7, <1>9, <1>12, <1>14, <1>15 DEF Serving, BeforeAppend, AfterAppend

(* Either the old log is the journal after a power failure or the new one. *)
LEMMA RenameKeeps == ASSUME FInd, RepairRenames PROVE FInd'
<1> USE DEF FInd
<1>1. PICK t \in Inode :
         /\ fStep = "rename" /\ fStep' = "renamed" /\ t = fDoing[1]
         /\ fNames' = [fNames EXCEPT !.journal = t]
         /\ fLog' = [inode |-> t, size |-> Len(fContent[t])]
         /\ UNCHANGED <<fContent, fDurable, fDurableNames, fRuntime, fHistory, fAppended>>
  BY DEF RepairRenames, Repairing
<1>2. PICK c \in Seq(FLine), j \in Inode, d \in Nat :
         /\ d \in 0 .. Len(c) /\ c = Visible /\ j = fNames.journal /\ c = fContent[j] /\ d = fDurable[j]
  BY JournalTypes
<1>3. PICK e \in Seq(FLine) :
         /\ e = fContent[t] /\ e = Renumbered(c) /\ fDurable[t] = Len(e) /\ Len(e) \in Nat
         /\ Plain(c) /\ fHistory = Sure(Payloads(c))
  <2>1. fContent[t] \in Seq(FLine)
    BY JournalTypes
  <2> QED
    BY <1>1, <1>2, <2>1, LenProperties DEF Repairing
<1>4. Read(e).ok /\ Read(e).events = e /\ Payloads(e) = Payloads(c)
  BY <1>3, RenumberedReads
<1>5. /\ Settled' = fAppended /\ Settled = fAppended /\ Doubt' = InDoubt /\ Doubt = InDoubt
      /\ Journals' = {t, j} /\ Journals = {j}
  BY <1>1, <1>2 DEF Settled, Doubt, InDoubt, Journals, FType, FSteps
<1>6. Safe(c, d, fHistory, InDoubt, Upto(fAppended))
  BY <1>2, <1>5 DEF Files
<1>7. Safe(e, Len(e), fHistory, InDoubt, Upto(fAppended))
  <2>1. From(c, Upto(fAppended))
    BY <1>6 DEF Safe
  <2>2. From(e, Upto(fAppended))
    <3>1. e = [i \in DOMAIN c |-> [c[i] EXCEPT !.seq = i, !.end = "line"]]
      BY <1>3 DEF Renumbered
    <3>2. DOMAIN e = DOMAIN c /\ \A i \in DOMAIN c : c[i] \in FLine
      BY <3>1, ElementOfSeq, LenProperties
    <3>3. \A i \in DOMAIN c : e[i].of = c[i].of
      BY <3>1, <3>2 DEF FLine
    <3> QED
      BY <2>1, <3>2, <3>3 DEF From
  <2>3. fHistory.sure = Payloads(Read(e).events)
    BY <1>3, <1>4 DEF Sure
  <2>4. InDoubt \in Seq(Nat)
    BY DoubtOf
  <2> QED
    BY <1>4, <2>2, <2>3, <2>4, SafeRead
<1>8. Files'
  BY <1>1, <1>2, <1>3, <1>5, <1>6, <1>7 DEF Files, Upto
<1>9. FType'
  <2>1. fNames' \in [journal : Inode, backup : Inode \cup {Noone}]
    BY <1>1 DEF FType
  <2>2. fLog' \in [inode : Inode \cup {Noone}, size : Nat]
    BY <1>1, <1>3
  <2> QED
    BY <1>1, <2>1, <2>2 DEF FType
<1>10. Named(fHistory') \subseteq Upto(Settled')
  BY <1>1, <1>5
<1> QED
  BY <1>1, <1>8, <1>9, <1>10 DEF FSteps, Serving, BeforeAppend, AfterAppend, Repairing

(* A power failure.                                                        *)
LEMMA PowerKeeps == ASSUME FInd, PowerFails PROVE FInd'
<1> USE DEF FInd
<1>1. /\ fStep' = "down" /\ fLog' = [inode |-> Noone, size |-> 0]
      /\ fRuntime' = [seq |-> 0, enc |-> FALSE] /\ UNCHANGED <<fHistory, fAppended>>
  BY DEF PowerFails, Ended, NoLog, NoRuntime
<1>2. PICK j \in Journals, b \in {fNames.backup, fDurableNames.backup} :
         \E lines \in Left(fContent[j], fDurable[j]) :
             /\ fNames' = [journal |-> j, backup |-> b]
             /\ fDurableNames' = fNames'
             /\ fContent' = [n \in Inode |-> IF n = j THEN lines
                                             ELSE IF n = b THEN fContent[n] ELSE <<>>]
             /\ fDurable' = [n \in Inode |-> Len(fContent'[n])]
  BY DEF PowerFails, Journals
<1>3. PICK lines \in Left(fContent[j], fDurable[j]) :
             /\ fNames' = [journal |-> j, backup |-> b]
             /\ fDurableNames' = fNames'
             /\ fContent' = [n \in Inode |-> IF n = j THEN lines
                                             ELSE IF n = b THEN fContent[n] ELSE <<>>]
             /\ fDurable' = [n \in Inode |-> Len(fContent'[n])]
  BY <1>2
<1>4. /\ j \in Inode /\ fContent[j] \in Seq(FLine) /\ fDurable[j] \in 0 .. Len(fContent[j])
      /\ b \in Inode \cup {Noone}
  BY <1>2, JournalTypes DEF FType
<1>5. lines \in Seq(FLine)
  BY <1>3, <1>4, LeftWithin
<1>6. FType'
  <2>1. fContent' \in [Inode -> Seq(FLine)]
    BY <1>3, <1>5, EmptySeq DEF FType
  <2>2. \A n \in Inode : fDurable'[n] = Len(fContent'[n]) /\ Len(fContent'[n]) \in Nat
    BY <1>3, <2>1, LenProperties
  <2>3. fDurable' \in [Inode -> Nat]
    <3>1. fDurable' = [n \in Inode |-> fDurable'[n]]
      BY <1>3
    <3> QED
      BY <2>2, <3>1
  <2>4. /\ fLog' \in [inode : Inode \cup {Noone}, size : Nat]
        /\ fRuntime' \in [seq : Nat, enc : BOOLEAN]
        /\ fNames' \in [journal : Inode, backup : Inode \cup {Noone}]
    BY <1>1, <1>3, <1>4
  <2>5. \A n \in Inode : fDurable'[n] <= Len(fContent'[n])
    BY <2>2
  <2>6. fDurableNames' \in [journal : Inode, backup : Inode \cup {Noone}]
    BY <1>3, <2>4
  <2>7. fHistory' \in History /\ fAppended' \in 0 .. MaxFRecords
    BY <1>1 DEF FType
  <2> QED
    BY <2>1, <2>3, <2>4, <2>5, <2>6, <2>7 DEF FType
<1>7. FSteps' /\ Serving' /\ BeforeAppend' /\ AfterAppend' /\ Repairing'
  BY <1>1 DEF FSteps, Serving, BeforeAppend, AfterAppend, Repairing
<1>8. /\ Settled' = fAppended /\ Doubt' = InDoubt /\ Journals' = {j}
      /\ Upto(Settled) \subseteq Upto(fAppended)
  BY <1>1, <1>3, SettledOf DEF Settled, Doubt, InDoubt, Journals
<1>9. Files'
  <2>1. Safe(fContent[j], fDurable[j], fHistory, Doubt, Upto(Settled))
    BY <1>2 DEF Files
  <2>2. Safe(lines, Len(lines), fHistory, Doubt, Upto(Settled))
    BY <1>3, <1>4, <2>1, SafeLeft
  <2>3. Safe(lines, Len(lines), fHistory, InDoubt, Upto(fAppended))
    <3>1. fHistory \in History /\ Doubt \in Seq(Nat) /\ fAppended \in Nat
          /\ (InDoubt = Doubt \/ InDoubt = Append(Doubt, fAppended))
      BY DoubtOf DEF FType
    <3> QED
      BY <1>8, <2>2, <3>1, SafeGrows
  <2>4. fContent'[j] = lines /\ fDurable'[j] = Len(lines)
    BY <1>3, <1>4
  <2> QED
    BY <1>1, <1>8, <2>3, <2>4 DEF Files, Upto
<1>10. Named(fHistory') \subseteq Upto(Settled')
  BY <1>1, <1>8
<1> QED
  BY <1>6, <1>7, <1>9, <1>10

(* A change from outside leaves a file that recovers, and that is the      *)
(* history from then on.                                                   *)
LEMMA TamperKeeps == ASSUME FInd, Tamper PROVE FInd'
<1> USE DEF FInd
<1>1. UNCHANGED <<fLog, fStep, fDoing, fRuntime, fAppended>>
      /\ fStep \notin {"repair", "rename", "renamed", "repaired"}
  BY DEF Tamper, fProcess
<1>2. PICK c \in Seq(FLine), j \in Inode, d \in Nat :
         /\ d \in 0 .. Len(c) /\ c = Visible /\ j = fNames.journal /\ c = fContent[j] /\ d = fDurable[j]
         /\ j \in Journals
  BY JournalTypes
<1>3. PICK k \in 0 .. Len(c), i \in Inode :
         /\ fContent' = [fContent EXCEPT ![i] = SubSeq(c, 1, k)]
         /\ fDurable' = [fDurable EXCEPT ![i] = k]
         /\ fNames' = [fNames EXCEPT !.journal = i]
         /\ fDurableNames' = fNames'
         /\ i # fLog.inode \/ (i = j /\ k < Len(c))
         /\ Recovers(SubSeq(c, 1, k))
         /\ fHistory' = Sure(Payloads(ReadEventLog(SubSeq(c, 1, k)).events))
  <2>1. PICK k \in 0 .. Len(c) :
          /\ \/ /\ Free # {}
                /\ fContent' = [fContent EXCEPT ![New] = SubSeq(c, 1, k)]
                /\ fDurable' = [fDurable EXCEPT ![New] = k]
                /\ fNames' = [fNames EXCEPT !.journal = New]
             \/ /\ k < Len(c)
                /\ fContent' = [fContent EXCEPT ![j] = SubSeq(c, 1, k)]
                /\ fDurable' = [fDurable EXCEPT ![j] = k]
                /\ fNames' = fNames
          /\ fDurableNames' = fNames'
          /\ Recovers(SubSeq(c, 1, k))
          /\ fHistory' = Sure(Payloads(ReadEventLog(SubSeq(c, 1, k)).events))
    BY <1>2 DEF Tamper
  <2>2. CASE Free # {} /\ fNames' = [fNames EXCEPT !.journal = New]
             /\ fContent' = [fContent EXCEPT ![New] = SubSeq(c, 1, k)]
             /\ fDurable' = [fDurable EXCEPT ![New] = k]
    <3>1. New \in Free
      BY <2>2, Zenon DEF New
    <3>2. New \in Inode /\ New # fLog.inode
      BY <3>1 DEF Free
    <3> QED
      BY <2>1, <2>2, <3>2
  <2>3. CASE k < Len(c) /\ fNames' = fNames
             /\ fContent' = [fContent EXCEPT ![j] = SubSeq(c, 1, k)]
             /\ fDurable' = [fDurable EXCEPT ![j] = k]
    <3>1. fNames = [fNames EXCEPT !.journal = j]
      BY <1>2 DEF FType
    <3> QED
      BY <2>1, <2>3, <3>1
  <2> QED
    BY <2>1, <2>2, <2>3
<1>4. PICK e \in Seq(FLine) :
         /\ e = SubSeq(c, 1, k) /\ Within(Read(e), Read(c)) /\ Len(e) = k /\ k \in 0 .. Len(e)
         /\ k <= Len(c) /\ Len(c) \in Nat
  <2>1. SubSeq(c, 1, k) \in Seq(FLine) /\ Within(Read(SubSeq(c, 1, k)), Read(c))
    BY PrefixWithin
  <2>2. Len(c) \in Nat /\ k \in 0 .. Len(c)
    BY LenProperties
  <2>3. Len(SubSeq(c, 1, k)) = k
    BY <2>2
  <2>4. k \in 0 .. Len(SubSeq(c, 1, k)) /\ k <= Len(c)
    BY <2>2, <2>3
  <2> QED
    BY <2>1, <2>2, <2>3, <2>4
<1>5. Readable(e) /\ fHistory' = Sure(Payloads(Read(e).events))
  BY <1>3, <1>4, LogOf DEF Recovers
<1>6. Settled' = Settled /\ Journals' = {i} /\ fNames'.journal = i
      /\ fContent'[i] = e /\ fDurable'[i] = k /\ Visible' = e
  BY <1>1, <1>3, <1>4 DEF Settled, Journals, Visible, FType
<1>7. From(e, Upto(Settled))
  <2>1. From(c, Upto(Settled))
    BY <1>2 DEF Files, Safe
  <2> QED
    BY <1>4, <2>1, PrefixFrom
<1>8. /\ fHistory' \in History /\ Named(fHistory') \subseteq Upto(Settled)
      /\ fHistory'.sure = Payloads(Read(e).events) /\ fHistory'.hoped = <<>>
      /\ fHistory'.sure \in Seq(Nat) /\ fHistory'.sure \o fHistory'.hoped = fHistory'.sure
  <2>1. fHistory'.sure = Payloads(Read(e).events) /\ fHistory'.hoped = <<>>
    BY <1>5 DEF Sure
  <2>2. fHistory' \in History /\ Named(fHistory') \subseteq Upto(Settled)
    BY <1>5, <1>7, SureOf
  <2>3. fHistory'.sure \in Seq(Nat) /\ <<>> \in Seq(Nat)
    BY <2>1, EventsPaid, EmptySeq
  <2> QED
    BY <2>1, <2>2, <2>3, NoneInDoubt
<1>9. FType'
  <2>1. fContent' \in [Inode -> Seq(FLine)]
    BY <1>3, <1>4 DEF FType
  <2>2. fDurable' \in [Inode -> Nat]
    BY <1>3 DEF FType
  <2>3. \A n \in Inode : fDurable'[n] <= Len(fContent'[n])
    <3> SUFFICES ASSUME NEW n \in Inode PROVE fDurable'[n] <= Len(fContent'[n])
      OBVIOUS
    <3>1. CASE n = i
      BY <1>4, <1>6, <3>1
    <3>2. CASE n # i
      BY <1>3, <3>2 DEF FType
    <3> QED
      BY <3>1, <3>2
  <2>4. fNames' \in [journal : Inode, backup : Inode \cup {Noone}]
    BY <1>3 DEF FType
  <2> QED
    BY <1>1, <1>3, <1>8, <2>1, <2>2, <2>3, <2>4 DEF FType
<1>10. FSteps'
  BY <1>1, <1>3 DEF FSteps
<1>11. Doubt' \in Seq(Nat)
  <2>1. Doubt' = <<>> \/ Doubt' = Append(<<>>, fAppended)
    <3>1. Doubt' = fHistory'.hoped \/ Doubt' = Append(fHistory'.hoped, fAppended')
      BY Zenon DEF Doubt, InDoubt
    <3> QED
      BY <1>1, <1>8, <3>1
  <2>2. fAppended \in Nat /\ <<>> \in Seq(Nat)
    BY EmptySeq, DoubtOf
  <2>3. Append(<<>>, fAppended) \in Seq(Nat)
    BY <2>2, AppendProperties
  <2> QED
    BY <2>1, <2>2, <2>3
<1>12. Files'
  <2>1. Safe(e, Len(e), fHistory', Doubt', Upto(Settled))
    BY <1>5, <1>7, <1>8, <1>11, SafeRead DEF Readable
  <2> QED
    BY <1>4, <1>6, <2>1 DEF Files, Upto
<1>13. Serving'
  <2>1. Orderly(e, k)
    BY <1>4, <1>5, ReadOrderly DEF Readable
  <2> QED
    BY <1>6, <2>1 DEF Serving
<1>14. Len(Read(e).events) <= Len(Read(c).events)
       /\ Len(Read(e).events) \in Nat /\ Len(Read(c).events) \in Nat
  BY <1>4, EventsPaid DEF Within
<1>15. fRuntime.seq \in Nat /\ fLog.size \in Nat
  BY DEF FType
<1>16. BeforeAppend'
  <2> SUFFICES ASSUME fStep \in {"serving", "intent", "checked"}, i = fLog.inode
               PROVE  Held(e, fLog.size, fRuntime.seq, fHistory', Pending', fAppended)
    BY <1>1, <1>6 DEF BeforeAppend
  <2>1. Held(c, fLog.size, fRuntime.seq, fHistory, Pending, fAppended)
    BY <1>2, <1>3 DEF BeforeAppend
  <2>2. Len(c) <= fLog.size /\ Len(Read(c).events) <= fRuntime.seq
    BY <2>1 DEF Held
  <2>3. Len(e) <= fLog.size /\ Len(Read(e).events) <= fRuntime.seq
    BY <1>4, <1>14, <1>15, <2>2
  <2> QED
    BY <1>5, <1>8, <2>3 DEF Held, Readable
<1>17. AfterAppend'
  <2> SUFFICES ASSUME fStep \in {"written", "synced"}, i = fLog.inode
               PROVE  /\ Wrote(e, fLog.size, fRuntime.seq, fHistory', fDoing[1].kind, fAppended)
                      /\ k = Len(e)
    BY <1>1, <1>6 DEF AfterAppend
  <2>1. Wrote(c, fLog.size, fRuntime.seq, fHistory, fDoing[1].kind, fAppended) /\ k < Len(c)
    BY <1>2, <1>3 DEF AfterAppend
  <2>2. /\ Len(c) <= fLog.size + 1
        /\ Len(Read(c).events) <= fRuntime.seq + (IF fDoing[1].kind = "intent" THEN 0 ELSE 1)
    BY <2>1 DEF Wrote
  <2>3. PICK m \in {0, 1} : m = IF fDoing[1].kind = "intent" THEN 0 ELSE 1
    OBVIOUS
  <2>4. Len(e) <= fLog.size + 1 /\ Len(e) # fLog.size + 1 /\ Len(Read(e).events) <= fRuntime.seq + m
    BY <1>4, <1>14, <1>15, <2>1, <2>2, <2>3
  <2> QED
    BY <1>4, <2>3, <2>4 DEF Wrote
<1>18. Repairing'
  BY <1>1 DEF Repairing
<1>19. Named(fHistory') \subseteq Upto(Settled')
  BY <1>6, <1>8 DEF Upto
<1> QED
  BY <1>9, <1>10, <1>12, <1>13, <1>16, <1>17, <1>18, <1>19

LEMMA FIndStep == FInd /\ [FNext]_fVars => FInd'
<1> SUFFICES ASSUME FInd, [FNext]_fVars PROVE FInd'
  OBVIOUS
<1>1. CASE OpenToServe
  BY <1>1, ServeKeeps
<1>2. CASE OpenToRepair
  BY <1>2, RepairOpens
<1>3. CASE Ends
  BY <1>3, EndKeeps
<1>4. CASE AppendChecks
  BY <1>4, CheckKeeps
<1>5. CASE AppendWrites
  BY <1>5, LineKeeps
<1>6. CASE AppendSyncs
  BY <1>6, SyncKeeps
<1>7. CASE AppendReturns
  BY <1>7, AppendReturnKeeps
<1>8. CASE RepairWrites
  BY <1>8, RepairWriteKeeps
<1>9. CASE RepairRenames
  BY <1>9, RenameKeeps
<1>10. CASE RepairReturns
  BY <1>10, RepairEnds
<1>11. CASE PowerFails
  BY <1>11, PowerKeeps
<1>12. CASE Tamper
  BY <1>12, TamperKeeps
<1>13. CASE UNCHANGED fVars
  BY <1>13 DEF fVars, FInd, FType, FSteps, Files, Journals, Doubt, InDoubt, Settled, Upto, Serving,
     BeforeAppend, AfterAppend, Pending, Repairing, Visible
<1> QED
  BY <1>1, <1>2, <1>3, <1>4, <1>5, <1>6, <1>7, <1>8, <1>9, <1>10, <1>11, <1>12, <1>13 DEF FNext

(* The invariant of the journal file holds for any number of files,        *)
(* records, power failures and changes from outside.                       *)
THEOREM FileInvariance == FSpec => []FInd
BY FIndInit, FIndStep, PTL DEF FSpec

(* What a recovery reads is what was acknowledged, perhaps followed by     *)
(* records whose append never returned (OpenEventLog, Append,              *)
(* ReadEventLog and RepairConflictingSequences).                           *)
THEOREM AcknowledgedIsRead == FSpec => []ReadsWhatWasAcknowledged
<1>1. FInd => ReadsWhatWasAcknowledged
  <2> SUFFICES ASSUME FInd, ReadEventLog(Visible).ok
               PROVE  \E last \in 0 .. Len(InDoubt) :
                         Payloads(ReadEventLog(Visible).events)
                           = fHistory.sure \o SubSeq(InDoubt, 1, last)
    BY DEF ReadsWhatWasAcknowledged
  <2>1. PICK c \in Seq(FLine), j \in Journals, d \in Nat :
           d \in 0 .. Len(c) /\ c = Visible /\ c = fContent[j] /\ d = fDurable[j]
    BY JournalTypes DEF FInd
  <2>2. Readable(c) /\ ReadEventLog(Visible).events = Read(c).events
    BY <2>1, LogOf
  <2>3. c \in Left(c, d)
    BY <2>1, LeftOf
  <2>4. Tells(c, fHistory.sure, Doubt)
    BY <2>1, <2>2, <2>3 DEF FInd, Files, Safe
  <2>5. Tells(c, fHistory.sure, InDoubt)
    <3>1. /\ Doubt \in Seq(Nat) /\ fAppended \in Nat
          /\ InDoubt = Doubt \/ InDoubt = Append(Doubt, fAppended)
      BY DoubtOf DEF FInd
    <3> QED
      BY <2>4, <3>1, TellsMore
  <2> QED
    BY <2>2, <2>5 DEF Tells, Told
<1> QED
  BY <1>1, FileInvariance, PTL
=============================================================================
