----------------------- MODULE JournaledRuntimeProofs -----------------------
(***************************************************************************)
(* What JournaledRuntime keeps for every set of operations, every          *)
(* timestamp and every bound, with or without power failures, and that it  *)
(* implements the one committed history callers are promised.              *)
(***************************************************************************)
EXTENDS JournaledRuntime, SequenceTheorems, WellFoundedInduction, TLAPS
-----------------------------------------------------------------------------
(* Facts about numbers and the last observation of a sequence.             *)

(* Every nonempty set of naturals has a least element. *)
LEMMA LeastNatural ==
    ASSUME NEW T \in SUBSET Nat, T # {}
    PROVE  \E x \in T : \A y \in T : x <= y
<1> DEFINE R == {ss \in Nat \X Nat : ss[1] < ss[2]}
<1>1. R = OpToRel(<, Nat)
  BY DEF OpToRel
<1>2. IsWellFoundedOn(R, Nat)
  BY <1>1, NatLessThanWellFounded
<1>3. \E x \in T : \A y \in T : ~(<<y, x>> \in R)
  <2> HIDE DEF R
  <2> QED BY <1>2, WFMin
<1>4. \A x, y \in T : ~(<<y, x>> \in R) => x <= y
  OBVIOUS
<1> QED
  BY <1>3, <1>4

(* A nonempty set of positions of a sequence has a last one. *)
LEMMA LastPosition ==
    ASSUME NEW n \in Nat, NEW S \in SUBSET (1 .. n), S # {}
    PROVE  LET m == CHOOSE i \in S : \A j \in S : j <= i
           IN  m \in S /\ \A j \in S : j <= m
<1> DEFINE T == {n - i : i \in S}
<1>1. T \in SUBSET Nat /\ T # {}
  <2>1. \A i \in S : n - i \in Nat
    OBVIOUS
  <2> QED
    BY <2>1
<1>2. PICK x \in T : \A y \in T : x <= y
  BY <1>1, LeastNatural
<1>3. PICK i \in S : x = n - i
  BY <1>2
<1>4. \A j \in S : j <= i
  <2> SUFFICES ASSUME NEW j \in S PROVE j <= i
    OBVIOUS
  <2>1. x <= n - j
    BY <1>2
  <2> QED
    BY <2>1, <1>3
<1> QED
  BY <1>4

(* The time of the last observation is that of any position of an          *)
(* identified event with none behind it.                                   *)
LEMMA LastTimeIs ==
    ASSUME NEW e \in Seq(Op), NEW t, NEW m \in Observed(e),
           \A j \in Observed(e) : j <= m
    PROVE  LastTime(e, t) = Time[e[m]]
<1>1. Observed(e) \in SUBSET (1 .. Len(e)) /\ Len(e) \in Nat
  BY DEF Observed
<1> DEFINE k == CHOOSE i \in Observed(e) : \A j \in Observed(e) : j <= i
<1>2. k \in Observed(e) /\ \A j \in Observed(e) : j <= k
  <2> HIDE DEF k
  <2> QED BY <1>1 DEF k
<1>3. k = m
  BY <1>1, <1>2
<1> QED
  BY <1>3 DEF LastTime

LEMMA LastTimeType ==
    ASSUME NEW e \in Seq(Op), NEW t \in Nat
    PROVE  LastTime(e, t) \in Nat
<1>1. CASE Observed(e) = {}
  BY <1>1 DEF LastTime
<1>2. CASE Observed(e) # {}
  <2>1. Observed(e) \in SUBSET (1 .. Len(e)) /\ Len(e) \in Nat
    BY DEF Observed
  <2>2. PICK m \in Observed(e) : \A j \in Observed(e) : j <= m
    BY <1>2, <2>1, LastPosition
  <2>3. LastTime(e, t) = Time[e[m]]
    BY <2>2, LastTimeIs
  <2>4. e[m] \in Op
    BY <2>1, <2>2
  <2> QED
    BY <2>3, <2>4, TimeAssumption
<1> QED
  BY <1>1, <1>2

(* The observed positions of a concatenation. *)
LEMMA ObservedConcat ==
    ASSUME NEW p \in Seq(Op), NEW q \in Seq(Op)
    PROVE  Observed(p \o q) = Observed(p) \cup {Len(p) + i : i \in Observed(q)}
<1>1. /\ p \o q \in Seq(Op) /\ Len(p \o q) = Len(p) + Len(q)
      /\ \A i \in 1 .. Len(p) : (p \o q)[i] = p[i]
      /\ \A i \in 1 .. Len(q) : (p \o q)[Len(p) + i] = q[i]
  OBVIOUS
<1>2. Len(p) \in Nat /\ Len(q) \in Nat
  OBVIOUS
<1>3. ASSUME NEW i \in Observed(p \o q)
      PROVE  i \in Observed(p) \cup {Len(p) + j : j \in Observed(q)}
  <2>1. CASE i <= Len(p)
    BY <1>1, <1>2, <2>1 DEF Observed
  <2>2. CASE i > Len(p)
    <3>1. i - Len(p) \in 1 .. Len(q) /\ i = Len(p) + (i - Len(p))
      BY <1>1, <1>2, <2>2 DEF Observed
    <3>2. i - Len(p) \in Observed(q)
      BY <1>1, <3>1 DEF Observed
    <3> QED
      BY <3>1, <3>2
  <2> QED
    BY <1>1, <1>2, <2>1, <2>2 DEF Observed
<1>4. Observed(p) \subseteq Observed(p \o q)
  BY <1>1, <1>2 DEF Observed
<1>5. {Len(p) + i : i \in Observed(q)} \subseteq Observed(p \o q)
  BY <1>1, <1>2 DEF Observed
<1> QED
  BY <1>3, <1>4, <1>5

LEMMA LastTimeConcat ==
    ASSUME NEW p \in Seq(Op), NEW q \in Seq(Op), NEW t \in Nat
    PROVE  LastTime(p \o q, t) = LastTime(q, LastTime(p, t))
<1>1. /\ p \o q \in Seq(Op) /\ Len(p) \in Nat /\ Len(q) \in Nat
      /\ \A i \in 1 .. Len(p) : (p \o q)[i] = p[i]
      /\ \A i \in 1 .. Len(q) : (p \o q)[Len(p) + i] = q[i]
  OBVIOUS
<1>2. Observed(p) \in SUBSET (1 .. Len(p)) /\ Observed(q) \in SUBSET (1 .. Len(q))
  BY DEF Observed
<1>3. Observed(p \o q) = Observed(p) \cup {Len(p) + i : i \in Observed(q)}
  BY ObservedConcat
<1>4. CASE Observed(q) # {}
  <2>1. PICK m \in Observed(q) : \A j \in Observed(q) : j <= m
    BY <1>1, <1>2, <1>4, LastPosition
  <2>2. Len(p) + m \in Observed(p \o q)
    BY <1>3, <2>1
  <2>3. \A j \in Observed(p \o q) : j <= Len(p) + m
    BY <1>1, <1>2, <1>3, <2>1
  <2>4. LastTime(p \o q, t) = Time[(p \o q)[Len(p) + m]]
    BY <1>1, <2>2, <2>3, LastTimeIs
  <2>5. LastTime(q, LastTime(p, t)) = Time[q[m]]
    BY <2>1, LastTimeIs
  <2> QED
    BY <1>1, <1>2, <2>4, <2>5
<1>5. CASE Observed(q) = {}
  <2>1. Observed(p \o q) = Observed(p)
    BY <1>3, <1>5
  <2>2. LastTime(q, LastTime(p, t)) = LastTime(p, t)
    BY <1>5 DEF LastTime
  <2>3. CASE Observed(p) = {}
    BY <2>1, <2>2, <2>3 DEF LastTime
  <2>4. CASE Observed(p) # {}
    <3>1. PICK m \in Observed(p) : \A j \in Observed(p) : j <= m
      BY <1>1, <1>2, <2>4, LastPosition
    <3>2. LastTime(p, t) = Time[p[m]]
      BY <3>1, LastTimeIs
    <3>3. LastTime(p \o q, t) = Time[(p \o q)[m]]
      <4>1. m \in Observed(p \o q) /\ \A j \in Observed(p \o q) : j <= m
        BY <2>1, <3>1
      <4> QED
        BY <1>1, <4>1, LastTimeIs
    <3> QED
      BY <1>1, <1>2, <2>2, <3>2, <3>3
  <2> QED
    BY <2>3, <2>4
<1> QED
  BY <1>4, <1>5
-----------------------------------------------------------------------------
(* The replay of commands on a state.                                      *)

LEMMA AfterType ==
    ASSUME NEW s \in State, NEW e \in Seq(Op)
    PROVE  After(s, e) \in State
<1>1. s.brain \o e \in Seq(Op) /\ Len(s.brain) \in Nat
  BY DEF State
<1>2. \A i \in 1 .. Len(e) : e[i] \in HasID => <<e[i], Len(s.brain) + i>> \in HasID \X Nat
  BY <1>1
<1>3. Indexed(e, Len(s.brain)) \subseteq HasID \X Nat
  BY <1>2 DEF Indexed
<1>4. LastTime(e, s.lastAt) \in Nat
  BY LastTimeType DEF State
<1> QED
  BY <1>1, <1>3, <1>4 DEF After, State

LEMMA FreshType == Fresh \in State
  BY DEF Fresh, State

(* A replay from the foundation has exactly its events in the brain. *)
LEMMA AfterFresh ==
    ASSUME NEW e \in Seq(Op)
    PROVE  /\ After(Fresh, e).brain = e
           /\ After(Fresh, e).processed = Indexed(e, 0)
           /\ After(Fresh, e).lastAt = LastTime(e, 0)
<1>1. <<>> \o e = e /\ Len(<<>>) = 0
  BY ConcatEmptySeq
<1> QED
  BY <1>1 DEF After, Fresh

LEMMA IndexedConcat ==
    ASSUME NEW p \in Seq(Op), NEW q \in Seq(Op)
    PROVE  Indexed(p \o q, 0) = Indexed(p, 0) \cup Indexed(q, Len(p))
<1>1. /\ p \o q \in Seq(Op) /\ Len(p \o q) = Len(p) + Len(q)
      /\ \A i \in 1 .. Len(p) : (p \o q)[i] = p[i]
      /\ \A i \in 1 .. Len(q) : (p \o q)[Len(p) + i] = q[i]
      /\ Len(p) \in Nat /\ Len(q) \in Nat
  OBVIOUS
<1>2. /\ Observed(p \o q) = {j \in 1 .. Len(p \o q) : (p \o q)[j] \in HasID}
      /\ Observed(p) = {j \in 1 .. Len(p) : p[j] \in HasID}
      /\ Observed(q) = {j \in 1 .. Len(q) : q[j] \in HasID}
  BY DEF Observed
<1>3. Observed(p \o q) = Observed(p) \cup {Len(p) + i : i \in Observed(q)}
  BY ObservedConcat
<1>4. /\ Indexed(p \o q, 0) = {<<(p \o q)[i], 0 + i>> : i \in Observed(p \o q)}
      /\ Indexed(p, 0) = {<<p[i], 0 + i>> : i \in Observed(p)}
      /\ Indexed(q, Len(p)) = {<<q[i], Len(p) + i>> : i \in Observed(q)}
  BY <1>2 DEF Indexed
<1>5. \A i \in Observed(p) : <<(p \o q)[i], 0 + i>> = <<p[i], 0 + i>>
  BY <1>1, <1>2
<1>6. \A i \in Observed(q) : <<(p \o q)[Len(p) + i], 0 + (Len(p) + i)>> = <<q[i], Len(p) + i>>
  BY <1>1, <1>2
<1>7. ASSUME NEW x \in Indexed(p \o q, 0) PROVE x \in Indexed(p, 0) \cup Indexed(q, Len(p))
  <2>1. PICK i \in Observed(p \o q) : x = <<(p \o q)[i], 0 + i>>
    BY <1>4
  <2>2. CASE i \in Observed(p)
    BY <1>4, <1>5, <2>1, <2>2
  <2>3. CASE i \notin Observed(p)
    <3>1. PICK j \in Observed(q) : i = Len(p) + j
      BY <1>3, <2>3
    <3> QED
      BY <1>4, <1>6, <2>1, <3>1
  <2> QED
    BY <2>2, <2>3
<1>8. Indexed(p, 0) \subseteq Indexed(p \o q, 0)
  BY <1>3, <1>4, <1>5
<1>9. Indexed(q, Len(p)) \subseteq Indexed(p \o q, 0)
  BY <1>3, <1>4, <1>6
<1> QED
  BY <1>7, <1>8, <1>9

(* Replaying in two parts is replaying the whole. *)
LEMMA AfterConcat ==
    ASSUME NEW p \in Seq(Op), NEW q \in Seq(Op)
    PROVE  After(After(Fresh, p), q) = After(Fresh, p \o q)
<1>1. p \o q \in Seq(Op)
  OBVIOUS
<1>2. Indexed(p \o q, 0) = Indexed(p, 0) \cup Indexed(q, Len(p))
  BY IndexedConcat
<1>3. LastTime(p \o q, 0) = LastTime(q, LastTime(p, 0))
  BY LastTimeConcat
<1>4. After(After(Fresh, p), q) =
        [brain     |-> p \o q,
         processed |-> Indexed(p, 0) \cup Indexed(q, Len(p)),
         lastAt    |-> LastTime(q, LastTime(p, 0))]
  BY AfterFresh DEF After
<1>5. After(Fresh, p \o q) =
        [brain |-> p \o q, processed |-> Indexed(p \o q, 0), lastAt |-> LastTime(p \o q, 0)]
  BY <1>1, AfterFresh DEF After
<1> QED
  BY <1>2, <1>3, <1>4, <1>5

(* The duplicate check knows every identified event of the history. *)
LEMMA AcceptsNew ==
    ASSUME NEW p \in Seq(Op), NEW o \in HasID, Accepts(After(Fresh, p), o)
    PROVE  \A i \in 1 .. Len(p) : p[i] # o
<1>1. \A e \in Indexed(p, 0) : e[1] # o
  BY AfterFresh DEF Accepts
<1>2. \A i \in 1 .. Len(p) : p[i] \in HasID => <<p[i], 0 + i>> \in Indexed(p, 0)
  BY DEF Indexed
<1> QED
  BY <1>1, <1>2
-----------------------------------------------------------------------------
(* The inductive invariant.                                                *)

(* Where the lock holder may be in each mode of the runtime. *)
Phases ==
    /\ mode \in {"down", "poisoned"} => step = "idle"
    /\ mode = "detached" => step \in {"idle", "apply", "dirSync"}

(* The live state is a replay of its own brain, and so is the state in     *)
(* every anchored checkpoint.                                              *)
Deterministic ==
    /\ state = After(Fresh, state.brain)
    /\ \A c \in ckptKept : c.kind = "anchored" => c.state = After(Fresh, c.prefix)

(* How far the journal is ahead of, or behind, the brain at each point of  *)
(* a journaled operation.                                                  *)
WriteAhead ==
    mode = "attached" =>
        /\ step \in {"idle", "append", "dirSync"} =>
              tail = "clean" /\ log = state.brain
        /\ step \in {"sync", "apply"} =>
              IF op \in Sensor
              THEN tail = "intent" /\ log = state.brain
              ELSE tail = "clean" /\ log = Append(state.brain, op)
        /\ step = "commit" =>
              op \in Sensor /\ tail = "intent" /\ state.brain = Append(log, op)
        /\ step = "commitSync" =>
              tail = "clean" /\ log = state.brain /\ log # <<>> /\ log[Len(log)] = op
        /\ step = "apply" => synced = Len(log)

(* An identified operation that is still to be committed is not in the     *)
(* journal.                                                                *)
NotYetCommitted ==
    /\ mode = "attached" /\ op \in HasID
    /\ step = "append" \/ (step \in {"sync", "apply", "commit"} /\ op \in Sensor)
    => \A i \in 1 .. Len(log) : log[i] # op

(* A record that is about to be acknowledged has its newline. *)
Ended ==
    /\ mode = "attached"
    /\ (step \in {"sync", "apply"} /\ op \notin Sensor) \/ step = "commitSync"
    => Len(log) \notin bare

IndInv ==
    /\ TypeOK
    /\ Phases
    /\ Deterministic
    /\ WriteAhead
    /\ NotYetCommitted
    /\ Ended
    /\ AckedDurable
    /\ AtMostOnce
(* Two facts used by several steps: a new runtime is the empty replay, and *)
(* applying one operation to a replay is the replay with one more event.   *)
LEMMA FreshReplay == Fresh = After(Fresh, Fresh.brain)
<1>1. <<>> \in Seq(Op) /\ Len(<<>>) = 0
  OBVIOUS
<1>2. Observed(<<>>) = {} /\ Indexed(<<>>, 0) = {}
  BY DEF Observed, Indexed
<1>3. LastTime(<<>>, 0) = 0
  BY <1>2 DEF LastTime
<1>4. /\ After(Fresh, <<>>).brain = <<>>
      /\ After(Fresh, <<>>).processed = {}
      /\ After(Fresh, <<>>).lastAt = 0
  BY <1>1, <1>2, <1>3, AfterFresh
<1> QED
  BY <1>4 DEF After, Fresh

LEMMA ReplayOneMore ==
    ASSUME NEW s \in State, NEW o \in Op, s = After(Fresh, s.brain)
    PROVE  /\ After(s, <<o>>) \in State
           /\ After(s, <<o>>).brain = Append(s.brain, o)
           /\ After(s, <<o>>) = After(Fresh, Append(s.brain, o))
<1>1. s.brain \in Seq(Op) /\ <<o>> \in Seq(Op)
  BY DEF State
<1>2. Append(s.brain, o) = s.brain \o <<o>> /\ Append(s.brain, o) \in Seq(Op)
  BY <1>1, AppendIsConcat, AppendProperties
<1>3. After(s, <<o>>) = After(Fresh, Append(s.brain, o))
  BY <1>1, <1>2, AfterConcat
<1> QED
  BY <1>1, <1>2, <1>3, AfterType, AfterFresh

(* A prefix of a sequence. *)
LEMMA PrefixProperties ==
    ASSUME NEW s \in Seq(Op), NEW n \in 0 .. Len(s)
    PROVE  /\ SeqPrefix(s, n) \in Seq(Op)
           /\ Len(SeqPrefix(s, n)) = n
           /\ \A i \in 1 .. n : SeqPrefix(s, n)[i] = s[i]
           /\ SeqPrefix(s, n) \o Suffix(s, n) = s
           /\ Suffix(s, n) \in Seq(Op)
<1>1. \A i \in 1 .. Len(s) : s[i] \in Op
  OBVIOUS
<1>2. /\ SubSeq(s, 1, n) \in Seq(Op)
      /\ Len(SubSeq(s, 1, n)) = n
      /\ \A i \in 1 .. n : SubSeq(s, 1, n)[i] = s[i]
  BY <1>1, SubSeqProperties
<1>3. SubSeq(s, n + 1, Len(s)) \in Seq(Op)
  BY <1>1, SubSeqProperties
<1>4. SubSeq(s, 1, n) \o SubSeq(s, n + 1, Len(s)) = SubSeq(s, 1, Len(s))
  <2>1. /\ Len(s) \in Nat
        /\ 1 \in 1 .. Len(s) + 1 /\ n \in 1 - 1 .. Len(s) /\ Len(s) \in n .. Len(s)
    OBVIOUS
  <2> QED
    BY <2>1, ConcatAdjacentSubSeq
<1>5. SubSeq(s, 1, Len(s)) = s
  BY SubSeqFull
<1> QED
  BY <1>2, <1>3, <1>4, <1>5 DEF SeqPrefix, Suffix

(* The initial state satisfies the invariant. *)
LEMMA InitIndInv == Init => IndInv
<1> SUFFICES ASSUME Init PROVE IndInv
  OBVIOUS
<1>1. TypeOK
  BY FreshType DEF Init, TypeOK, NoCheckpoint, CheckpointFile, TailKind, Op, Fresh, State
<1> QED
  BY <1>1, FreshReplay DEF Init, IndInv, Phases, Deterministic, WriteAhead, NotYetCommitted, Ended,
     AckedDurable, AtMostOnce, NoCheckpoint

(* Every step keeps it: one lemma per action.                              *)

LEMMA StartKeeps == ASSUME IndInv, Start PROVE IndInv'
<1> USE DEF IndInv, Start, file, runtime, saved
<1>1. TypeOK'
  BY FreshType DEF TypeOK, Size
<1>2. Deterministic'
  BY FreshReplay DEF Deterministic
<1>3. Phases' /\ WriteAhead' /\ NotYetCommitted' /\ Ended' /\ AckedDurable' /\ AtMostOnce'
  BY DEF TypeOK, Phases, WriteAhead, NotYetCommitted, Ended, AckedDurable, AtMostOnce
<1> QED
  BY <1>1, <1>2, <1>3

LEMMA AttachEventLogKeeps == ASSUME IndInv, AttachEventLog PROVE IndInv'
<1> USE DEF IndInv, AttachEventLog, file, runtime, saved
<1>1. WriteAhead'
  BY DEF TypeOK, Phases, WriteAhead, Readable
<1>2. TypeOK' /\ Phases' /\ Deterministic' /\ NotYetCommitted' /\ Ended' /\ AckedDurable' /\ AtMostOnce'
  BY DEF TypeOK, Phases, Deterministic, NotYetCommitted, Ended, AckedDurable, AtMostOnce
<1> QED
  BY <1>1, <1>2

LEMMA BeginKeeps == ASSUME NEW o \in Op, IndInv, Begin(o) PROVE IndInv'
<1> USE DEF IndInv, Begin, file, runtime, saved
<1>1. NotYetCommitted'
  <2>1. ASSUME mode = "attached" PROVE log = state.brain
    BY <2>1 DEF WriteAhead
  <2>2. state.brain \in Seq(Op)
    BY DEF TypeOK, State
  <2>3. ASSUME mode = "attached", o \in HasID PROVE \A i \in 1 .. Len(log) : log[i] # o
    BY <2>1, <2>2, <2>3, AcceptsNew DEF Deterministic
  <2> QED
    BY <2>3 DEF TypeOK, NotYetCommitted
<1>2. TypeOK' /\ Phases' /\ Deterministic' /\ WriteAhead' /\ AckedDurable' /\ AtMostOnce'
  BY DEF TypeOK, Phases, Deterministic, WriteAhead, AckedDurable, AtMostOnce
<1>3. Ended'
  BY DEF Ended
<1> QED
  BY <1>1, <1>2, <1>3

LEMMA AppendRefusedKeeps == ASSUME IndInv, AppendRefused PROVE IndInv'
<1> USE DEF IndInv, AppendRefused, Poison, file, runtime, saved
<1> QED
  BY DEF TypeOK, Phases, Deterministic, WriteAhead, NotYetCommitted, Ended, AckedDurable, AtMostOnce

(* The place of the next record is not that of one without its newline, and *)
(* no acknowledged event is there either.                                   *)
LEMMA AppendedNotBare ==
    ASSUME TypeOK, NEW o \in Op
    PROVE  /\ Append(log, o) \in Seq(Op) /\ Len(Append(log, o)) = Len(log) + 1
           /\ Len(Append(log, o)) \notin bare
           /\ \A i \in 1 .. Len(log) : Append(log, o)[i] = log[i]
           /\ Append(log, o)[Len(log) + 1] = o
           /\ Len(log) + 1 \notin 1 .. synced
<1>1. /\ log \in Seq(Op) /\ Len(log) \in Nat /\ bare \subseteq 1 .. Len(log)
      /\ synced \in 0 .. Len(log)
  BY DEF TypeOK
<1>2. /\ Append(log, o) \in Seq(Op) /\ Len(Append(log, o)) = Len(log) + 1
      /\ \A i \in 1 .. Len(log) : Append(log, o)[i] = log[i]
      /\ Append(log, o)[Len(log) + 1] = o
  BY <1>1, AppendProperties
<1> QED
  BY <1>1, <1>2

LEMMA WriteRecordKeeps == ASSUME IndInv, WriteRecord PROVE IndInv'
<1> USE DEF IndInv, WriteRecord, file, runtime, saved
<1>1. TypeOK'
  <2>1. op \in Op
    BY DEF TypeOK
  <2>2. Append(log, op) \in Seq(Op) /\ Len(Append(log, op)) = Len(log) + 1
    BY <2>1, AppendProperties DEF TypeOK
  <2>3. log' \in Seq(Op) /\ tail' \in TailKind /\ Len(log') \in {Len(log), Len(log) + 1}
    BY <2>2 DEF TypeOK, TailKind
  <2>4. /\ bare' = bare /\ synced' = synced
        /\ bare \subseteq 1 .. Len(log) /\ synced \in 0 .. Len(log) /\ Len(log) \in Nat
    BY DEF TypeOK
  <2>5. bare' \subseteq 1 .. Len(log') /\ synced' \in 0 .. Len(log')
    <3> HIDE DEF IndInv, WriteRecord
    <3> QED
      BY <2>3, <2>4
  <2> QED
    BY <2>1, <2>3, <2>5 DEF TypeOK
<1>2. AtMostOnce'
  <2>1. CASE op \in Sensor
    BY <2>1 DEF AtMostOnce
  <2>2. CASE op \notin Sensor
    <3>1. /\ Len(Append(log, op)) = Len(log) + 1
          /\ \A i \in 1 .. Len(log) : Append(log, op)[i] = log[i]
          /\ Append(log, op)[Len(log) + 1] = op
          /\ Len(log) \in Nat
      BY AppendProperties DEF TypeOK
    <3>2. mode = "attached"
      BY DEF TypeOK, Phases
    <3>3. op \in HasID => \A i \in 1 .. Len(log) : log[i] # op
      BY <3>2 DEF NotYetCommitted
    <3>4. \A i, j \in 1 .. Len(log) : log[i] = log[j] /\ log[i] \in HasID => i = j
      BY DEF AtMostOnce
    <3> QED
      BY <2>2, <3>1, <3>3, <3>4 DEF AtMostOnce
  <2> QED
    BY <2>1, <2>2
<1>3. Phases' /\ Deterministic' /\ WriteAhead' /\ NotYetCommitted' /\ AckedDurable'
  BY DEF TypeOK, Phases, Deterministic, WriteAhead, NotYetCommitted, AckedDurable
<1>4. Ended'
  BY AppendedNotBare DEF TypeOK, Ended
<1> QED
  BY <1>1, <1>2, <1>3, <1>4

LEMMA WriteTornKeeps == ASSUME IndInv, WriteTorn PROVE IndInv'
<1> USE DEF IndInv, WriteTorn, Poison, file, runtime, saved
<1>1. TypeOK'
  BY DEF TypeOK, TailKind
<1>2. Phases' /\ Deterministic' /\ WriteAhead' /\ NotYetCommitted' /\ Ended' /\ AckedDurable' /\ AtMostOnce'
  BY DEF TypeOK, Phases, Deterministic, WriteAhead, NotYetCommitted, Ended, AckedDurable, AtMostOnce
<1> QED
  BY <1>1, <1>2

LEMMA WriteUnendedKeeps == ASSUME IndInv, WriteUnended PROVE IndInv'
<1> USE DEF IndInv, WriteUnended, Poison, file, runtime, saved
<1>1. op \in Op /\ mode = "attached" /\ step \in {"append", "commit"}
  BY DEF TypeOK, Phases
<1>2. CASE step = "append" /\ op \in Sensor
  BY <1>2 DEF TypeOK, TailKind, Phases, Deterministic, WriteAhead, NotYetCommitted, Ended,
     AckedDurable, AtMostOnce
<1>3. CASE ~(step = "append" /\ op \in Sensor)
  <2>1. log' = Append(log, op) /\ tail' = "clean" /\ bare' = bare \cup {Len(log) + 1}
    BY <1>3
  <2>2. /\ log' \in Seq(Op) /\ Len(log') = Len(log) + 1
        /\ \A i \in 1 .. Len(log) : log'[i] = log[i]
        /\ log'[Len(log) + 1] = op
        /\ Len(log) + 1 \notin 1 .. synced
        /\ Len(log) \in Nat
    BY <1>1, <2>1, AppendedNotBare DEF TypeOK
  <2>3. TypeOK'
    <3>1. /\ synced' = synced /\ bare \subseteq 1 .. Len(log) /\ synced \in 0 .. Len(log)
          /\ tail' \in TailKind
      BY <2>1 DEF TypeOK, TailKind
    <3>2. bare' \subseteq 1 .. Len(log') /\ synced' \in 0 .. Len(log')
      <4> HIDE DEF IndInv, WriteUnended
      <4>1. \A k \in bare : k \in 1 .. Len(log) + 1
        BY <2>2, <3>1
      <4>2. Len(log) + 1 \in 1 .. Len(log) + 1
        BY <2>2
      <4>3. bare' \subseteq 1 .. Len(log) + 1
        BY <2>1, <4>1, <4>2
      <4> QED
        BY <2>2, <3>1, <4>3
    <3> QED
      BY <2>2, <3>1, <3>2 DEF TypeOK
  <2>4. AtMostOnce'
    <3>1. op \in HasID => \A i \in 1 .. Len(log) : log[i] # op
      BY <1>1 DEF NotYetCommitted, WriteAhead
    <3>2. \A i, j \in 1 .. Len(log) : log[i] = log[j] /\ log[i] \in HasID => i = j
      BY DEF AtMostOnce
    <3> QED
      BY <2>2, <3>1, <3>2 DEF AtMostOnce
  <2>5. AckedDurable'
    <3>1. synced \in 0 .. Len(log) /\ UNCHANGED <<synced, acked>>
      BY DEF TypeOK
    <3>2. \A a \in acked : a[2] \in 1 .. synced /\ log[a[2]] = a[1] /\ a[2] \notin bare
      BY DEF AckedDurable
    <3> QED
      BY <2>1, <2>2, <3>1, <3>2 DEF AckedDurable
  <2>6. Phases' /\ Deterministic' /\ WriteAhead' /\ NotYetCommitted' /\ Ended'
    BY DEF TypeOK, Phases, Deterministic, WriteAhead, NotYetCommitted, Ended
  <2> QED
    BY <2>3, <2>4, <2>5, <2>6
<1> QED
  BY <1>2, <1>3

LEMMA SyncRecordKeeps == ASSUME IndInv, SyncRecord PROVE IndInv'
<1> USE DEF IndInv, SyncRecord, file, runtime, saved
<1>1. TypeOK'
  BY DEF TypeOK, Size
<1>2. Phases' /\ Deterministic' /\ WriteAhead' /\ NotYetCommitted' /\ Ended' /\ AckedDurable' /\ AtMostOnce'
  BY DEF TypeOK, Phases, Deterministic, WriteAhead, NotYetCommitted, Ended, AckedDurable, AtMostOnce
<1> QED
  BY <1>1, <1>2

LEMMA SyncFailsKeeps == ASSUME IndInv, SyncFails PROVE IndInv'
<1> USE DEF IndInv, SyncFails, Poison, file, runtime, saved
<1> QED
  BY DEF TypeOK, Phases, Deterministic, WriteAhead, NotYetCommitted, Ended, AckedDurable, AtMostOnce

LEMMA ApplyKeeps == ASSUME IndInv, Apply PROVE IndInv'
<1> USE DEF IndInv, Apply, file, runtime, saved
<1>1. TypeOK'
  <2>1. op \in Op /\ state' \in State
    BY ReplayOneMore DEF TypeOK, Deterministic
  <2>2. <<op, Len(log)>> \in Op \X Nat
    BY <2>1 DEF TypeOK
  <2> QED
    BY <2>1, <2>2 DEF TypeOK
<1>2. Deterministic'
  <2>1. op \in Op /\ state \in State /\ state = After(Fresh, state.brain)
    BY DEF TypeOK, Deterministic
  <2>2. state' = After(Fresh, state'.brain)
    BY <2>1, ReplayOneMore
  <2> QED
    BY <2>2 DEF Deterministic
<1>3. WriteAhead'
  <2>1. op \in Op /\ state \in State /\ state = After(Fresh, state.brain)
    BY DEF TypeOK, Deterministic
  <2>2. state'.brain = Append(state.brain, op)
    BY <2>1, ReplayOneMore
  <2> QED
    BY <2>2 DEF TypeOK, WriteAhead
<1>4. AckedDurable'
  <2>1. CASE acked' = acked
    BY <2>1 DEF TypeOK, AckedDurable
  <2>2. CASE mode = "attached" /\ op \notin Sensor
    <3>1. log = Append(state.brain, op) /\ synced = Len(log)
      BY <2>2 DEF WriteAhead
    <3>2. Len(log) \in 1 .. synced /\ log[Len(log)] = op /\ Len(log) \notin bare
      BY <2>2, <3>1, AppendProperties DEF TypeOK, State, Ended
    <3> QED
      BY <2>2, <3>2 DEF AckedDurable
  <2> QED
    BY <2>1, <2>2
<1>5. Phases' /\ NotYetCommitted' /\ Ended' /\ AtMostOnce'
  BY DEF TypeOK, Phases, NotYetCommitted, Ended, AtMostOnce
<1> QED
  BY <1>1, <1>2, <1>3, <1>4, <1>5

LEMMA ApplyFailsKeeps == ASSUME IndInv, ApplyFails PROVE IndInv'
<1> USE DEF IndInv, ApplyFails, Poison, file, runtime, saved
<1> QED
  BY DEF TypeOK, Phases, Deterministic, WriteAhead, NotYetCommitted, Ended, AckedDurable, AtMostOnce

LEMMA WriteCommitKeeps == ASSUME IndInv, WriteCommit PROVE IndInv'
<1> USE DEF IndInv, WriteCommit, file, runtime, saved
<1>1. TypeOK'
  <2>1. op \in Op
    BY DEF TypeOK
  <2>2. Append(log, op) \in Seq(Op) /\ Len(Append(log, op)) = Len(log) + 1
    BY <2>1, AppendProperties DEF TypeOK
  <2> QED
    BY <2>1, <2>2 DEF TypeOK, TailKind
<1>2. AtMostOnce'
  <2>1. /\ Len(Append(log, op)) = Len(log) + 1
        /\ \A i \in 1 .. Len(log) : Append(log, op)[i] = log[i]
        /\ Append(log, op)[Len(log) + 1] = op
        /\ Len(log) \in Nat
    BY AppendProperties DEF TypeOK
  <2>2. mode = "attached"
    BY DEF TypeOK, Phases
  <2>3. op \in Sensor /\ op \in HasID
    BY <2>2 DEF WriteAhead, HasID
  <2>4. \A i \in 1 .. Len(log) : log[i] # op
    BY <2>2, <2>3 DEF NotYetCommitted
  <2>5. \A i, j \in 1 .. Len(log) : log[i] = log[j] /\ log[i] \in HasID => i = j
    BY DEF AtMostOnce
  <2> QED
    BY <2>1, <2>4, <2>5 DEF AtMostOnce
<1>3. Phases' /\ Deterministic' /\ WriteAhead' /\ NotYetCommitted' /\ AckedDurable'
  BY DEF TypeOK, Phases, Deterministic, WriteAhead, NotYetCommitted, AckedDurable
<1>4. Ended'
  BY AppendedNotBare DEF TypeOK, Ended
<1> QED
  BY <1>1, <1>2, <1>3, <1>4

LEMMA SyncCommitKeeps == ASSUME IndInv, SyncCommit PROVE IndInv'
<1> USE DEF IndInv, SyncCommit, file, runtime, saved
<1>1. TypeOK'
  <2>1. <<op, Len(log)>> \in Op \X Nat
    BY DEF TypeOK
  <2> QED
    BY <2>1 DEF TypeOK, Size
<1>2. AckedDurable'
  <2>1. mode = "attached"
    BY DEF TypeOK, Phases
  <2>2. log # <<>> /\ log[Len(log)] = op /\ Len(log) \notin bare
    BY <2>1 DEF WriteAhead, Ended
  <2>3. Len(log) \in 1 .. Len(log) /\ synced <= Len(log)
    BY <2>2, EmptySeq DEF TypeOK
  <2> QED
    BY <2>2, <2>3 DEF TypeOK, AckedDurable
<1>3. Phases' /\ Deterministic' /\ WriteAhead' /\ NotYetCommitted' /\ Ended' /\ AtMostOnce'
  BY DEF TypeOK, Phases, Deterministic, WriteAhead, NotYetCommitted, Ended, AtMostOnce
<1> QED
  BY <1>1, <1>2, <1>3

LEMMA PublishCheckpointKeeps == ASSUME IndInv, PublishCheckpoint PROVE IndInv'
<1> USE DEF IndInv, PublishCheckpoint, file, runtime, saved
<1>1. TypeOK'
  <2>1. Snapshot \in CheckpointFile
    BY DEF Snapshot, CheckpointFile, TypeOK
  <2> QED
    BY <2>1 DEF TypeOK
<1>2. Deterministic'
  <2>1. Snapshot.kind = "anchored" => Snapshot.state = After(Fresh, Snapshot.prefix)
    BY DEF Snapshot, Deterministic, WriteAhead
  <2> QED
    BY <2>1 DEF Deterministic
<1>3. Phases' /\ WriteAhead' /\ NotYetCommitted' /\ Ended' /\ AckedDurable' /\ AtMostOnce'
  BY DEF TypeOK, Phases, WriteAhead, NotYetCommitted, Ended, AckedDurable, AtMostOnce
<1> QED
  BY <1>1, <1>2, <1>3

LEMMA SyncDirectoryKeeps == ASSUME IndInv, SyncDirectory PROVE IndInv'
<1> USE DEF IndInv, SyncDirectory, file, runtime, saved
<1> QED
  BY DEF TypeOK, Phases, Deterministic, WriteAhead, NotYetCommitted, Ended, AckedDurable, AtMostOnce

LEMMA SyncDirectoryFailsKeeps == ASSUME IndInv, SyncDirectoryFails PROVE IndInv'
<1> USE DEF IndInv, SyncDirectoryFails, file, runtime, saved
<1> QED
  BY DEF TypeOK, Phases, Deterministic, WriteAhead, NotYetCommitted, Ended, AckedDurable, AtMostOnce

LEMMA RecoverFromCheckpointKeeps == ASSUME IndInv, RecoverFromCheckpoint PROVE IndInv'
<1>1. /\ state' = After(Fresh, log) /\ mode' = "attached" /\ tail = "clean" /\ step = "idle"
      /\ UNCHANGED <<file, step, op, saved, acked>>
  <2> DEFINE n == Len(ckpt.state.brain)
  <2>1. log \in Seq(Op) /\ n \in 0 .. Len(log) /\ ckpt.prefix = SeqPrefix(log, n)
    BY DEF RecoverFromCheckpoint, IndInv, TypeOK, CheckpointFile, State
  <2>2. ckpt.state = After(Fresh, SeqPrefix(log, n))
    BY <2>1 DEF RecoverFromCheckpoint, IndInv, TypeOK, Deterministic
  <2>3. After(ckpt.state, Suffix(log, n)) = After(Fresh, log)
    BY <2>1, <2>2, PrefixProperties, AfterConcat
  <2> QED
    BY <2>3 DEF RecoverFromCheckpoint, Publish, Readable
<1>2. log \in Seq(Op)
  BY DEF IndInv, TypeOK
<1>3. state' \in State /\ state'.brain = log
  BY <1>1, <1>2, FreshType, AfterType, AfterFresh
<1> QED
  BY <1>1, <1>3 DEF IndInv, file, saved, TypeOK, Phases, Deterministic, WriteAhead,
     NotYetCommitted, Ended, AckedDurable, AtMostOnce

LEMMA RecoverFromCommittedJournalKeeps == ASSUME IndInv, RecoverFromCommittedJournal PROVE IndInv'
<1>1. /\ state' = After(Fresh, log) /\ mode' = "attached" /\ tail = "clean" /\ step = "idle"
      /\ UNCHANGED <<file, step, op, saved, acked>>
  BY DEF RecoverFromCommittedJournal, Publish, Readable
<1>2. log \in Seq(Op)
  BY DEF IndInv, TypeOK
<1>3. state' \in State /\ state'.brain = log
  BY <1>1, <1>2, FreshType, AfterType, AfterFresh
<1> QED
  BY <1>1, <1>3 DEF IndInv, file, saved, TypeOK, Phases, Deterministic, WriteAhead,
     NotYetCommitted, Ended, AckedDurable, AtMostOnce

LEMMA RecoverTrailingSensorIntentKeeps == ASSUME IndInv, RecoverTrailingSensorIntent PROVE IndInv'
<1> USE DEF IndInv, RecoverTrailingSensorIntent, file, runtime, saved
<1>1. TypeOK'
  <2>1. Len(log) \in Nat /\ synced' \in 0 .. Len(log) /\ tail' \in TailKind
    BY DEF TypeOK, TailKind
  <2>2. bare \in SUBSET Nat
    BY DEF TypeOK
  <2>3. ackSize' \in [len : Nat, tail : TailKind, bare : SUBSET Nat]
    BY <2>1, <2>2 DEF TypeOK, Size
  <2> QED
    BY <2>1, <2>3 DEF TypeOK
<1>2. Phases' /\ Deterministic' /\ WriteAhead' /\ NotYetCommitted' /\ Ended' /\ AckedDurable' /\ AtMostOnce'
  BY DEF TypeOK, Phases, Deterministic, WriteAhead, NotYetCommitted, Ended, AckedDurable, AtMostOnce
<1> QED
  BY <1>1, <1>2

LEMMA CrashKeeps == ASSUME IndInv, Crash PROVE IndInv'
<1> USE DEF IndInv, Crash, Down, file, runtime, saved
<1>1. TypeOK'
  BY FreshType DEF TypeOK
<1>2. Deterministic'
  BY FreshReplay DEF Deterministic
<1>3. Phases' /\ WriteAhead' /\ NotYetCommitted' /\ Ended' /\ AckedDurable' /\ AtMostOnce'
  BY DEF TypeOK, Phases, WriteAhead, NotYetCommitted, Ended, AckedDurable, AtMostOnce
<1> QED
  BY <1>1, <1>2, <1>3

LEMMA PowerFailureKeeps == ASSUME IndInv, PowerFailure PROVE IndInv'
<1> USE DEF IndInv, PowerFailure, Down, file, runtime, saved
<1>1. TypeOK'
  <2>1. PICK n \in synced .. Len(log) :
             /\ log' = SeqPrefix(log, n) /\ tail' \in Surviving(n) /\ synced' = n
             /\ \/ bare' = bare \cap 1 .. n
                \/ n > synced /\ bare' = (bare \cap 1 .. n) \cup {n}
    OBVIOUS
  <2>2. n \in 0 .. Len(log) /\ log \in Seq(Op) /\ synced \in Nat
    BY DEF TypeOK
  <2>3. log' \in Seq(Op) /\ synced' \in 0 .. Len(log') /\ Len(log') = n
    BY <2>1, <2>2, PrefixProperties
  <2>5. bare' \subseteq 1 .. n
    BY <2>1, <2>2
  <2>4. tail' \in TailKind
    BY <2>1 DEF Surviving, Partial, TailKind
  <2> QED
    BY <2>3, <2>4, <2>5, FreshType DEF TypeOK
<1>2. Deterministic'
  BY FreshReplay DEF TypeOK, Deterministic
<1>3. AckedDurable'
  <2>1. PICK n \in synced .. Len(log) :
             /\ log' = SeqPrefix(log, n) /\ synced' = n
             /\ \/ bare' = bare \cap 1 .. n
                \/ n > synced /\ bare' = (bare \cap 1 .. n) \cup {n}
    OBVIOUS
  <2>2. n \in 0 .. Len(log) /\ log \in Seq(Op) /\ synced \in Nat
    BY DEF TypeOK
  <2>3. \A i \in 1 .. synced : i \in 1 .. n /\ log'[i] = log[i]
    BY <2>1, <2>2, PrefixProperties
  <2>4. \A i \in 1 .. synced : i \notin bare => i \notin bare'
    BY <2>1, <2>2
  <2> QED
    BY <2>1, <2>3, <2>4 DEF AckedDurable
<1>4. AtMostOnce'
  <2>1. PICK n \in synced .. Len(log) : log' = SeqPrefix(log, n)
    OBVIOUS
  <2>2. n \in 0 .. Len(log) /\ log \in Seq(Op)
    BY DEF TypeOK
  <2>3. Len(log') = n /\ \A i \in 1 .. n : i \in 1 .. Len(log) /\ log'[i] = log[i]
    BY <2>1, <2>2, PrefixProperties
  <2> QED
    BY <2>3 DEF AtMostOnce
<1>5. Phases' /\ WriteAhead' /\ NotYetCommitted' /\ Ended'
  BY DEF TypeOK, Phases, WriteAhead, NotYetCommitted, Ended
<1> QED
  BY <1>1, <1>2, <1>3, <1>4, <1>5
-----------------------------------------------------------------------------
(* A step is one of these actions. *)
LEMMA IndInvStep == ASSUME IndInv, [Next]_vars PROVE IndInv'
<1>1. CASE UNCHANGED vars
  BY <1>1 DEF vars, IndInv, TypeOK, Phases, Deterministic, WriteAhead, NotYetCommitted, Ended,
     AckedDurable, AtMostOnce
<1>2. CASE Start
  BY <1>2, StartKeeps
<1>3. CASE AttachEventLog
  BY <1>3, AttachEventLogKeeps
<1>4. ASSUME NEW o \in Op, Begin(o) PROVE IndInv'
  BY <1>4, BeginKeeps
<1>5. CASE AppendRefused
  BY <1>5, AppendRefusedKeeps
<1>6. CASE WriteRecord
  BY <1>6, WriteRecordKeeps
<1>7. CASE WriteTorn
  BY <1>7, WriteTornKeeps
<1>7b. CASE WriteUnended
  BY <1>7b, WriteUnendedKeeps
<1>8. CASE SyncRecord
  BY <1>8, SyncRecordKeeps
<1>9. CASE SyncFails
  BY <1>9, SyncFailsKeeps
<1>10. CASE Apply
  BY <1>10, ApplyKeeps
<1>11. CASE ApplyFails
  BY <1>11, ApplyFailsKeeps
<1>12. CASE WriteCommit
  BY <1>12, WriteCommitKeeps
<1>13. CASE SyncCommit
  BY <1>13, SyncCommitKeeps
<1>14. CASE PublishCheckpoint
  BY <1>14, PublishCheckpointKeeps
<1>15. CASE SyncDirectory
  BY <1>15, SyncDirectoryKeeps
<1>16. CASE SyncDirectoryFails
  BY <1>16, SyncDirectoryFailsKeeps
<1>17. CASE RecoverFromCheckpoint
  BY <1>17, RecoverFromCheckpointKeeps
<1>18. CASE RecoverFromCommittedJournal
  BY <1>18, RecoverFromCommittedJournalKeeps
<1>19. CASE RecoverTrailingSensorIntent
  BY <1>19, RecoverTrailingSensorIntentKeeps
<1>20. CASE Crash
  BY <1>20, CrashKeeps
<1>21. CASE PowerFailure
  BY <1>21, PowerFailureKeeps
<1> QED
  BY <1>1, <1>2, <1>3, <1>4, <1>5, <1>6, <1>7, <1>8, <1>9, <1>10, <1>11,
     <1>12, <1>13, <1>14, <1>15, <1>16, <1>17, <1>18, <1>19, <1>20, <1>21, <1>7b DEF Next

(* Every behaviour of the specification satisfies the inductive invariant. *)
THEOREM Invariance == Spec => []IndInv
BY InitIndInv, IndInvStep, PTL DEF Spec

(* Every variable keeps its type; in particular no more of the journal is  *)
(* counted as synced than is there.                                        *)
THEOREM TypeCorrect == Spec => []TypeOK
<1>1. IndInv => TypeOK
  BY DEF IndInv
<1> QED
  BY Invariance, <1>1, PTL

(* A runtime that can be reached by a caller holds exactly the replay of   *)
(* the committed journal, after any sequence of faults and recoveries      *)
(* (runJournalCommandLocked, ProcessSensorObservation, the rebuilds).      *)
THEOREM ServedCommitted == Spec => []ServedIsCommitted
<1>1. IndInv => ServedIsCommitted
  BY DEF IndInv, Deterministic, WriteAhead, ServedIsCommitted
<1> QED
  BY Invariance, <1>1, PTL

(* What a caller was told is stored stays stored, at its place, whole and  *)
(* with its newline (Append syncs before it returns).                      *)
THEOREM AcknowledgedDurable == Spec => []AckedDurable
<1>1. IndInv => AckedDurable
  BY DEF IndInv
<1> QED
  BY Invariance, <1>1, PTL

(* A step takes the newline of unsynced events only, so of no acknowledged  *)
(* one.                                                                     *)
LEMMA BareStep ==
    ASSUME IndInv, [Next]_vars, NEW j \in bare'
    PROVE  j \in bare \/ j > synced
<1> USE DEF file, runtime, saved
<1>1. /\ log \in Seq(Op) /\ Len(log) \in Nat /\ synced \in 0 .. Len(log)
  BY DEF IndInv, TypeOK
<1>2. CASE WriteUnended
  BY <1>1, <1>2 DEF WriteUnended
<1>3. CASE PowerFailure
  BY <1>1, <1>3 DEF PowerFailure
<1>4. CASE ~WriteUnended /\ ~PowerFailure
  BY <1>4 DEF Next, vars, Start, AttachEventLog, Begin, AppendRefused, WriteRecord, WriteTorn,
     SyncRecord, SyncFails, Apply, ApplyFails, WriteCommit, SyncCommit, PublishCheckpoint,
     SyncDirectory, SyncDirectoryFails, RecoverFromCheckpoint, RecoverFromCommittedJournal,
     Publish, RecoverTrailingSensorIntent, Crash
<1> QED
  BY <1>2, <1>3, <1>4

(* What could be read back when it was acknowledged, or at any time since, *)
(* can be read back for ever: no append, fault, repair or power failure    *)
(* damages a line at or before an acknowledged event (EventLog.Append,     *)
(* RecoverTrailingSensorIntent).                                           *)
THEOREM ReadableForEver == Spec => AcksStayReadable
<1>1. ASSUME IndInv, [Next]_vars, NEW a \in acked, LinesDecode(a[2])
      PROVE  LinesDecode(a[2])'
  <2>1. a[2] \in 1 .. synced /\ a[2] \notin bare /\ synced \in 0 .. Len(log)
    BY <1>1 DEF IndInv, TypeOK, AckedDurable
  <2>2. bare \subseteq 1 .. Len(log) /\ Len(log) \in Nat
    BY <1>1 DEF IndInv, TypeOK
  <2>3. ASSUME NEW j \in bare', j <= a[2] PROVE FALSE
    <3>1. j \in bare
      <4>1. j \in bare \/ j > synced
        BY <1>1, <2>3, BareStep
      <4>2. bare' \subseteq Nat
        BY <1>1, IndInvStep DEF IndInv, TypeOK
      <4> QED
        BY <2>1, <2>2, <2>3, <4>1, <4>2
    <3>2. j = Len(log)
      BY <1>1, <2>3, <3>1 DEF LinesDecode
    <3> QED
      BY <2>1, <2>2, <2>3, <3>1, <3>2
  <2> QED
    BY <2>3 DEF LinesDecode
<1>2. IndInv /\ [Next]_vars
        => [\A a \in acked : LinesDecode(a[2]) => LinesDecode(a[2])']_vars
  BY <1>1
<1> QED
  BY <1>2, Invariance, PTL DEF Spec, AcksStayReadable

(* No event ID and no sensor sample is committed twice (processedEvents).  *)
THEOREM CommittedOnce == Spec => []AtMostOnce
<1>1. IndInv => AtMostOnce
  BY DEF IndInv
<1> QED
  BY Invariance, <1>1, PTL
-----------------------------------------------------------------------------
(* How the journal file moves, and what that means for recovery.           *)

(* A step leaves the committed events alone, commits the operation that    *)
(* holds the lock, or is a power failure.                                  *)
Commits(o) ==
    /\ o \in Op /\ mode = "attached"
    /\ step = "append" \/ (step = "commit" /\ o \in Sensor)
    /\ op = o /\ log' = Append(log, o)

LEMMA LogStep ==
    ASSUME IndInv, [Next]_vars
    PROVE  log' = log \/ (\E o \in Op : Commits(o)) \/ PowerFailure
<1> USE DEF IndInv, file, runtime, saved
<1>1. CASE UNCHANGED vars
  BY <1>1 DEF vars
<1>2. CASE Start \/ AttachEventLog \/ (\E o \in Op : Begin(o)) \/ AppendRefused
  BY <1>2 DEF Start, AttachEventLog, Begin, AppendRefused
<1>3. CASE WriteRecord
  <2>1. op \in Op /\ mode = "attached"
    BY <1>3 DEF WriteRecord, TypeOK, Phases
  <2> QED
    BY <1>3, <2>1 DEF WriteRecord, Commits
<1>4. CASE WriteTorn \/ SyncRecord \/ SyncFails \/ Apply \/ ApplyFails
  BY <1>4 DEF WriteTorn, SyncRecord, SyncFails, Apply, ApplyFails
<1>5. CASE WriteCommit
  <2>1. op \in Op /\ mode = "attached"
    BY <1>5 DEF WriteCommit, TypeOK, Phases
  <2>2. op \in Sensor
    BY <1>5, <2>1 DEF WriteCommit, WriteAhead
  <2> QED
    BY <1>5, <2>1, <2>2 DEF WriteCommit, Commits
<1>5b. CASE WriteUnended
  <2>1. op \in Op /\ mode = "attached"
    BY <1>5b DEF WriteUnended, TypeOK, Phases
  <2>2. step = "commit" => op \in Sensor
    BY <1>5b, <2>1 DEF WriteUnended, WriteAhead
  <2> QED
    BY <1>5b, <2>1, <2>2 DEF WriteUnended, Commits
<1>6. CASE SyncCommit \/ PublishCheckpoint \/ SyncDirectory \/ SyncDirectoryFails
  BY <1>6 DEF SyncCommit, PublishCheckpoint, SyncDirectory, SyncDirectoryFails
<1>7. CASE \/ RecoverFromCheckpoint \/ RecoverFromCommittedJournal
           \/ RecoverTrailingSensorIntent \/ Crash
  BY <1>7 DEF RecoverFromCheckpoint, RecoverFromCommittedJournal, Publish,
     RecoverTrailingSensorIntent, Crash
<1> QED
  BY <1>1, <1>2, <1>3, <1>4, <1>5, <1>5b, <1>6, <1>7 DEF Next

(* Sequences that agree on their first n members have the same prefix.     *)
LEMMA SamePrefix ==
    ASSUME NEW s \in Seq(Op), NEW t \in Seq(Op), NEW n \in Nat,
           n <= Len(s), n <= Len(t), \A i \in 1 .. n : s[i] = t[i]
    PROVE  SubSeq(s, 1, n) = SubSeq(t, 1, n)
<1>1. \A i \in 1 .. n : s[i] \in Op /\ t[i] \in Op
  OBVIOUS
<1>2. /\ SubSeq(s, 1, n) \in Seq(Op) /\ SubSeq(t, 1, n) \in Seq(Op)
      /\ Len(SubSeq(s, 1, n)) = n /\ Len(SubSeq(t, 1, n)) = n
      /\ \A i \in 1 .. n : SubSeq(s, 1, n)[i] = s[i] /\ SubSeq(t, 1, n)[i] = t[i]
  BY <1>1, SubSeqProperties
<1> QED
  BY <1>2, SeqEqual

(* What an appended sequence keeps. *)
LEMMA AppendedPrefix ==
    ASSUME NEW s \in Seq(Op), NEW o \in Op, NEW n \in 0 .. Len(s)
    PROVE  SubSeq(Append(s, o), 1, n) = SubSeq(s, 1, n)
<1>1. /\ Append(s, o) \in Seq(Op) /\ Len(Append(s, o)) = Len(s) + 1
      /\ \A i \in 1 .. Len(s) : Append(s, o)[i] = s[i]
  BY AppendProperties
<1> QED
  BY <1>1, SamePrefix

(* The operation on its way passed its checks on the journal it will       *)
(* follow, wherever its own application stands.                            *)
AcceptedPending ==
    /\ mode = "attached"
    /\ step = "append" \/ (step \in {"sync", "apply", "commit"} /\ op \in Sensor)
    => Accepts(After(Fresh, log), op)

LEMMA AcceptedPendingStep ==
    ASSUME IndInv, AcceptedPending, [Next]_vars
    PROVE  AcceptedPending'
<1> USE DEF IndInv, AcceptedPending, file, runtime, saved
<1>1. CASE UNCHANGED vars
  BY <1>1 DEF vars, Accepts
<1>2. ASSUME NEW o \in Op, Begin(o) PROVE AcceptedPending'
  <2>1. CASE mode = "attached"
    <3>1. log = state.brain /\ state = After(Fresh, state.brain)
      BY <1>2, <2>1 DEF Begin, WriteAhead, Deterministic
    <3>2. Accepts(After(Fresh, log), o)
      BY <1>2, <3>1 DEF Begin
    <3> QED
      BY <1>2, <3>2 DEF Begin, Accepts
  <2> QED
    BY <1>2, <2>1 DEF Begin
<1>3. CASE WriteRecord \/ SyncRecord \/ Apply
  BY <1>3 DEF WriteRecord, SyncRecord, Apply, Accepts
<1>4. CASE \/ Start \/ AttachEventLog \/ AppendRefused \/ WriteTorn \/ WriteUnended
           \/ SyncFails \/ ApplyFails
  BY <1>4 DEF Start, AttachEventLog, AppendRefused, WriteTorn, WriteUnended, SyncFails,
     ApplyFails, Poison
<1>5. CASE WriteCommit \/ SyncCommit \/ PublishCheckpoint \/ SyncDirectory \/ SyncDirectoryFails
  BY <1>5 DEF WriteCommit, SyncCommit, PublishCheckpoint, SyncDirectory, SyncDirectoryFails
<1>6. CASE \/ RecoverFromCheckpoint \/ RecoverFromCommittedJournal
           \/ RecoverTrailingSensorIntent \/ Crash \/ PowerFailure
  BY <1>6 DEF RecoverFromCheckpoint, RecoverFromCommittedJournal, Publish,
     RecoverTrailingSensorIntent, Crash, PowerFailure, Down
<1> QED
  BY <1>1, <1>2, <1>3, <1>4, <1>5, <1>6 DEF Next

LEMMA CommittedReplaysStep ==
    ASSUME IndInv, AcceptedPending, CommittedReplays, [Next]_vars
    PROVE  CommittedReplays'
<1>1. log \in Seq(Op) /\ synced \in 0 .. Len(log) /\ Len(log) \in Nat
  BY DEF IndInv, TypeOK
<1>2. CASE log' = log
  BY <1>2 DEF CommittedReplays, Accepts
<1>3. ASSUME NEW o \in Op, Commits(o) PROVE CommittedReplays'
  <2>1. log' = Append(log, o) /\ Accepts(After(Fresh, log), o)
    BY <1>3 DEF Commits, AcceptedPending
  <2>2. /\ Len(log') = Len(log) + 1 /\ log'[Len(log) + 1] = o
        /\ \A i \in 1 .. Len(log) : log'[i] = log[i]
    BY <1>1, <2>1, AppendProperties
  <2>3. ASSUME NEW i \in 1 .. Len(log')
        PROVE  Accepts(After(Fresh, SubSeq(log', 1, i - 1)), log'[i])
    <3>1. i - 1 \in 0 .. Len(log)
      BY <1>1, <2>2
    <3>2. SubSeq(log', 1, i - 1) = SubSeq(log, 1, i - 1)
      BY <1>1, <2>1, <3>1, AppendedPrefix
    <3>3. CASE i = Len(log) + 1
      <4>1. SubSeq(log, 1, i - 1) = log
        BY <1>1, <3>3, SubSeqFull
      <4> QED
        BY <2>1, <2>2, <3>2, <3>3, <4>1
    <3>4. CASE i # Len(log) + 1
      <4>1. i \in 1 .. Len(log)
        BY <1>1, <2>2, <3>4
      <4> QED
        BY <2>2, <3>2, <4>1 DEF CommittedReplays
    <3> QED
      BY <3>3, <3>4
  <2> QED
    BY <2>3 DEF CommittedReplays, Accepts
<1>4. CASE PowerFailure
  <2>1. PICK n \in synced .. Len(log) : log' = SeqPrefix(log, n)
    BY <1>4 DEF PowerFailure
  <2>2. n \in 0 .. Len(log)
    BY <1>1, <2>1
  <2>3. log' \in Seq(Op) /\ Len(log') = n /\ \A i \in 1 .. n : log'[i] = log[i]
    BY <1>1, <2>1, <2>2, PrefixProperties
  <2>4. ASSUME NEW i \in 1 .. Len(log')
        PROVE  Accepts(After(Fresh, SubSeq(log', 1, i - 1)), log'[i])
    <3>1. i - 1 \in Nat /\ i - 1 <= Len(log') /\ i - 1 <= Len(log) /\ i \in 1 .. Len(log)
      BY <1>1, <2>2, <2>3
    <3>2. \A j \in 1 .. i - 1 : log'[j] = log[j]
      BY <2>2, <2>3, <3>1
    <3>3. SubSeq(log', 1, i - 1) = SubSeq(log, 1, i - 1)
      BY <1>1, <2>3, <3>1, <3>2, SamePrefix
    <3> QED
      BY <2>2, <2>3, <3>1, <3>3 DEF CommittedReplays
  <2> QED
    BY <2>4 DEF CommittedReplays, Accepts
<1> QED
  BY <1>2, <1>3, <1>4, LogStep

(* Every event of the journal passes, at its place in a replay from the    *)
(* foundation, the duplicate and timestamp checks it passed live (Accepts: *)
(* brain.go, sensor_observation.go), whatever faults came in between.      *)
THEOREM HistoryAccepted == Spec => []CommittedReplays
<1>1. Init => AcceptedPending /\ CommittedReplays
  BY DEF Init, AcceptedPending, CommittedReplays
<1>2. IndInv /\ AcceptedPending /\ CommittedReplays /\ [Next]_vars
        => (AcceptedPending /\ CommittedReplays)'
  BY AcceptedPendingStep, CommittedReplaysStep
<1> QED
  BY <1>1, <1>2, Invariance, PTL DEF Spec
-----------------------------------------------------------------------------
(* Without power failures: nothing is removed, every checkpoint stays usable. *)

LEMMA OnlyAppends ==
    ASSUME ~PowerFailures, IndInv, [Next]_vars
    PROVE  /\ Len(log) <= Len(log') /\ log = SeqPrefix(log', Len(log))
           /\ \A n \in 0 .. Len(log) : SeqPrefix(log', n) = SeqPrefix(log, n)
<1>1. log \in Seq(Op) /\ Len(log) \in Nat /\ SubSeq(log, 1, Len(log)) = log
  BY SubSeqFull DEF IndInv, TypeOK
<1>2. CASE log' = log
  BY <1>1, <1>2 DEF SeqPrefix
<1>3. ASSUME NEW o \in Op, log' = Append(log, o)
      PROVE  /\ Len(log) <= Len(log') /\ log = SeqPrefix(log', Len(log))
             /\ \A n \in 0 .. Len(log) : SeqPrefix(log', n) = SeqPrefix(log, n)
  <2>1. \A n \in 0 .. Len(log) : SubSeq(log', 1, n) = SubSeq(log, 1, n)
    BY <1>1, <1>3, AppendedPrefix
  <2>2. Len(log') = Len(log) + 1
    BY <1>1, <1>3, AppendProperties
  <2> QED
    BY <1>1, <2>1, <2>2 DEF SeqPrefix
<1> QED
  BY <1>2, <1>3, LogStep DEF Commits, PowerFailure

(* No step of the program removes or rewrites a committed event: a failed  *)
(* append, a repair, a crash or a recovery least of all (event_log.go,     *)
(* RecoverTrailingSensorIntent).                                           *)
THEOREM NeverRewritten ==
    ASSUME ~PowerFailures
    PROVE  Spec => AppendOnly
<1>1. IndInv /\ [Next]_vars
        => [Len(log) <= Len(log') /\ log = SeqPrefix(log', Len(log))]_vars
  BY OnlyAppends
<1> QED
  BY <1>1, Invariance, PTL DEF Spec, AppendOnly

LEMMA CheckpointAnchoredStep ==
    ASSUME ~PowerFailures, IndInv, CheckpointAnchored, [Next]_vars
    PROVE  CheckpointAnchored'
<1> SUFFICES ASSUME NEW c \in ckptKept', c.kind = "anchored"
             PROVE  /\ c.state = After(Fresh, c.prefix)
                    /\ Len(c.prefix) <= Len(log')
                    /\ c.prefix = SeqPrefix(log', Len(c.prefix))
  BY DEF CheckpointAnchored
<1>1. /\ log \in Seq(Op) /\ Len(log) \in Nat /\ ckptKept \subseteq CheckpointFile
      /\ ckpt \in ckptKept
  BY DEF IndInv, TypeOK
<1>2. CASE c \in ckptKept
  <2>1. /\ c.state = After(Fresh, c.prefix) /\ Len(c.prefix) <= Len(log)
        /\ c.prefix = SeqPrefix(log, Len(c.prefix)) /\ Len(c.prefix) \in Nat
    BY <1>1, <1>2 DEF CheckpointAnchored, CheckpointFile
  <2>2. Len(c.prefix) \in 0 .. Len(log)
    BY <1>1, <2>1
  <2>3. Len(log) <= Len(log') /\ SeqPrefix(log', Len(c.prefix)) = SeqPrefix(log, Len(c.prefix))
    BY <2>2, OnlyAppends
  <2>4. Len(log') \in Nat
    <3>1. IndInv'
      BY IndInvStep
    <3> QED
      BY <3>1 DEF IndInv, TypeOK
  <2> QED
    BY <1>1, <2>1, <2>3, <2>4
<1>3. CASE PublishCheckpoint /\ c = Snapshot
  <2>1. mode = "attached" /\ step = "idle" /\ c.state = state /\ c.prefix = log /\ log' = log
    BY <1>3 DEF PublishCheckpoint, Snapshot, file
  <2>2. c.state = After(Fresh, c.prefix)
    BY <2>1 DEF IndInv, WriteAhead, Deterministic
  <2> QED
    BY <1>1, <2>1, <2>2, SubSeqFull DEF SeqPrefix
<1>4. c \in ckptKept \/ (PublishCheckpoint /\ c = Snapshot)
  <2> USE DEF file, runtime, saved
  <2>1. CASE PublishCheckpoint
    BY <2>1 DEF PublishCheckpoint
  <2>2. CASE SyncDirectory
    BY <1>1, <2>2 DEF SyncDirectory
  <2>3. CASE ~PublishCheckpoint /\ ~SyncDirectory
    BY <2>3 DEF Next, vars, Start, AttachEventLog, Begin, AppendRefused, WriteRecord, WriteTorn,
       WriteUnended, SyncRecord, SyncFails, Apply, ApplyFails, WriteCommit, SyncCommit, SyncDirectoryFails,
       RecoverFromCheckpoint, RecoverFromCommittedJournal, Publish,
       RecoverTrailingSensorIntent, Crash, PowerFailure
  <2> QED
    BY <2>1, <2>2, <2>3
<1> QED
  BY <1>2, <1>3, <1>4

(* Every anchored checkpoint a process crash can leave behind is the       *)
(* replay of a prefix of the journal (checkpointJournalPrefixLocked); with *)
(* power failures it is not, see the run journal_anchor.                   *)
THEOREM CheckpointsAnchored ==
    ASSUME ~PowerFailures
    PROVE  Spec => []CheckpointAnchored
<1>1. Init => CheckpointAnchored
  BY DEF Init, CheckpointAnchored, NoCheckpoint
<1>2. IndInv /\ CheckpointAnchored /\ [Next]_vars => CheckpointAnchored'
  BY CheckpointAnchoredStep
<1> QED
  BY <1>1, <1>2, Invariance, PTL DEF Spec

-----------------------------------------------------------------------------
(* The refinement of CommittedHistory: every step of the runtime, its      *)
(* journal, its checkpoint and its recoveries is a step of the one         *)
(* committed history, or changes nothing of it.                            *)

(* What History!served stands for. *)
Served == IF mode = "attached" /\ step = "idle" THEN {state.brain} ELSE {}

(* The steps that change nothing the history or a caller can see: the ones *)
(* inside a critical section, of a runtime without a journal, or of a      *)
(* poisoned one.                                                           *)
LEMMA HiddenStep ==
    ASSUME UNCHANGED <<log, acked>>, Served' = Served
    PROVE  UNCHANGED History!cvars
  BY DEF History!cvars, Served

(* Lock taken, lost to a crash, or the runtime poisoned. *)
LEMMA WithdrawStep ==
    ASSUME UNCHANGED <<log, acked>>, Served' = {}
    PROVE  History!Withdraw
  BY DEF History!Withdraw, Served

(* Lock released, or a rebuilt runtime published. *)
LEMMA ServeStep ==
    ASSUME UNCHANGED <<log, acked>>, Served' = {log'}
    PROVE  History!Serve
  BY DEF History!Serve, Served

(* A record completed in the journal: WriteRecord of a command, WriteCommit *)
(* of a sensor sample.                                                      *)
LEMMA CommitStep ==
    ASSUME IndInv, op \in Op, op \in HasID => \A i \in 1 .. Len(log) : log[i] # op,
           Served = {}, Served' = {}, log' = Append(log, op), acked' = acked
    PROVE  History!Commit(op)
  BY DEF History!Commit, Served

(* The call returns success: Apply of a command, SyncCommit of a sample. *)
LEMMA AcknowledgeStep ==
    ASSUME IndInv, log # <<>>, log[Len(log)] = op, UNCHANGED log,
           acked' = acked \cup {<<op, Len(log)>>},
           Served = {}, Served' = {log}
    PROVE  History!Acknowledge
  BY DEF History!Acknowledge, Served

LEMMA StepRefines == IndInv /\ IndInv' /\ [Next]_vars => [History!CNext]_(History!cvars)
<1> SUFFICES ASSUME IndInv, IndInv', [Next]_vars
             PROVE  History!CNext \/ UNCHANGED History!cvars
  OBVIOUS
<1> USE DEF file, runtime, saved
<1>1. CASE UNCHANGED vars
  BY <1>1, HiddenStep DEF vars, Served
<1>2. CASE Start
  BY <1>2, HiddenStep DEF Start, Served
<1>3. CASE AttachEventLog
  <2>1. Served' = {log'} /\ UNCHANGED <<log, acked>>
    BY <1>3 DEF AttachEventLog, Served
  <2> QED
    BY <2>1, ServeStep DEF History!CNext
<1>4. ASSUME NEW o \in Op, Begin(o) PROVE History!CNext \/ UNCHANGED History!cvars
  <2>1. UNCHANGED <<log, acked>> /\ (Served' = Served \/ Served' = {})
    BY <1>4 DEF Begin, Served
  <2> QED
    BY <2>1, HiddenStep, WithdrawStep DEF History!CNext
<1>5. CASE AppendRefused
  BY <1>5, HiddenStep DEF AppendRefused, Served, Poison
<1>6. CASE WriteRecord
  <2>1. op \in Op /\ mode = "attached" /\ Served = {} /\ Served' = {}
    BY <1>6 DEF WriteRecord, IndInv, TypeOK, Phases, Served
  <2>2. CASE op \in Sensor
    BY <1>6, <2>1, <2>2, HiddenStep DEF WriteRecord
  <2>3. CASE op \notin Sensor
    <3>1. log' = Append(log, op) /\ acked' = acked
      BY <1>6, <2>3 DEF WriteRecord
    <3>2. op \in HasID => \A i \in 1 .. Len(log) : log[i] # op
      BY <1>6, <2>1 DEF WriteRecord, IndInv, NotYetCommitted
    <3> QED
      BY <2>1, <3>1, <3>2, CommitStep DEF History!CNext
  <2> QED
    BY <2>2, <2>3
<1>7. CASE WriteTorn
  BY <1>7, HiddenStep DEF WriteTorn, Served, Poison
<1>7b. CASE WriteUnended
  <2>1. op \in Op /\ mode = "attached" /\ Served = {} /\ Served' = {} /\ acked' = acked
    BY <1>7b DEF WriteUnended, Poison, IndInv, TypeOK, Phases, Served
  <2>2. CASE step = "append" /\ op \in Sensor
    BY <1>7b, <2>1, <2>2, HiddenStep DEF WriteUnended
  <2>3. CASE ~(step = "append" /\ op \in Sensor)
    <3>1. log' = Append(log, op)
      BY <1>7b, <2>3 DEF WriteUnended
    <3>2. op \in HasID => \A i \in 1 .. Len(log) : log[i] # op
      BY <1>7b, <2>1 DEF WriteUnended, IndInv, NotYetCommitted, WriteAhead
    <3> QED
      BY <2>1, <3>1, <3>2, CommitStep DEF History!CNext
  <2> QED
    BY <2>2, <2>3
<1>8. CASE SyncRecord
  BY <1>8, HiddenStep DEF SyncRecord, Served
<1>9. CASE SyncFails
  BY <1>9, HiddenStep DEF SyncFails, Served, Poison
<1>10. CASE Apply
  <2>1. UNCHANGED <<log, mode>> /\ Served = {}
    BY <1>10 DEF Apply, Served
  <2>2. CASE mode = "attached" /\ op \notin Sensor
    <3>1. log = Append(state.brain, op) /\ op \in Op /\ state.brain \in Seq(Op)
      BY <1>10, <2>2 DEF Apply, IndInv, WriteAhead, TypeOK, State
    <3>2. log # <<>> /\ log[Len(log)] = op
      BY <3>1, AppendProperties
    <3>3. Served' = {log}
      <4>1. step' = "idle" /\ mode' = "attached"
        BY <1>10, <2>2 DEF Apply
      <4>2. log' = state'.brain
        BY <4>1 DEF IndInv, WriteAhead
      <4> QED
        BY <2>1, <4>1, <4>2 DEF Served
    <3>4. acked' = acked \cup {<<op, Len(log)>>}
      BY <1>10, <2>2 DEF Apply
    <3> QED
      BY <2>1, <3>2, <3>3, <3>4, AcknowledgeStep DEF History!CNext
  <2>3. CASE ~(mode = "attached" /\ op \notin Sensor)
    <3>1. acked' = acked /\ Served' = {}
      BY <1>10, <2>3 DEF Apply, Served
    <3> QED
      BY <2>1, <3>1, HiddenStep
  <2> QED
    BY <2>2, <2>3
<1>11. CASE ApplyFails
  BY <1>11, HiddenStep DEF ApplyFails, Served, Poison
<1>12. CASE WriteCommit
  <2>1. op \in Op /\ mode = "attached" /\ Served = {} /\ Served' = {}
    BY <1>12 DEF WriteCommit, IndInv, TypeOK, Phases, Served
  <2>2. \A i \in 1 .. Len(log) : log[i] # op
    BY <1>12, <2>1 DEF WriteCommit, IndInv, WriteAhead, NotYetCommitted, HasID
  <2>3. log' = Append(log, op) /\ acked' = acked
    BY <1>12 DEF WriteCommit
  <2> QED
    BY <2>1, <2>2, <2>3, CommitStep DEF History!CNext
<1>13. CASE SyncCommit
  <2>1. mode = "attached" /\ mode' = "attached" /\ Served = {} /\ UNCHANGED <<log, state>>
    BY <1>13 DEF SyncCommit, IndInv, TypeOK, Phases, Served
  <2>2. log # <<>> /\ log[Len(log)] = op /\ log = state.brain
    BY <1>13, <2>1 DEF SyncCommit, IndInv, WriteAhead
  <2>3. Served' = {log} /\ acked' = acked \cup {<<op, Len(log)>>}
    BY <1>13, <2>1, <2>2 DEF SyncCommit, Served
  <2> QED
    BY <2>1, <2>2, <2>3, AcknowledgeStep DEF History!CNext
<1>14. CASE PublishCheckpoint
  <2>1. UNCHANGED <<log, acked>> /\ Served' = {}
    BY <1>14 DEF PublishCheckpoint, Served
  <2> QED
    BY <2>1, WithdrawStep DEF History!CNext
<1>15. CASE SyncDirectory
  <2>1. UNCHANGED <<log, acked, mode, state>> /\ step' = "idle" /\ Served = {}
    BY <1>15 DEF SyncDirectory, Served
  <2>2. CASE mode = "attached"
    <3>1. Served' = {log'}
      BY <2>1, <2>2 DEF IndInv, WriteAhead, Served
    <3> QED
      BY <2>1, <3>1, ServeStep DEF History!CNext
  <2>3. CASE mode # "attached"
    BY <2>1, <2>3, HiddenStep DEF Served
  <2> QED
    BY <2>2, <2>3
<1>16. CASE SyncDirectoryFails
  <2>1. UNCHANGED <<log, acked, mode, state>> /\ step' = "idle" /\ Served = {}
    BY <1>16 DEF SyncDirectoryFails, Served
  <2>2. CASE mode = "attached"
    <3>1. Served' = {log'}
      BY <2>1, <2>2 DEF IndInv, WriteAhead, Served
    <3> QED
      BY <2>1, <3>1, ServeStep DEF History!CNext
  <2>3. CASE mode # "attached"
    BY <2>1, <2>3, HiddenStep DEF Served
  <2> QED
    BY <2>2, <2>3
<1>17. CASE RecoverFromCheckpoint
  <2>1. UNCHANGED <<log, acked>> /\ mode' = "attached" /\ step' = "idle"
    BY <1>17 DEF RecoverFromCheckpoint, Publish
  <2>2. Served' = {log'}
    BY <2>1 DEF IndInv, WriteAhead, Served
  <2> QED
    BY <2>1, <2>2, ServeStep DEF History!CNext
<1>18. CASE RecoverFromCommittedJournal
  <2>1. UNCHANGED <<log, acked>> /\ mode' = "attached" /\ step' = "idle"
    BY <1>18 DEF RecoverFromCommittedJournal, Publish
  <2>2. Served' = {log'}
    BY <2>1 DEF IndInv, WriteAhead, Served
  <2> QED
    BY <2>1, <2>2, ServeStep DEF History!CNext
<1>19. CASE RecoverTrailingSensorIntent
  BY <1>19, HiddenStep DEF RecoverTrailingSensorIntent, Served
<1>20. CASE Crash
  <2>1. UNCHANGED <<log, acked>> /\ Served' = {}
    BY <1>20 DEF Crash, Down, Served
  <2> QED
    BY <2>1, WithdrawStep DEF History!CNext
<1>21. CASE PowerFailure
  <2>1. PICK n \in synced .. Len(log) : log' = SeqPrefix(log, n)
    BY <1>21 DEF PowerFailure
  <2>2. n \in 0 .. Len(log) /\ synced <= n
    BY <2>1 DEF IndInv, TypeOK
  <2>3. \A a \in acked : a[2] <= n
    BY <2>2 DEF IndInv, TypeOK, AckedDurable
  <2>4. acked' = acked /\ Served' = {}
    BY <1>21 DEF PowerFailure, Down, Served
  <2>5. History!Lose
    BY <2>1, <2>2, <2>3, <2>4 DEF History!Lose, SeqPrefix, Served
  <2> QED
    BY <2>5 DEF History!CNext
<1> QED
  BY <1>1, <1>2, <1>3, <1>4, <1>5, <1>6, <1>7, <1>8, <1>9, <1>10, <1>11,
     <1>12, <1>13, <1>14, <1>15, <1>16, <1>17, <1>18, <1>19, <1>20, <1>21, <1>7b DEF Next

(* The journal, the checkpoint file, the recoveries and every fault the    *)
(* model has together behave as one committed history that callers see     *)
(* whole or not at all (ImplementsHistory).                                *)
THEOREM Refinement == Spec => ImplementsHistory
<1>1. Init => History!CInit
  BY DEF Init, History!CInit
<1>2. IndInv /\ IndInv' /\ [Next]_vars => [History!CNext]_(History!cvars)
  BY StepRefines
<1> QED
  BY <1>1, <1>2, Invariance, PTL DEF Spec, ImplementsHistory, History!CSpec
=============================================================================
