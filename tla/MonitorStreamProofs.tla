------------------------- MODULE MonitorStreamProofs -------------------------
(***************************************************************************)
(* What MonitorStream keeps for any number of streams, any buffer capacity *)
(* and any bounds: no event is lost between history and live delivery, no  *)
(* subscriber outlives its connection, no frame of a replaced runtime is   *)
(* written.  That lock holders finish and stale streams end is liveness    *)
(* and stays with TLC.                                                     *)
(***************************************************************************)
EXTENDS MonitorStream, SequenceTheorems, TLAPS
-----------------------------------------------------------------------------
(* Sequences of revisions.                                                 *)

LEMMA AppendItems ==
    ASSUME NEW S, NEW q \in Seq(S), NEW x \in S
    PROVE  Items(Append(q, x)) = Items(q) \cup {x}
<1>1. /\ Append(q, x) \in Seq(S) /\ Len(Append(q, x)) = Len(q) + 1 /\ Len(q) \in Nat
      /\ \A i \in 1 .. Len(q) : Append(q, x)[i] = q[i]
      /\ Append(q, x)[Len(q) + 1] = x
  BY AppendProperties
<1>2. Items(Append(q, x)) \subseteq Items(q) \cup {x}
  BY <1>1 DEF Items
<1>3. Items(q) \cup {x} \subseteq Items(Append(q, x))
  BY <1>1 DEF Items
<1> QED
  BY <1>2, <1>3

LEMMA HeadTailItems ==
    ASSUME NEW S, NEW q \in Seq(S), q # <<>>
    PROVE  /\ Head(q) = q[1] /\ Head(q) \in S
           /\ Tail(q) \in Seq(S) /\ Len(Tail(q)) = Len(q) - 1 /\ Len(q) \in Nat \ {0}
           /\ \A i \in 1 .. Len(Tail(q)) : Tail(q)[i] = q[i + 1]
           /\ Items(q) = {Head(q)} \cup Items(Tail(q))
<1>1. /\ Head(q) = q[1] /\ Head(q) \in S
      /\ Tail(q) \in Seq(S) /\ Len(Tail(q)) = Len(q) - 1 /\ Len(q) \in Nat \ {0}
      /\ \A i \in 1 .. Len(Tail(q)) : Tail(q)[i] = q[i + 1]
  BY EmptySeq, HeadTailProperties
<1>2. Items(q) \subseteq {Head(q)} \cup Items(Tail(q))
  <2>1. ASSUME NEW i \in 1 .. Len(q), i # 1 PROVE q[i] \in Items(Tail(q))
    <3>1. i - 1 \in 1 .. Len(Tail(q)) /\ Tail(q)[i - 1] = q[(i - 1) + 1]
      BY <1>1, <2>1
    <3> QED
      BY <3>1 DEF Items
  <2> QED
    BY <1>1, <2>1 DEF Items
<1>3. {Head(q)} \cup Items(Tail(q)) \subseteq Items(q)
  BY <1>1 DEF Items
<1> QED
  BY <1>1, <1>2, <1>3

LEMMA LastItem ==
    ASSUME NEW S, NEW q \in Seq(S), q # <<>>
    PROVE  /\ Len(q) > 1 => Tail(q) # <<>> /\ Len(q) # 1
           /\ ~(Len(q) > 1) => Tail(q) = <<>>
<1>1. Tail(q) \in Seq(S) /\ Len(Tail(q)) = Len(q) - 1 /\ Len(q) \in Nat \ {0}
  BY HeadTailItems
<1>2. Len(<<>>) = 0 /\ (Tail(q) # <<>> => Len(Tail(q)) \in Nat \ {0})
  BY <1>1, EmptySeq
<1>3. PICK n \in Nat \ {0} : n = Len(q) /\ Len(Tail(q)) = n - 1
  BY <1>1
<1>4. (n > 1 => n - 1 # 0 /\ n # 1) /\ (~(n > 1) => n - 1 \notin Nat \ {0})
  OBVIOUS
<1>5. n > 1 => Len(Tail(q)) # 0 /\ Len(q) # 1
  BY <1>3, <1>4, Zenon
<1>6. ~(n > 1) => Tail(q) = <<>>
  BY <1>2, <1>3, <1>4, Zenon
<1>7. n > 1 => Tail(q) # <<>>
  BY <1>2, <1>5, Zenon
<1> QED
  BY <1>3, <1>5, <1>6, <1>7, Zenon

LEMMA FunctionSeq ==
    ASSUME NEW S, NEW n \in Nat, NEW f \in [1 .. n -> S]
    PROVE  f \in Seq(S) /\ Len(f) = n
OBVIOUS
-----------------------------------------------------------------------------
(* The inductive invariant.                                                *)

(* From the commit to the delivery of its event a mutation has the lock of *)
(* a usable runtime to itself, so that every subscriber is a recipient.    *)
BuildExclusive ==
    building # NoBuild =>
        /\ writer = "mutation" /\ readers = {} /\ Usable
        /\ building.rev = journal /\ journal > 0 /\ subs \subseteq building.to

(* A frame on its way belongs to the runtime that is published.            *)
WritingCurrent == \A s \in writing : pc[s] \in Sending /\ Current(s)

(* What is left to write at each point of a session.                       *)
Frames == \A s \in Stream :
    /\ pc[s] \in Sending => todo[s] # <<>>
    /\ pc[s] = "live" => todo[s] = <<>>
    /\ pc[s] = "relay" => Len(todo[s]) = 1

(* Only a live event moves the cursor; nothing is buffered before the      *)
(* subscription.                                                           *)
Cursor == \A s \in Stream :
    /\ from[s] <= after[s] /\ after[s] <= journal
    /\ pc[s] \in {"subscribe", "greet", "history", "replay"} => after[s] = from[s]
    /\ pc[s] \in {"off", "subscribe"} => queue[s] = <<>>

(* The buffer holds rising revisions behind the cursor and behind the      *)
(* event that is being relayed: taking one never skips an unwritten one.   *)
QueueAhead == \A s \in Stream :
    /\ \A i \in 1 .. Len(queue[s]) : after[s] < queue[s][i] /\ queue[s][i] <= journal
    /\ building # NoBuild =>
         /\ \A i \in 1 .. Len(queue[s]) : queue[s][i] < journal
         /\ s \in subs => after[s] < journal /\ (pc[s] = "relay" => todo[s][1] < journal)
    /\ \A i, j \in 1 .. Len(queue[s]) : i < j => queue[s][i] < queue[s][j]
    /\ pc[s] = "relay" =>
         /\ after[s] < todo[s][1] /\ todo[s][1] <= journal
         /\ \A i \in 1 .. Len(queue[s]) : todo[s][1] < queue[s][i]

(* NoLostEvent from the moment the history is read. *)
Covered == \A s \in subs : pc[s] \in {"replay", "live", "relay"} =>
    \A r \in published : r > from[s] => r \in sent[s] \cup Items(queue[s]) \cup Items(todo[s])

StreamInd ==
    /\ TypeOK /\ BuildExclusive /\ WritingCurrent /\ Frames /\ Cursor /\ QueueAhead /\ Covered
    /\ NoLeakedSubscriber

LEMMA StreamInit == Init => StreamInd
<1> SUFFICES ASSUME Init PROVE StreamInd
  OBVIOUS
<1> USE DEF Init
<1>1. TypeOK
  <2>1. \A S : <<>> \in Seq(S)
    BY EmptySeq
  <2>2. queue \in [Stream -> Seq(1 .. MaxRev)] /\ todo \in [Stream -> Seq(0 .. MaxRev)]
    BY <2>1
  <2>3. \A s \in Stream : Len(queue[s]) <= Capacity
    BY CapacityAssumption
  <2>4. building \in [rev : 0 .. MaxRev, to : SUBSET Stream]
    BY BoundAssumption DEF NoBuild
  <2>5. /\ pc \in [Stream -> {"off", "live", "end"} \cup Leased]
        /\ bound \in [Stream -> 0 .. MaxEpoch] /\ sent \in [Stream -> SUBSET (1 .. MaxRev)]
        /\ after \in [Stream -> 0 .. MaxRev] /\ from \in [Stream -> 0 .. MaxRev]
    BY BoundAssumption
  <2>6. /\ epoch \in 1 .. MaxEpoch /\ journal \in 0 .. MaxRev
        /\ published \subseteq 1 .. journal /\ writing \subseteq readers
    BY BoundAssumption
  <2> HIDE DEF Init
  <2>7. /\ writer = "none" /\ readers = {} /\ waiting = {} /\ subs = {}
        /\ closed = FALSE /\ poisoned = FALSE
    BY DEF Init
  <2> QED
    BY <2>2, <2>3, <2>4, <2>5, <2>6, <2>7 DEF TypeOK
<1>2. BuildExclusive /\ WritingCurrent /\ Frames /\ Cursor /\ QueueAhead
  BY DEF BuildExclusive, Usable, WritingCurrent, Frames, Cursor, QueueAhead, Sending
<1>3. Covered /\ NoLeakedSubscriber
  BY DEF Covered, NoLeakedSubscriber
<1> QED
  BY <1>1, <1>2, <1>3 DEF StreamInd
-----------------------------------------------------------------------------
(* The lock.                                                               *)

LEMMA LockKeeps == ASSUME StreamInd, NEW w \in {"mutation", "owner"}, Lock(w) PROVE StreamInd'
<1> USE DEF StreamInd, Lock, brain, hub, session
<1>1. TypeOK' /\ BuildExclusive'
  BY DEF TypeOK, BuildExclusive, Usable
<1>2. WritingCurrent' /\ Frames' /\ Cursor' /\ QueueAhead' /\ Covered' /\ NoLeakedSubscriber'
  BY DEF WritingCurrent, Current, Usable, Frames, Cursor, QueueAhead, Covered, NoLeakedSubscriber
<1> QED
  BY <1>1, <1>2

LEMMA RLockKeeps == ASSUME StreamInd, NEW s \in Stream, RLock(s) PROVE StreamInd'
<1> USE DEF StreamInd, RLock, brain, hub, session
<1>1. TypeOK' /\ BuildExclusive'
  BY DEF TypeOK, BuildExclusive, Usable
<1>2. WritingCurrent' /\ Frames' /\ Cursor' /\ QueueAhead' /\ Covered' /\ NoLeakedSubscriber'
  BY DEF WritingCurrent, Current, Usable, Frames, Cursor, QueueAhead, Covered, NoLeakedSubscriber
<1> QED
  BY <1>1, <1>2

(* Giving the lock back without having changed anything. *)
LEMMA UnlockKeeps ==
    ASSUME StreamInd, readers = {}, building = NoBuild, writer # "none", Unlock,
           UNCHANGED <<brain, hub, session>>
    PROVE  StreamInd'
<1> USE DEF StreamInd, Unlock, brain, hub, session
<1>1. TypeOK' /\ BuildExclusive'
  BY DEF TypeOK, BuildExclusive, Usable
<1>2. WritingCurrent' /\ Frames' /\ Cursor' /\ QueueAhead' /\ Covered' /\ NoLeakedSubscriber'
  BY DEF WritingCurrent, Current, Usable, Frames, Cursor, QueueAhead, Covered, NoLeakedSubscriber
<1> QED
  BY <1>1, <1>2

(* What the holder of the lock may do to brain and hub while no stream is  *)
(* writing: close subscriptions, poison, commit, replace the runtime.      *)
LEMMA RetireKeeps ==
    ASSUME StreamInd, readers = {}, building = NoBuild, writer # "none", Unlock,
           subs' = {}, closed' \in BOOLEAN, poisoned' \in BOOLEAN,
           epoch' \in 1 .. MaxEpoch, journal' \in {journal, journal + 1}, journal' <= MaxRev,
           UNCHANGED <<queue, building, published, session>>
    PROVE  StreamInd'
<1> USE DEF StreamInd, Unlock, session
<1>1. journal \in Nat /\ journal' \in 0 .. MaxRev /\ journal <= journal'
  BY BoundAssumption DEF TypeOK
<1>2. TypeOK' /\ BuildExclusive'
  BY <1>1, BoundAssumption DEF TypeOK, BuildExclusive, Usable
<1>3. WritingCurrent'
  BY DEF WritingCurrent, TypeOK
<1>4. Frames' /\ Covered' /\ NoLeakedSubscriber'
  BY DEF Frames, Covered, NoLeakedSubscriber
<1>5. Cursor'
  BY <1>1, BoundAssumption DEF Cursor, TypeOK
<1>6. QueueAhead'
  <2> SUFFICES ASSUME NEW s \in Stream
               PROVE  /\ \A i \in 1 .. Len(queue[s]) : queue[s][i] <= journal'
                      /\ pc[s] = "relay" => todo[s][1] <= journal'
    BY DEF QueueAhead
  <2>1. queue[s] \in Seq(1 .. MaxRev) /\ todo[s] \in Seq(0 .. MaxRev)
    BY DEF TypeOK
  <2>2. \A i \in 1 .. Len(queue[s]) : queue[s][i] \in Nat /\ queue[s][i] <= journal
    BY <2>1, BoundAssumption, SMTT(30) DEF QueueAhead
  <2>3. pc[s] = "relay" => todo[s][1] \in Nat /\ todo[s][1] <= journal
    BY <2>1, BoundAssumption DEF QueueAhead, Frames
  <2> QED
    BY <1>1, <2>2, <2>3
<1> QED
  BY <1>2, <1>3, <1>4, <1>5, <1>6
-----------------------------------------------------------------------------
(* What a mutation does while it has the lock to itself.                   *)

LEMMA CommitKeeps == ASSUME StreamInd, Commit PROVE StreamInd'
<1> USE DEF StreamInd, Commit, lock, session, Exclusive, Unlock, NoBuild
<1>1. /\ journal \in Nat /\ journal' = journal + 1 /\ journal' \in 0 .. MaxRev
      /\ journal' > 0 /\ writing = {}
  BY BoundAssumption DEF TypeOK
<1>2. building' # NoBuild => building' = [rev |-> journal + 1, to |-> subs] /\ UNCHANGED lock
  OBVIOUS
<1>3. TypeOK'
  <2>1. published' \subseteq 1 .. journal'
    BY <1>1 DEF TypeOK
  <2>2. building' \in [rev : 0 .. MaxRev, to : SUBSET Stream]
    BY <1>1 DEF TypeOK
  <2> QED
    BY <1>1, <2>1, <2>2 DEF TypeOK
<1>4. BuildExclusive'
  BY <1>1, <1>2 DEF BuildExclusive, Usable
<1>5. WritingCurrent' /\ Frames' /\ Covered' /\ NoLeakedSubscriber'
  BY <1>1 DEF WritingCurrent, Frames, Covered, NoLeakedSubscriber
<1>6. Cursor'
  BY <1>1, BoundAssumption DEF Cursor, TypeOK
<1>7. QueueAhead'
  <2> SUFFICES ASSUME NEW s \in Stream
               PROVE  /\ \A i \in 1 .. Len(queue[s]) : queue[s][i] < journal' /\ queue[s][i] <= journal'
                      /\ after[s] < journal'
                      /\ pc[s] = "relay" => todo[s][1] < journal' /\ todo[s][1] <= journal'
    BY DEF QueueAhead
  <2>1. queue[s] \in Seq(1 .. MaxRev) /\ todo[s] \in Seq(0 .. MaxRev) /\ after[s] \in Nat
    BY BoundAssumption DEF TypeOK
  <2>2. \A i \in 1 .. Len(queue[s]) : queue[s][i] \in Nat /\ queue[s][i] <= journal
    BY <2>1, BoundAssumption, SMTT(30) DEF QueueAhead
  <2>3. pc[s] = "relay" => todo[s][1] \in Nat /\ todo[s][1] <= journal
    BY <2>1, BoundAssumption DEF QueueAhead, Frames
  <2>4. after[s] <= journal
    BY DEF Cursor
  <2> QED
    BY <1>1, <2>1, <2>2, <2>3, <2>4
<1> QED
  BY <1>3, <1>4, <1>5, <1>6, <1>7

LEMMA DeliverKeeps == ASSUME StreamInd, Deliver PROVE StreamInd'
<1> USE DEF StreamInd, brain, session, Unlock
<1>0. PICK encoded \in BOOLEAN :
        LET live  == building.to \cap subs
            ready == IF encoded THEN {s \in live : Len(queue[s]) < Capacity} ELSE {}
        IN  /\ queue' = [s \in Stream |-> IF s \in ready THEN Append(queue[s], building.rev)
                                                           ELSE queue[s]]
            /\ subs' = subs \ (live \ ready)
  BY DEF Deliver
<1> DEFINE ready == IF encoded THEN {s \in building.to \cap subs : Len(queue[s]) < Capacity} ELSE {}
<1>1. /\ building # NoBuild /\ readers = {} /\ writing = {} /\ building.rev = journal
      /\ journal \in 1 .. MaxRev /\ building' = NoBuild /\ published' = published \cup {journal}
      /\ UNCHANGED <<brain, session>> /\ Unlock
  BY BoundAssumption DEF Deliver, BuildExclusive, Usable, TypeOK
<1>2. \A s \in ready : Len(queue[s]) < Capacity /\ s \in subs
  OBVIOUS
<1>3. subs' \subseteq subs /\ subs' \subseteq ready
  BY <1>0, <1>1 DEF BuildExclusive, Usable
<1>4. queue' = [s \in Stream |-> IF s \in ready THEN Append(queue[s], journal) ELSE queue[s]]
  BY <1>0, <1>1
<1> HIDE DEF ready
<1>5. \A s \in Stream : queue[s] \in Seq(1 .. MaxRev) /\ Len(queue[s]) <= Capacity /\ Len(queue[s]) \in Nat
  BY DEF TypeOK
<1>6. \A s \in Stream : s \in ready =>
        /\ queue'[s] \in Seq(1 .. MaxRev) /\ Len(queue'[s]) = Len(queue[s]) + 1
        /\ \A i \in 1 .. Len(queue[s]) : queue'[s][i] = queue[s][i]
        /\ queue'[s][Len(queue[s]) + 1] = journal
        /\ Items(queue'[s]) = Items(queue[s]) \cup {journal}
  <2> SUFFICES ASSUME NEW s \in Stream, s \in ready
               PROVE  /\ queue'[s] \in Seq(1 .. MaxRev) /\ Len(queue'[s]) = Len(queue[s]) + 1
                      /\ \A i \in 1 .. Len(queue[s]) : queue'[s][i] = queue[s][i]
                      /\ queue'[s][Len(queue[s]) + 1] = journal
                      /\ Items(queue'[s]) = Items(queue[s]) \cup {journal}
    OBVIOUS
  <2>1. queue'[s] = Append(queue[s], journal) /\ queue[s] \in Seq(1 .. MaxRev)
    BY <1>4, <1>5
  <2>2. Items(queue'[s]) = Items(queue[s]) \cup {journal}
    <3>1. journal \in 1 .. MaxRev
      BY <1>1
    <3>2. \A q \in Seq(1 .. MaxRev), x \in 1 .. MaxRev : Items(Append(q, x)) = Items(q) \cup {x}
      BY AppendItems
    <3>3. Items(Append(queue[s], journal)) = Items(queue[s]) \cup {journal}
      BY <2>1, <3>1, <3>2
    <3> QED
      BY <2>1, <3>3
  <2> QED
    BY <1>1, <2>1, <2>2, AppendProperties
<1>7. \A s \in Stream : s \notin ready => queue'[s] = queue[s]
  BY <1>4
<1>8. TypeOK'
  <2>1. queue' \in [Stream -> Seq(1 .. MaxRev)]
    BY <1>4, <1>5, <1>6
  <2>2. \A s \in Stream : Len(queue'[s]) <= Capacity
    BY <1>2, <1>5, <1>6, <1>7, CapacityAssumption
  <2>3. published' \subseteq 1 .. journal' /\ building' \in [rev : 0 .. MaxRev, to : SUBSET Stream]
    BY <1>1, BoundAssumption DEF TypeOK, NoBuild
  <2> QED
    BY <1>1, <1>3, <2>1, <2>2, <2>3 DEF TypeOK
<1>9. BuildExclusive' /\ WritingCurrent' /\ Frames' /\ NoLeakedSubscriber'
  BY <1>1, <1>3 DEF BuildExclusive, Usable, WritingCurrent, Frames, NoLeakedSubscriber
<1>10. Cursor'
  BY <1>1, <1>2, <1>7 DEF Cursor, NoLeakedSubscriber
<1>11. QueueAhead'
  <2> SUFFICES ASSUME NEW s \in Stream
               PROVE  /\ \A i \in 1 .. Len(queue'[s]) : after[s] < queue'[s][i] /\ queue'[s][i] <= journal
                      /\ \A i, j \in 1 .. Len(queue'[s]) : i < j => queue'[s][i] < queue'[s][j]
                      /\ pc[s] = "relay" =>
                           /\ after[s] < todo[s][1] /\ todo[s][1] <= journal
                           /\ \A i \in 1 .. Len(queue'[s]) : todo[s][1] < queue'[s][i]
    BY <1>1 DEF QueueAhead
  <2>1. CASE s \notin ready
    BY <1>7, <2>1 DEF QueueAhead
  <2>2. CASE s \in ready
    <3>1. /\ \A i \in 1 .. Len(queue[s]) : after[s] < queue[s][i] /\ queue[s][i] < journal
          /\ after[s] < journal
          /\ \A i, j \in 1 .. Len(queue[s]) : i < j => queue[s][i] < queue[s][j]
          /\ pc[s] = "relay" => /\ after[s] < todo[s][1] /\ todo[s][1] < journal /\ todo[s][1] <= journal
                                /\ \A i \in 1 .. Len(queue[s]) : todo[s][1] < queue[s][i]
      BY <1>1, <1>2, <2>2 DEF QueueAhead
    <3>2. \A i \in 1 .. Len(queue'[s]) : (i \in 1 .. Len(queue[s]) /\ queue'[s][i] = queue[s][i])
                                        \/ (i = Len(queue[s]) + 1 /\ queue'[s][i] = journal)
      BY <1>5, <1>6, <2>2
    <3>3. \A i, j \in 1 .. Len(queue'[s]) : i < j => i \in 1 .. Len(queue[s])
      BY <1>5, <1>6, <2>2
    <3>4. \A i, j \in 1 .. Len(queue'[s]) : i < j => queue'[s][i] < queue'[s][j]
      BY <1>5, <3>1, <3>2, <3>3
    <3>5. \A i \in 1 .. Len(queue'[s]) : after[s] < queue'[s][i] /\ queue'[s][i] <= journal
      <4>0. queue[s] \in Seq(1 .. MaxRev)
        BY <1>5
      <4>1. \A i \in 1 .. Len(queue[s]) : queue[s][i] \in 1 .. MaxRev
        BY <4>0, ElementOfSeq
      <4> QED
        BY <1>1, <3>1, <3>2, <4>1
    <3>6. pc[s] = "relay" => \A i \in 1 .. Len(queue'[s]) : todo[s][1] < queue'[s][i]
      BY <3>1, <3>2
    <3> QED
      BY <3>1, <3>4, <3>5, <3>6
  <2> QED
    BY <2>1, <2>2
<1>12. Covered'
  <2> SUFFICES ASSUME NEW s \in subs', pc[s] \in {"replay", "live", "relay"},
                      NEW r \in published', r > from[s]
               PROVE  r \in sent[s] \cup Items(queue'[s]) \cup Items(todo[s])
    BY <1>1 DEF Covered
  <2>1. s \in Stream /\ s \in subs /\ s \in ready
    BY <1>3 DEF TypeOK
  <2>2. CASE r = journal
    BY <1>6, <2>1, <2>2
  <2>3. CASE r \in published
    BY <1>6, <2>1, <2>3 DEF Covered
  <2> QED
    BY <1>1, <2>2, <2>3
<1> QED
  BY <1>8, <1>9, <1>10, <1>11, <1>12
-----------------------------------------------------------------------------
(* The sessions.                                                           *)

LEMMA ConnectKeeps == ASSUME StreamInd, NEW s \in Stream, Connect(s) PROVE StreamInd'
<1> USE DEF StreamInd, lock, brain, hub
<1>1. PICK r \in 0 .. journal :
        /\ after' = [after EXCEPT ![s] = r] /\ from' = [from EXCEPT ![s] = r]
  BY DEF Connect
<1>2. /\ pc[s] = "off" /\ pc' = [pc EXCEPT ![s] = "subscribe"]
      /\ UNCHANGED <<lock, brain, hub, bound, todo, writing, sent>>
  BY DEF Connect
<1>3. r \in 0 .. MaxRev /\ 0 <= r /\ r <= journal /\ r \in Int
  BY BoundAssumption DEF TypeOK
<1>4. TypeOK'
  BY <1>1, <1>2, <1>3 DEF TypeOK, Leased
<1>5. BuildExclusive' /\ WritingCurrent' /\ Frames'
  BY <1>2 DEF BuildExclusive, WritingCurrent, Current, Usable, Frames, TypeOK, Sending
<1>6. Cursor' /\ NoLeakedSubscriber'
  BY <1>1, <1>2, <1>3 DEF Cursor, NoLeakedSubscriber, TypeOK
<1>7. s \notin subs /\ queue[s] = <<>>
  BY <1>2 DEF NoLeakedSubscriber, Cursor
<1>8. QueueAhead'
  <2> SUFFICES ASSUME NEW z \in Stream PROVE QueueAhead!(z)'
    BY DEF QueueAhead
  <2>1. CASE z # s
    BY <1>1, <1>2, <2>1 DEF QueueAhead, TypeOK
  <2>2. CASE z = s
    <3>1. 1 .. Len(queue[s]) = {} /\ pc'[s] = "subscribe"
      BY <1>2, <1>7 DEF TypeOK
    <3> QED
      BY <1>2, <1>7, <2>2, <3>1
  <2> QED
    BY <2>1, <2>2
<1>9. Covered'
  BY <1>1, <1>2 DEF Covered, TypeOK
<1> QED
  BY <1>4, <1>5, <1>6, <1>8, <1>9

(* The goroutine returns. *)
LEMMA GoneKeeps ==
    ASSUME StreamInd, NEW s \in Stream, Gone(s), s \notin writing,
           subs' \subseteq subs, s \notin subs',
           queue'[s] = <<>>, queue' = [queue EXCEPT ![s] = <<>>],
           readers' \subseteq readers, writing' \subseteq readers',
           UNCHANGED <<writer, waiting, brain, building, published, writing>>
    PROVE  StreamInd'
<1> USE DEF StreamInd, Gone, brain
<1>1. TypeOK'
  <2>1. <<>> \in Seq(0 .. MaxRev) /\ <<>> \in Seq(1 .. MaxRev) /\ Len(<<>>) = 0
    BY EmptySeq
  <2>2. /\ queue' \in [Stream -> Seq(1 .. MaxRev)] /\ todo' \in [Stream -> Seq(0 .. MaxRev)]
        /\ \A z \in Stream : Len(queue'[z]) <= Capacity
    BY <2>1, CapacityAssumption DEF TypeOK
  <2>3. /\ bound' \in [Stream -> 0 .. MaxEpoch] /\ after' \in [Stream -> 0 .. MaxRev]
        /\ from' \in [Stream -> 0 .. MaxRev] /\ sent' \in [Stream -> SUBSET (1 .. MaxRev)]
        /\ pc' \in [Stream -> {"off", "live", "end"} \cup Leased]
    BY BoundAssumption DEF TypeOK
  <2> QED
    BY <2>2, <2>3 DEF TypeOK
<1>2. BuildExclusive'
  BY DEF BuildExclusive, Usable
<1>3. WritingCurrent' /\ Frames'
  BY DEF WritingCurrent, Current, Usable, Frames, TypeOK, Sending
<1>4. Cursor' /\ NoLeakedSubscriber'
  BY DEF Cursor, NoLeakedSubscriber, TypeOK
<1>5. QueueAhead'
  <2> SUFFICES ASSUME NEW z \in Stream PROVE QueueAhead!(z)'
    BY DEF QueueAhead
  <2>1. CASE z # s
    BY <2>1 DEF QueueAhead, TypeOK
  <2>2. CASE z = s
    <3>1. 1 .. Len(queue'[s]) = {} /\ pc'[s] = "off"
      BY DEF TypeOK
    <3> QED
      BY <2>2, <3>1
  <2> QED
    BY <2>1, <2>2
<1>6. Covered'
  BY DEF Covered, TypeOK
<1> QED
  BY <1>1, <1>2, <1>3, <1>4, <1>5, <1>6

LEMMA SubscribeKeeps == ASSUME StreamInd, NEW s \in Stream, Subscribe(s) PROVE StreamInd'
<1> USE DEF StreamInd, brain, RUnlock
<1>1. /\ pc[s] = "subscribe" /\ s \in readers /\ readers' = readers \ {s} /\ s \notin writing
      /\ building = NoBuild
      /\ UNCHANGED <<writer, waiting, brain, queue, building, published, writing>>
  BY DEF Subscribe, WritingCurrent, Sending, BuildExclusive, Usable
<1>2. queue[s] = <<>> /\ s \notin subs /\ queue = [queue EXCEPT ![s] = <<>>]
  BY <1>1 DEF Cursor, NoLeakedSubscriber, TypeOK
<1>3. writing' \subseteq readers'
  BY <1>1 DEF TypeOK
<1>4. CASE Gone(s) /\ UNCHANGED subs
  BY <1>1, <1>2, <1>3, <1>4, GoneKeeps
<1>5. CASE /\ Usable /\ subs' = subs \cup {s} /\ bound' = [bound EXCEPT ![s] = epoch]
           /\ todo' = [todo EXCEPT ![s] = <<0>>] /\ pc' = [pc EXCEPT ![s] = "greet"]
           /\ UNCHANGED <<after, from, sent>>
  <2> USE <1>1, <1>5
  <2>1. TypeOK'
    <3>1. <<0>> \in Seq(0 .. MaxRev) /\ epoch \in 0 .. MaxEpoch
      BY BoundAssumption DEF TypeOK
    <3> QED
      BY <1>3, <3>1 DEF TypeOK, Leased, Sending
  <2>2. BuildExclusive' /\ WritingCurrent'
    BY DEF BuildExclusive, WritingCurrent, Current, Usable, TypeOK
  <2>3. Frames' /\ Cursor' /\ NoLeakedSubscriber'
    BY DEF Frames, Cursor, NoLeakedSubscriber, TypeOK
  <2>4. QueueAhead' /\ Covered'
    BY DEF QueueAhead, Covered, TypeOK
  <2> QED
    BY <2>1, <2>2, <2>3, <2>4
<1> QED
  BY <1>4, <1>5 DEF Subscribe

(* The stream leaves its loop, with or without the lease. *)
LEMMA LeaveKeeps ==
    ASSUME StreamInd, NEW s \in Stream, pc[s] \notin {"off", "subscribe"}, Leave(s), s \notin writing',
           readers' \subseteq readers, writing' \subseteq writing, writing' \subseteq readers',
           UNCHANGED <<writer, waiting, brain, hub, bound, after, from, todo, sent>>
    PROVE  StreamInd'
<1> USE DEF StreamInd, Leave, brain, hub
<1>1. TypeOK' /\ BuildExclusive'
  BY DEF TypeOK, BuildExclusive, Usable
<1>2. WritingCurrent' /\ Frames' /\ NoLeakedSubscriber'
  BY DEF WritingCurrent, Current, Usable, Frames, NoLeakedSubscriber, TypeOK, Sending
<1>3. Cursor' /\ Covered'
  BY DEF Cursor, Covered, TypeOK
<1>4. QueueAhead'
  BY DEF QueueAhead, TypeOK
<1> QED
  BY <1>1, <1>2, <1>3, <1>4

LEMMA CheckEpochKeeps == ASSUME StreamInd, NEW s \in Stream, CheckEpoch(s) PROVE StreamInd'
<1> USE DEF CheckEpoch, brain, hub, lock, RUnlock
<1>1. CASE Current(s)
  <2> USE <1>1 DEF StreamInd
  <2>1. TypeOK' /\ BuildExclusive' /\ WritingCurrent'
    BY DEF TypeOK, BuildExclusive, WritingCurrent, Current, Usable
  <2>2. Frames' /\ Cursor' /\ QueueAhead' /\ Covered' /\ NoLeakedSubscriber'
    BY DEF Frames, Cursor, QueueAhead, Covered, NoLeakedSubscriber
  <2> QED
    BY <2>1, <2>2
<1>2. CASE ~Current(s)
  <2>1. writing' \subseteq readers' /\ pc[s] \notin {"off", "subscribe"}
    BY <1>2 DEF StreamInd, TypeOK, Sending
  <2> QED
    BY <1>2, <2>1, LeaveKeeps
<1> QED
  BY <1>1, <1>2

LEMMA WriteFailsKeeps == ASSUME StreamInd, NEW s \in Stream, WriteFails(s) PROVE StreamInd'
<1>1. pc[s] \notin {"off", "subscribe"} /\ writing' \subseteq readers'
  BY DEF WriteFails, RUnlock, StreamInd, WritingCurrent, TypeOK, Sending
<1> QED
  BY <1>1, LeaveKeeps DEF WriteFails, RUnlock

LEMMA LiveLeaves ==
    ASSUME StreamInd, NEW s \in Stream, ClientCloses(s) \/ Invalidated(s) \/ Drained(s)
    PROVE  StreamInd'
<1>1. /\ pc[s] = "live" /\ Leave(s) /\ s \notin writing
      /\ UNCHANGED <<lock, brain, hub, bound, after, from, todo, writing, sent>>
  BY DEF ClientCloses, Invalidated, Drained, StreamInd, WritingCurrent, Sending
<1>2. writing \subseteq readers
  BY DEF StreamInd, TypeOK
<1> QED
  BY <1>1, <1>2, LeaveKeeps DEF lock

LEMMA EndKeeps == ASSUME StreamInd, NEW s \in Stream, End(s) PROVE StreamInd'
<1>1. s \notin writing /\ writing \subseteq readers
  BY DEF End, StreamInd, WritingCurrent, Sending, TypeOK
<1>2. queue'[s] = <<>>
  BY DEF End, StreamInd, TypeOK
<1> QED
  BY <1>1, <1>2, GoneKeeps DEF End, lock

LEMMA WriteFrameKeeps == ASSUME StreamInd, NEW s \in Stream, WriteFrame(s) PROVE StreamInd'
<1> USE DEF StreamInd, brain, hub, RUnlock
<1>1. /\ s \in writing /\ s \in readers /\ pc[s] \in Sending /\ todo[s] # <<>> /\ building = NoBuild
      /\ writing' = writing \ {s} /\ readers' = readers \ {s}
      /\ sent' = [sent EXCEPT ![s] = @ \cup ({Head(todo[s])} \ {0})]
      /\ todo' = [todo EXCEPT ![s] = Tail(@)]
      /\ UNCHANGED <<writer, waiting, brain, hub, bound, from>>
  BY DEF WriteFrame, WritingCurrent, Frames, TypeOK, BuildExclusive, Usable
<1>2. /\ Len(todo[s]) > 1 => UNCHANGED pc
      /\ ~(Len(todo[s]) > 1) => pc' = [pc EXCEPT ![s] = IF @ = "greet" THEN "history" ELSE "live"]
      /\ pc[s] = "relay" => after' = [after EXCEPT ![s] = Head(todo[s])]
      /\ pc[s] # "relay" => after' = after
  BY DEF WriteFrame
<1>3. /\ todo[s] \in Seq(0 .. MaxRev) /\ Head(todo[s]) = todo[s][1] /\ Head(todo[s]) \in 0 .. MaxRev
      /\ Tail(todo[s]) \in Seq(0 .. MaxRev) /\ Len(Tail(todo[s])) = Len(todo[s]) - 1
      /\ Len(todo[s]) \in Nat \ {0}
      /\ Items(todo[s]) = {Head(todo[s])} \cup Items(Tail(todo[s]))
  <2>1. todo[s] \in Seq(0 .. MaxRev)
    BY DEF TypeOK
  <2> QED
    BY <1>1, <2>1, HeadTailItems
<1>4. /\ Len(todo[s]) > 1 => Tail(todo[s]) # <<>>
      /\ ~(Len(todo[s]) > 1) => Tail(todo[s]) = <<>>
      /\ Len(todo[s]) > 1 => Len(todo[s]) # 1
  BY <1>1, <1>3, LastItem
<1>6. /\ todo' \in [Stream -> Seq(0 .. MaxRev)] /\ sent' \in [Stream -> SUBSET (1 .. MaxRev)]
      /\ after' \in [Stream -> 0 .. MaxRev]
      /\ pc' \in [Stream -> {"off", "live", "end"} \cup Leased]
  <2>1. {Head(todo[s])} \ {0} \subseteq 1 .. MaxRev
    BY <1>3, BoundAssumption
  <2>2. todo' \in [Stream -> Seq(0 .. MaxRev)]
    BY <1>1, <1>3 DEF TypeOK
  <2>3. sent' \in [Stream -> SUBSET (1 .. MaxRev)]
    BY <1>1, <2>1 DEF TypeOK
  <2>4. after' \in [Stream -> 0 .. MaxRev]
    BY <1>2, <1>3 DEF TypeOK
  <2>5. pc' \in [Stream -> {"off", "live", "end"} \cup Leased]
    BY <1>2 DEF TypeOK, Leased
  <2> QED
    BY <2>2, <2>3, <2>4, <2>5
<1>7. TypeOK' /\ BuildExclusive'
  BY <1>1, <1>6 DEF TypeOK, BuildExclusive, Usable
<1>8. WritingCurrent'
  BY <1>1, <1>2 DEF WritingCurrent, Current, Usable, TypeOK
<1>9. /\ todo'[s] = Tail(todo[s]) /\ \A z \in Stream \ {s} : todo'[z] = todo[z] /\ pc'[z] = pc[z]
      /\ Len(todo[s]) > 1 => pc'[s] = pc[s]
      /\ ~(Len(todo[s]) > 1) => pc'[s] = IF pc[s] = "greet" THEN "history" ELSE "live"
      /\ sent'[s] = sent[s] \cup ({Head(todo[s])} \ {0})
      /\ \A z \in Stream \ {s} : sent'[z] = sent[z] /\ after'[z] = after[z]
  BY <1>1, <1>2 DEF TypeOK
<1>10. pc[s] = "relay" => Len(todo[s]) = 1
  BY DEF Frames
<1>11. Frames'
  <2> SUFFICES ASSUME NEW z \in Stream PROVE Frames!(z)'
    BY DEF Frames
  <2>1. CASE z # s
    BY <1>9, <2>1 DEF Frames
  <2>2. CASE z = s
    <3>1. CASE Len(todo[s]) > 1
      <4>1. pc[s] # "relay" /\ pc'[s] = pc[s] /\ todo'[s] # <<>>
        BY <1>4, <1>9, <1>10, <3>1
      <4> QED
        BY <1>1, <2>2, <4>1 DEF Sending
    <3>2. CASE ~(Len(todo[s]) > 1)
      <4>1. pc'[s] \in {"history", "live"} /\ todo'[s] = <<>>
        BY <1>4, <1>9, <3>2
      <4> QED
        BY <2>2, <4>1 DEF Sending
    <3> QED
      BY <3>1, <3>2
  <2> QED
    BY <2>1, <2>2
<1>12. pc[s] = "relay" =>
        /\ pc'[s] = "live" /\ after'[s] = todo[s][1]
        /\ from[s] <= after'[s] /\ after'[s] <= journal
        /\ \A i \in 1 .. Len(queue[s]) : after'[s] < queue[s][i]
  <2> SUFFICES ASSUME pc[s] = "relay"
               PROVE  /\ pc'[s] = "live" /\ after'[s] = todo[s][1]
                      /\ from[s] <= after'[s] /\ after'[s] <= journal
                      /\ \A i \in 1 .. Len(queue[s]) : after'[s] < queue[s][i]
    OBVIOUS
  <2>1. after'[s] = todo[s][1] /\ pc'[s] = "live"
    <3>1. ~(Len(todo[s]) > 1)
      <4>1. Len(todo[s]) = 1
        BY <1>10
      <4>2. ~(1 > 1)
        OBVIOUS
      <4> QED
        BY <4>1, <4>2
    <3>2. after' = [after EXCEPT ![s] = todo[s][1]]
      BY <1>2, <1>3
    <3> QED
      BY <1>9, <3>1, <3>2 DEF TypeOK
  <2>2. /\ after[s] < todo[s][1] /\ todo[s][1] <= journal
        /\ \A i \in 1 .. Len(queue[s]) : todo[s][1] < queue[s][i]
    BY DEF QueueAhead
  <2>3. from[s] <= after[s] /\ from[s] \in Int /\ after[s] \in Int /\ todo[s][1] \in Int
    BY <1>3 DEF Cursor, TypeOK
  <2> QED
    BY <2>1, <2>2, <2>3
<1>13. pc[s] # "relay" => after'[s] = after[s]
  BY <1>2
<1>14. Cursor'
  <2> SUFFICES ASSUME NEW z \in Stream PROVE Cursor!(z)'
    BY DEF Cursor
  <2>1. CASE z # s
    BY <1>1, <1>9, <2>1 DEF Cursor
  <2>2. CASE z = s
    <3>1. CASE pc[s] = "relay"
      BY <1>1, <1>12, <2>2, <3>1
    <3>2. CASE pc[s] # "relay"
      BY <1>1, <1>9, <1>13, <2>2, <3>2 DEF Cursor, Sending
    <3> QED
      BY <3>1, <3>2
  <2> QED
    BY <2>1, <2>2
<1>15. QueueAhead'
  <2> SUFFICES ASSUME NEW z \in Stream PROVE QueueAhead!(z)'
    BY DEF QueueAhead
  <2>1. CASE z # s
    BY <1>1, <1>9, <2>1 DEF QueueAhead
  <2>2. CASE z = s
    <3>1. CASE pc[s] = "relay"
      BY <1>1, <1>12, <2>2, <3>1 DEF QueueAhead
    <3>2. CASE pc[s] # "relay"
      <4>1. pc'[s] # "relay"
        BY <1>9, <3>2
      <4> QED
        BY <1>1, <1>13, <2>2, <3>2, <4>1 DEF QueueAhead
    <3> QED
      BY <3>1, <3>2
  <2> QED
    BY <2>1, <2>2
<1>16. Covered'
  <2> SUFFICES ASSUME NEW z \in subs', pc'[z] \in {"replay", "live", "relay"},
                      NEW r \in published', r > from'[z]
               PROVE  r \in sent'[z] \cup Items(queue'[z]) \cup Items(todo'[z])
    BY DEF Covered
  <2>1. z \in Stream /\ z \in subs /\ r \in published /\ r # 0
    BY <1>1 DEF TypeOK
  <2>2. CASE z # s
    BY <1>1, <1>9, <2>1, <2>2 DEF Covered
  <2>3. CASE z = s
    <3>1. pc[s] \in {"replay", "live", "relay"}
      <4>1. CASE Len(todo[s]) > 1
        BY <1>9, <2>3, <4>1
      <4>2. CASE ~(Len(todo[s]) > 1)
        BY <1>1, <1>9, <2>3, <4>2 DEF Sending
      <4> QED
        BY <4>1, <4>2
    <3>2. r \in sent[s] \cup Items(queue[s]) \cup Items(todo[s])
      BY <1>1, <2>1, <2>3, <3>1 DEF Covered
    <3> QED
      BY <1>1, <1>3, <1>9, <2>1, <2>3, <3>2
  <2> QED
    BY <2>2, <2>3
<1>17. NoLeakedSubscriber'
  BY <1>1, <1>9 DEF NoLeakedSubscriber, TypeOK, Sending
<1> QED
  BY <1>7, <1>8, <1>11, <1>14, <1>15, <1>16, <1>17

LEMMA ReadHistoryKeeps == ASSUME StreamInd, NEW s \in Stream, ReadHistory(s) PROVE StreamInd'
<1>1. /\ pc[s] = "history" /\ s \in readers /\ s \notin writing /\ building = NoBuild
      /\ RUnlock(s) /\ UNCHANGED <<brain, hub, bound, after, from, writing, sent>>
  BY DEF ReadHistory, StreamInd, WritingCurrent, Sending, BuildExclusive, Usable
<1>2. writing \subseteq readers'
  BY <1>1 DEF StreamInd, TypeOK, RUnlock
<1>3. CASE Leave(s) /\ UNCHANGED todo
  BY <1>1, <1>2, <1>3, LeaveKeeps DEF RUnlock
<1>4. CASE /\ todo' = [todo EXCEPT ![s] = [i \in 1 .. journal - after[s] |-> after[s] + i]]
           /\ pc' = [pc EXCEPT ![s] = IF after[s] < journal THEN "replay" ELSE "live"]
  <2> USE DEF StreamInd, RUnlock, brain, hub
  <2> DEFINE h == [i \in 1 .. journal - after[s] |-> after[s] + i]
  <2>1. /\ after[s] \in Nat /\ journal \in Nat /\ journal <= MaxRev /\ after[s] <= journal
        /\ after[s] = from[s]
    BY <1>1, BoundAssumption DEF TypeOK, Cursor
  <2>2. h \in Seq(0 .. MaxRev) /\ Len(h) = journal - after[s]
    <3>1. journal - after[s] \in Nat /\ \A i \in 1 .. journal - after[s] : after[s] + i \in 0 .. MaxRev
      BY <2>1, BoundAssumption
    <3>2. h \in [1 .. journal - after[s] -> 0 .. MaxRev]
      BY <3>1
    <3> QED
      BY <3>1, <3>2, FunctionSeq
  <2>3. \A r \in Int : r > after[s] /\ r <= journal => r \in Items(h)
    <3> SUFFICES ASSUME NEW r \in Int, r > after[s], r <= journal PROVE r \in Items(h)
      OBVIOUS
    <3>1. r - after[s] \in 1 .. journal - after[s] /\ h[r - after[s]] = r
      BY <2>1
    <3> QED
      BY <2>2, <3>1 DEF Items
  <2>4. (after[s] < journal => h # <<>>) /\ (~(after[s] < journal) => h = <<>>)
    BY <2>1, <2>2, EmptySeq
  <2> HIDE DEF h
  <2>5. /\ todo' = [todo EXCEPT ![s] = h] /\ todo'[s] = h
        /\ pc'[s] = IF after[s] < journal THEN "replay" ELSE "live"
        /\ \A z \in Stream \ {s} : todo'[z] = todo[z] /\ pc'[z] = pc[z]
    BY <1>4 DEF h, TypeOK
  <2>6. TypeOK'
    <3>1. todo' \in [Stream -> Seq(0 .. MaxRev)]
      BY <2>2, <2>5 DEF TypeOK
    <3>2. pc' \in [Stream -> {"off", "live", "end"} \cup Leased]
      BY <1>4 DEF TypeOK, Leased, Sending
    <3> QED
      BY <1>1, <1>2, <3>1, <3>2 DEF TypeOK
  <2>7. BuildExclusive' /\ WritingCurrent'
    BY <1>1, <2>5 DEF BuildExclusive, WritingCurrent, Current, Usable, TypeOK
  <2>8. Frames'
    <3> SUFFICES ASSUME NEW z \in Stream PROVE Frames!(z)'
      BY DEF Frames
    <3>1. CASE z # s
      BY <2>5, <3>1 DEF Frames
    <3>2. CASE z = s
      BY <2>4, <2>5, <3>2 DEF Sending
    <3> QED
      BY <3>1, <3>2
  <2>9. Cursor' /\ NoLeakedSubscriber'
    BY <1>1, <2>1, <2>5 DEF Cursor, NoLeakedSubscriber, TypeOK
  <2>10. QueueAhead'
    <3> SUFFICES ASSUME NEW z \in Stream PROVE QueueAhead!(z)'
      BY DEF QueueAhead
    <3>1. pc'[z] = "relay" => z # s /\ pc[z] = "relay" /\ todo'[z] = todo[z]
      BY <2>5
    <3> QED
      BY <1>1, <3>1 DEF QueueAhead
  <2>11. Covered'
    <3> SUFFICES ASSUME NEW z \in subs', pc'[z] \in {"replay", "live", "relay"},
                        NEW r \in published', r > from'[z]
                 PROVE  r \in sent'[z] \cup Items(queue'[z]) \cup Items(todo'[z])
      BY DEF Covered
    <3>1. z \in Stream /\ z \in subs /\ r \in published /\ r \in Int /\ r <= journal
      BY <1>1 DEF TypeOK
    <3>2. CASE z # s
      BY <1>1, <2>5, <3>1, <3>2 DEF Covered
    <3>3. CASE z = s
      BY <1>1, <2>1, <2>3, <2>5, <3>1, <3>3
    <3> QED
      BY <3>2, <3>3
  <2> QED
    BY <2>6, <2>7, <2>8, <2>9, <2>10, <2>11
<1> QED
  BY <1>3, <1>4 DEF ReadHistory

LEMMA TakeEventKeeps == ASSUME StreamInd, NEW s \in Stream, TakeEvent(s) PROVE StreamInd'
<1> USE DEF StreamInd, brain, lock
<1>1. /\ pc[s] = "live" /\ queue[s] # <<>> /\ todo[s] = <<>> /\ s \notin writing
      /\ queue' = [queue EXCEPT ![s] = Tail(@)]
      /\ UNCHANGED <<lock, brain, subs, building, published, bound, after, from, writing, sent>>
  BY DEF TakeEvent, Frames, WritingCurrent, Sending
<1>2. /\ queue[s] \in Seq(1 .. MaxRev) /\ Head(queue[s]) = queue[s][1]
      /\ Head(queue[s]) \in 1 .. MaxRev
      /\ Tail(queue[s]) \in Seq(1 .. MaxRev) /\ Len(Tail(queue[s])) = Len(queue[s]) - 1
      /\ Len(queue[s]) \in Nat \ {0}
      /\ \A i \in 1 .. Len(Tail(queue[s])) : Tail(queue[s])[i] = queue[s][i + 1]
      /\ Items(queue[s]) = {Head(queue[s])} \cup Items(Tail(queue[s]))
  <2>1. queue[s] \in Seq(1 .. MaxRev)
    BY DEF TypeOK
  <2> QED
    BY <1>1, <2>1, HeadTailItems
<1>3. /\ 1 \in 1 .. Len(queue[s])
      /\ \A i \in 1 .. Len(Tail(queue[s])) : i + 1 \in 1 .. Len(queue[s]) /\ 1 < i + 1
  BY <1>2
<1>4. /\ after[s] < queue[s][1] /\ queue[s][1] <= journal
      /\ building # NoBuild => queue[s][1] < journal
      /\ \A i \in 1 .. Len(Tail(queue[s])) : queue[s][1] < queue[s][i + 1]
  BY <1>3 DEF QueueAhead
<1>5. /\ todo' = [todo EXCEPT ![s] = <<queue[s][1]>>]
      /\ pc' = [pc EXCEPT ![s] = "relay"]
  <2>1. ~(Head(queue[s]) <= after[s])
    BY <1>2, <1>4 DEF TypeOK
  <2> QED
    BY <1>2, <2>1 DEF TakeEvent
<1>6. /\ queue'[s] = Tail(queue[s]) /\ todo'[s] = <<queue[s][1]>> /\ pc'[s] = "relay"
      /\ todo'[s][1] = queue[s][1] /\ Len(todo'[s]) = 1 /\ todo'[s] # <<>>
      /\ \A z \in Stream \ {s} : queue'[z] = queue[z] /\ todo'[z] = todo[z] /\ pc'[z] = pc[z]
  BY <1>1, <1>5 DEF TypeOK
<1>7. TypeOK'
  <2>1. queue' \in [Stream -> Seq(1 .. MaxRev)] /\ \A z \in Stream : Len(queue'[z]) <= Capacity
    BY <1>1, <1>2, <1>6, CapacityAssumption DEF TypeOK
  <2>2. <<queue[s][1]>> \in Seq(0 .. MaxRev)
    BY <1>2
  <2>3. todo' \in [Stream -> Seq(0 .. MaxRev)] /\ pc' \in [Stream -> {"off", "live", "end"} \cup Leased]
    BY <1>5, <2>2 DEF TypeOK, Leased, Sending
  <2> QED
    BY <1>1, <2>1, <2>3 DEF TypeOK
<1>8. BuildExclusive' /\ WritingCurrent'
  BY <1>1, <1>6 DEF BuildExclusive, WritingCurrent, Current, Usable, TypeOK
<1>9. Frames'
  BY <1>6 DEF Frames
<1>10. Cursor' /\ NoLeakedSubscriber'
  BY <1>1, <1>6 DEF Cursor, NoLeakedSubscriber, TypeOK
<1>11. QueueAhead'
  <2> SUFFICES ASSUME NEW z \in Stream PROVE QueueAhead!(z)'
    BY DEF QueueAhead
  <2>1. CASE z # s
    BY <1>1, <1>6, <2>1 DEF QueueAhead
  <2>2. CASE z = s
    <3>1. \A i \in 1 .. Len(queue'[s]) : queue'[s][i] = queue[s][i + 1] /\ i + 1 \in 1 .. Len(queue[s])
      BY <1>2, <1>3, <1>6
    <3>2. /\ \A i \in 1 .. Len(queue'[s]) : after[s] < queue'[s][i] /\ queue'[s][i] <= journal
          /\ building # NoBuild => \A i \in 1 .. Len(queue'[s]) : queue'[s][i] < journal
      BY <3>1 DEF QueueAhead
    <3>3. \A i, j \in 1 .. Len(queue'[s]) : i < j => queue'[s][i] < queue'[s][j]
      <4>1. \A i, j \in 1 .. Len(queue'[s]) : i < j => i + 1 < j + 1
        OBVIOUS
      <4> QED
        BY <3>1, <4>1 DEF QueueAhead
    <3>4. \A i \in 1 .. Len(queue'[s]) : todo'[s][1] < queue'[s][i]
      BY <1>4, <1>6, <3>1
    <3>5. building # NoBuild => (s \in subs => after[s] < journal)
      BY DEF QueueAhead
    <3> QED
      BY <1>1, <1>4, <1>6, <2>2, <3>2, <3>3, <3>4, <3>5
  <2> QED
    BY <2>1, <2>2
<1>12. Covered'
  <2> SUFFICES ASSUME NEW z \in subs', pc'[z] \in {"replay", "live", "relay"},
                      NEW r \in published', r > from'[z]
               PROVE  r \in sent'[z] \cup Items(queue'[z]) \cup Items(todo'[z])
    BY DEF Covered
  <2>1. z \in Stream /\ z \in subs /\ r \in published
    BY <1>1 DEF TypeOK
  <2>2. CASE z # s
    BY <1>1, <1>6, <2>1, <2>2 DEF Covered
  <2>3. CASE z = s
    <3>1. r \in sent[s] \cup Items(queue[s]) \cup Items(todo[s])
      BY <1>1, <2>1, <2>3 DEF Covered
    <3>2. Items(todo[s]) = {} /\ queue[s][1] \in Items(todo'[s])
      BY <1>1, <1>6 DEF Items
    <3> QED
      BY <1>1, <1>2, <1>6, <2>3, <3>1, <3>2
  <2> QED
    BY <2>2, <2>3
<1> QED
  BY <1>7, <1>8, <1>9, <1>10, <1>11, <1>12
-----------------------------------------------------------------------------
LEMMA StreamStep == StreamInd /\ [Next]_vars => StreamInd'
<1> SUFFICES ASSUME StreamInd, [Next]_vars PROVE StreamInd'
  OBVIOUS
<1>1. CASE Lock("mutation") \/ Lock("owner")
  BY <1>1, LockKeeps
<1>2. CASE MutationRefused \/ MutationInvalid \/ HandoverAborted
  <2>1. building = NoBuild
    BY <1>2 DEF MutationRefused, MutationInvalid, HandoverAborted, Exclusive, StreamInd,
                BuildExclusive, Usable
  <2> QED
    BY <1>2, <2>1, UnlockKeeps DEF MutationRefused, MutationInvalid, HandoverAborted, Exclusive
<1>3. CASE Commit
  BY <1>3, CommitKeeps
<1>4. CASE Deliver
  BY <1>4, DeliverKeeps
<1>5. CASE CommitFails
  BY <1>5, RetireKeeps DEF CommitFails, Exclusive, StreamInd, TypeOK
<1>6. CASE Handover
  <2>1. /\ readers = {} /\ writer = "owner" /\ Unlock /\ subs' = {} /\ closed' = closed
        /\ poisoned' = FALSE /\ epoch' = epoch + 1 /\ epoch < MaxEpoch /\ journal' = journal
        /\ UNCHANGED <<queue, building, published, session>>
    BY <1>6 DEF Handover, Exclusive
  <2>2. /\ building = NoBuild /\ closed' \in BOOLEAN /\ journal' <= MaxRev
        /\ epoch' \in 1 .. MaxEpoch
    BY <2>1, BoundAssumption DEF StreamInd, BuildExclusive, TypeOK
  <2> QED
    BY <2>1, <2>2, RetireKeeps
<1>7. CASE Close
  BY <1>7, RetireKeeps, BoundAssumption DEF Close, Exclusive, StreamInd, BuildExclusive, Usable, TypeOK
<1>8. ASSUME NEW s \in Stream, Connect(s) \/ Session(s) \/ ClientCloses(s)
      PROVE  StreamInd'
  BY <1>8, ConnectKeeps, RLockKeeps, SubscribeKeeps, CheckEpochKeeps, WriteFrameKeeps, WriteFailsKeeps,
     ReadHistoryKeeps, LiveLeaves, TakeEventKeeps, EndKeeps DEF Session
<1>9. CASE UNCHANGED vars
  BY <1>9 DEF vars, StreamInd, TypeOK, BuildExclusive, WritingCurrent, Current, Usable, Frames,
              Cursor, QueueAhead, Covered, NoLeakedSubscriber
<1> QED
  BY <1>1, <1>2, <1>3, <1>4, <1>5, <1>6, <1>7, <1>8, <1>9 DEF Next, Mutation, Owner

(* The inductive invariant holds in every reachable state. *)
THEOREM StreamInvariance == Spec => []StreamInd
<1> QED
  BY StreamInit, StreamStep, PTL DEF Spec

(* Lock, hub, buffers and sessions are well formed: a buffer never exceeds *)
(* its capacity, a frame is written only under a lease, nobody holds and   *)
(* waits for the lock at once (RuntimeSupervisor, TelemetryHub, stream).   *)
THEOREM StreamTypes == Spec => []TypeOK
<1>1. StreamInd => TypeOK
  BY DEF StreamInd
<1> QED
  BY <1>1, StreamInvariance, PTL

(* A live stream with an open subscription has written or still holds      *)
(* every published event behind its client's cursor, for any number of     *)
(* streams and any buffer (stream, publishBuilt).                          *)
THEOREM NothingLost == Spec => []NoLostEvent
<1>1. StreamInd => NoLostEvent
  BY DEF StreamInd, Covered, NoLostEvent
<1> QED
  BY <1>1, StreamInvariance, PTL

(* Every way out of the stream handler takes its subscriber out of the hub *)
(* (stream's deferred Unsubscribe, Subscribe's refusals).                  *)
THEOREM NothingLeaked == Spec => []NoLeakedSubscriber
<1>1. StreamInd => NoLeakedSubscriber
  BY DEF StreamInd
<1> QED
  BY <1>1, StreamInvariance, PTL

(* A step that completes or abandons a frame leaves the published runtime  *)
(* alone: recovery and shutdown need the lock the writer shares.           *)
LEMMA FrameStep ==
    ASSUME StreamInd, [Next]_vars, NEW s \in Stream, s \in writing, s \notin writing'
    PROVE  Current(s) /\ epoch' = epoch
<1>1. Current(s) /\ s \in readers
  BY DEF StreamInd, WritingCurrent, TypeOK
<1>2. CASE \E z \in Stream : Connect(z) \/ Session(z) \/ ClientCloses(z)
  BY <1>1, <1>2 DEF Connect, Session, RLock, Subscribe, CheckEpoch, WriteFrame, WriteFails, ReadHistory,
                    Invalidated, TakeEvent, Drained, End, ClientCloses, brain
<1>3. CASE UNCHANGED writing
  BY <1>3
<1>4. CASE Mutation \/ Owner
  BY <1>1, <1>4 DEF Mutation, Owner, MutationRefused, Commit, Deliver, CommitFails, MutationInvalid,
                    Handover, HandoverAborted, Close, session
<1> QED
  BY <1>2, <1>3, <1>4 DEF Next, Lock, session, vars

(* No frame of a runtime is written once another one is published or the   *)
(* owner is closed (writeJSONFrame, the lease around check and write).     *)
THEOREM FramesOfTheirRuntime == Spec => FramesCurrent
<1>1. StreamInd /\ [Next]_vars =>
        [\A s \in Stream : s \in writing /\ s \notin writing' => Current(s) /\ epoch' = epoch]_vars
  BY FrameStep
<1> QED
  BY <1>1, StreamInvariance, PTL DEF Spec, FramesCurrent
=============================================================================
