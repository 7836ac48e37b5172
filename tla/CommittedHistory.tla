-------------------------- MODULE CommittedHistory --------------------------
(***************************************************************************)
(* What Horizon promises about its memory, with no journal, checkpoint,    *)
(* lock or recovery procedure in sight: there is one committed history.    *)
(* An operation is committed at its end and never twice under one ID; what *)
(* callers are served is the whole history or nothing; an acknowledged     *)
(* operation keeps its place in it; an unacknowledged one may be lost, if  *)
(* the machine fails before it is durable.                                 *)
(***************************************************************************)
EXTENDS Integers, Sequences

CONSTANTS Operation, Identified   \* the operations, those with an event ID

VARIABLES
    history,   \* the committed operations, oldest first
    served,    \* the states callers can be served from: none, or the history
    acked      \* <<o, i>> when a caller was told that o is event i

cvars == <<history, served, acked>>

CInit == history = <<>> /\ served = {} /\ acked = {}

(* Nobody is served while an operation is in flight. *)
Commit(o) ==
    /\ o \in Identified => \A i \in 1 .. Len(history) : history[i] # o
    /\ served = {}
    /\ history' = Append(history, o)
    /\ UNCHANGED <<served, acked>>

Serve ==
    /\ served' = {history}
    /\ UNCHANGED <<history, acked>>

(* The last committed operation is acknowledged by the call that made it. *)
Acknowledge ==
    /\ history # <<>> /\ served = {}
    /\ acked' = acked \cup {<<history[Len(history)], Len(history)>>}
    /\ served' = {history}
    /\ UNCHANGED history

Withdraw ==
    /\ served' = {}
    /\ UNCHANGED <<history, acked>>

(* A machine failure loses the end of the history, never what was          *)
(* acknowledged.                                                           *)
Lose ==
    /\ \E n \in 0 .. Len(history) :
          /\ \A a \in acked : a[2] <= n
          /\ history' = SubSeq(history, 1, n)
    /\ served' = {}
    /\ UNCHANGED acked

CNext == (\E o \in Operation : Commit(o)) \/ Serve \/ Acknowledge \/ Withdraw \/ Lose

CSpec == CInit /\ [][CNext]_cvars
=============================================================================
