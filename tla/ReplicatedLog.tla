--------------------------- MODULE ReplicatedLog ---------------------------
(***************************************************************************)
(* What a raft cluster promises its clients, without nodes, votes or       *)
(* messages: one log that only grows, of which every node applies a        *)
(* prefix, and reads that see all that was chosen before they began.       *)
(***************************************************************************)
EXTENDS Integers, Sequences, SequencesExt

CONSTANTS Node, Reader

VARIABLES
    chosen,    \* the entries that are committed
    applied,   \* the prefix of them that a node may show
    read       \* per reader: what was chosen when its read began, and what it saw

vars == <<chosen, applied, read>>

IdleRead == [pc |-> "idle", floor |-> <<>>, saw |-> <<>>]

Init ==
    /\ chosen = <<>>
    /\ applied = [n \in Node |-> <<>>]
    /\ read = [r \in Reader |-> IdleRead]

\* A node moves on, possibly choosing more entries.
Advance(n) ==
    /\ IsPrefix(chosen, chosen')
    /\ IsPrefix(applied[n], applied'[n]) /\ IsPrefix(applied'[n], chosen')
    /\ \A m \in Node \ {n} : applied'[m] = applied[m]
    /\ UNCHANGED read

\* A node restarts with less, and what was being read from it fails.
Forget(n) ==
    /\ UNCHANGED chosen
    /\ IsPrefix(applied'[n], applied[n])
    /\ \A m \in Node \ {n} : applied'[m] = applied[m]
    /\ \A r \in Reader : \/ read'[r] = read[r]
                         \/ read[r].pc = "wait" /\ read'[r] = [read[r] EXCEPT !.pc = "failed"]

Begin(r) ==
    /\ read[r].pc = "idle"
    /\ read' = [read EXCEPT ![r] = [pc |-> "wait", floor |-> chosen, saw |-> <<>>]]
    /\ UNCHANGED <<chosen, applied>>

\* A read that succeeds saw everything chosen before it began.
End(r) ==
    /\ read[r].pc = "wait"
    /\ \E n \in Node :
         /\ IsPrefix(read[r].floor, applied[n])
         /\ read' = [read EXCEPT ![r].pc = "done", ![r].saw = applied[n]]
    /\ UNCHANGED <<chosen, applied>>

Fail(r) ==
    /\ read[r].pc = "wait"
    /\ read' = [read EXCEPT ![r].pc = "failed"]
    /\ UNCHANGED <<chosen, applied>>

Next ==
    \/ \E n \in Node : Advance(n) \/ Forget(n)
    \/ \E r \in Reader : Begin(r) \/ End(r) \/ Fail(r)

Spec == Init /\ [][Next]_vars
=============================================================================
