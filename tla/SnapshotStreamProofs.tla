------------------------ MODULE SnapshotStreamProofs ------------------------
(***************************************************************************)
(* What a leader takes for installed is installed, for every number of     *)
(* terms, snapshots, chunks, transmitters and faults.                      *)
(***************************************************************************)
EXTENDS SnapshotStream, TLAPS

Tx == [at : {"off", "ready", "waiting", "stopped"}, vote : Nat, snap : Nat,
       offset : Nat, cancel : BOOLEAN]

Calls == [tx : Session, offset : Nat, live : BOOLEAN, data : SUBSET Nat,
          at : {"sent", "checked", "full", "ok", "refused", "mismatch"}]

StreamTypeOK ==
  /\ tx \in [Session -> Tx]
  /\ calls \in SUBSET Calls
  /\ stream \in [snap : Nat, data : SUBSET Nat]
  /\ committed \in Nat /\ reported \in Nat

\* A call is of a transmitter that was spawned; an answer "ok" to the last
\* chunk was given when the follower had committed the snapshot.
CallsOK ==
  \A c \in calls :
    /\ tx[c.tx].at # "off"
    /\ c.at = "ok" /\ c.offset = LastChunk => tx[c.tx].snap <= committed

StreamInv == StreamTypeOK /\ CallsOK /\ ReportedIsHeld
----------------------------------------------------------------------------
\* No transmitter, no call and no snapshot is there at the start.
LEMMA StreamInit == Init => StreamInv
  BY DEF Init, StreamInv, StreamTypeOK, CallsOK, ReportedIsHeld, Tx, NoStream

\* A step that gives call c its next state, or ends it, keeps the calls.
LEMMA OneCall ==
  ASSUME StreamInv, NEW c \in calls, NEW D, D \in SUBSET Calls,
         calls' = (calls \ {c}) \cup D, tx' = tx, committed' \in Nat,
         committed <= committed',
         \A d \in D : /\ d.tx = c.tx
                      /\ d.at = "ok" /\ d.offset = LastChunk => tx[c.tx].snap <= committed'
  PROVE  calls' \in SUBSET Calls /\ CallsOK'
<1>1. calls \in SUBSET Calls /\ tx \in [Session -> Tx] /\ committed \in Nat
  BY DEF StreamInv, StreamTypeOK
<1>2. \A d \in calls : tx[d.tx].snap \in Nat
  BY <1>1 DEF Calls, Tx
<1> QED
  BY <1>1, <1>2 DEF StreamInv, CallsOK

\* A call that goes on, from the vote to the stream and the installation.
LEMMA ReplaceCall ==
  ASSUME StreamInv, NEW c \in calls, NEW d \in Calls, Replace(c, d),
         d.tx = c.tx, d.at # "ok", tx' = tx, committed' = committed
  PROVE  calls' \in SUBSET Calls /\ CallsOK'
<1> DEFINE D == {d}
<1>1. /\ calls' = (calls \ {c}) \cup D
      /\ committed' \in Nat /\ committed <= committed'
  BY DEF Replace, StreamInv, StreamTypeOK
<1>2. D \in SUBSET Calls /\ \A e \in D : e.tx = c.tx /\ e.at # "ok"
  OBVIOUS
<1> HIDE DEF D
<1> QED
  BY <1>1, <1>2, OneCall

\* An answer "ok" needs the follower's commit if it is to the last chunk.
LEMMA AnswerCall ==
  ASSUME StreamInv, NEW c \in calls, NEW res \in {"ok", "refused", "mismatch"},
         Answer(c, res), tx' = tx, committed' \in Nat, committed <= committed',
         res = "ok" /\ c.offset = LastChunk => tx[c.tx].snap <= committed'
  PROVE  calls' \in SUBSET Calls /\ CallsOK'
<1> DEFINE D == IF c.live THEN {[c EXCEPT !.at = res]} ELSE {}
<1>1. c \in Calls
  BY DEF StreamInv, StreamTypeOK
<1>2. D \in SUBSET Calls /\ \A d \in D : d.tx = c.tx /\ d.at = res /\ d.offset = c.offset
  BY <1>1 DEF Calls
<1>3. calls' = (calls \ {c}) \cup D
  BY DEF Answer
<1> HIDE DEF D
<1> QED
  BY <1>2, <1>3, OneCall

\* Every step of senders, calls and follower keeps the invariant.
LEMMA StreamNext == StreamInv /\ [Next]_vars => StreamInv'
<1> SUFFICES ASSUME StreamInv, [Next]_vars PROVE StreamInv'
  OBVIOUS
<1> USE DEF StreamInv, StreamTypeOK, ReportedIsHeld
<1>1. ASSUME NEW t \in 1..MaxTerm, NEW n \in 1..MaxSnap, Spawn(t, n) PROVE StreamInv'
  <2>1. t \in Nat /\ n \in Nat
    OBVIOUS
  <2>2. PICK s \in Session :
          /\ tx[s].at = "off"
          /\ tx' = [r \in Session |->
               IF r = s THEN [at |-> "ready", vote |-> t, snap |-> n, offset |-> 0, cancel |-> FALSE]
               ELSE IF tx[r].vote = t THEN [tx[r] EXCEPT !.cancel = TRUE] ELSE tx[r]]
    BY <1>1 DEF Spawn
  <2>3. tx' \in [Session -> Tx]
    BY ZenonT(60), <2>1, <2>2 DEF Tx
  <2>4. \A r \in Session : r # s => tx'[r].at = tx[r].at /\ tx'[r].snap = tx[r].snap
    BY <2>2 DEF Tx
  <2>5. CallsOK'
    BY <1>1, <2>2, <2>4 DEF CallsOK, Calls, Spawn, follower
  <2> QED
    BY <1>1, <2>3, <2>5 DEF Spawn, follower
<1>2. ASSUME NEW s \in Session, SendChunk(s) PROVE StreamInv'
  <2>0. PICK a \in {"stopped", "waiting"} : tx' = [tx EXCEPT ![s].at = a]
    BY <1>2 DEF SendChunk
  <2>1. /\ tx' \in [Session -> Tx]
        /\ \A r \in Session : tx'[r].snap = tx[r].snap
        /\ \A r \in Session : tx[r].at # "off" => tx'[r].at # "off"
    BY <2>0 DEF Tx
  <2>2. tx'[s].at # "off"
    BY <2>0 DEF Tx
  <2>5. calls' = calls \/ calls' = calls \cup {Call(s, tx[s].offset, TRUE)}
    BY <1>2 DEF SendChunk
  <2>3. Call(s, tx[s].offset, TRUE) \in Calls
    BY DEF Call, Calls, Tx
  <2>4. CallsOK'
    BY <1>2, <2>1, <2>2, <2>5 DEF CallsOK, Calls, Call, SendChunk, follower
  <2> QED
    BY <1>2, <2>1, <2>3, <2>4, <2>5 DEF SendChunk, follower
<1>3. ASSUME NEW c \in calls, GiveUp(c) PROVE StreamInv'
  <2>1. /\ tx' \in [Session -> Tx]
        /\ \A r \in Session : tx'[r].snap = tx[r].snap
        /\ \A r \in Session : tx[r].at # "off" => tx'[r].at # "off"
    BY <1>3 DEF GiveUp, Tx, Calls
  <2>2. c \in Calls
    OBVIOUS
  <2>3. PICK d \in Calls : d.tx = c.tx /\ d.at = c.at /\ d.offset = c.offset
                          /\ calls' \in SUBSET (calls \cup {d})
    <3>1. [c EXCEPT !.live = FALSE] \in Calls
      BY <2>2 DEF Calls
    <3> WITNESS [c EXCEPT !.live = FALSE] \in Calls
    <3> QED
      BY <1>3, <2>2 DEF GiveUp, Replace, Calls
  <2>4. CallsOK'
    BY <1>3, <2>1, <2>2, <2>3 DEF CallsOK, Calls, GiveUp, follower
  <2> QED
    BY <1>3, <2>1, <2>3, <2>4 DEF GiveUp, follower
<1>4. ASSUME NEW c \in calls, RecvAnswer(c) PROVE StreamInv'
  <2>1. c \in Calls /\ c.tx \in Session /\ tx[c.tx] \in Tx
    BY DEF Calls
  <2>2. /\ \A r \in Session : tx'[r].snap = tx[r].snap
        /\ \A r \in Session : tx[r].at # "off" => tx'[r].at # "off"
    BY <1>4, <2>1 DEF RecvAnswer, Tx
  <2>3. tx' \in [Session -> Tx]
    BY <1>4, <2>1 DEF RecvAnswer, Tx
  <2>4. calls' \in SUBSET calls /\ UNCHANGED <<stream, committed>>
    BY <1>4 DEF RecvAnswer, follower
  <2>5. CallsOK'
    BY <2>2, <2>4 DEF CallsOK, Calls
  <2>6. reported' \in Nat /\ reported' <= committed
    BY <1>4, <2>1 DEF RecvAnswer, CallsOK, Tx
  <2> QED
    BY <2>3, <2>4, <2>5, <2>6
<1>5. ASSUME NEW c \in calls, CheckVote(c) PROVE StreamInv'
  <2>1. c \in Calls
    OBVIOUS
  <2>2. [c EXCEPT !.at = "checked"] \in Calls
    BY <2>1 DEF Calls
  <2>3. calls' \in SUBSET Calls /\ CallsOK'
    <3>1. CASE Answer(c, "refused")
      BY <1>5, <3>1, AnswerCall DEF CheckVote, sender, follower
    <3>2. CASE Replace(c, [c EXCEPT !.at = "checked"])
      BY <1>5, <2>1, <2>2, <3>2, ReplaceCall DEF CheckVote, sender, follower, Calls
    <3> QED
      BY <1>5, <3>1, <3>2 DEF CheckVote
  <2> QED
    BY <1>5, <2>3 DEF CheckVote, sender, follower
<1>6. ASSUME NEW c \in calls, ReceiveSnapshot(c) PROVE StreamInv'
  <2>1. c \in Calls /\ tx[c.tx].snap \in Nat
    BY DEF Calls, Tx
  <2> DEFINE old == IF stream.snap = tx[c.tx].snap THEN stream
                    ELSE [snap |-> tx[c.tx].snap, data |-> {}]
             new == [old EXCEPT !.data = @ \cup {c.offset}]
  <2>2. new \in [snap : Nat, data : SUBSET Nat]
    BY <2>1 DEF Calls
  <2>3. NoStream \in [snap : Nat, data : SUBSET Nat]
    BY DEF NoStream
  <2>4. stream' \in [snap : Nat, data : SUBSET Nat]
    BY <1>6, <2>2, <2>3 DEF ReceiveSnapshot
  <2>5. \/ Answer(c, "mismatch")
        \/ Replace(c, [c EXCEPT !.at = "full", !.data = new.data])
        \/ c.offset # LastChunk /\ Answer(c, "ok")
    BY <1>6 DEF ReceiveSnapshot
  <2>6. new.data \in SUBSET Nat
    BY <2>2
  <2>7. UNCHANGED <<tx, reported, committed>>
    BY <1>6 DEF ReceiveSnapshot, sender
  <2> HIDE DEF new
  <2>8. calls' \in SUBSET Calls /\ CallsOK'
    <3>1. CASE Answer(c, "mismatch") \/ (c.offset # LastChunk /\ Answer(c, "ok"))
      BY <2>7, <3>1, AnswerCall
    <3>2. CASE Replace(c, [c EXCEPT !.at = "full", !.data = new.data])
      <4> DEFINE d == [c EXCEPT !.at = "full", !.data = new.data]
      <4>1. d \in Calls /\ d.tx = c.tx /\ d.at # "ok"
        BY <2>1, <2>6 DEF Calls
      <4> HIDE DEF d
      <4>2. Replace(c, d)
        BY <3>2 DEF d
      <4> QED
        BY <2>7, <4>1, <4>2, ReplaceCall
    <3> QED
      BY <2>5, <3>1, <3>2
  <2> QED
    BY <2>4, <2>7, <2>8
<1>7. ASSUME NEW c \in calls, InstallFullSnapshot(c) PROVE StreamInv'
  <2>1. c \in Calls /\ tx[c.tx].snap \in Nat
    BY DEF Calls, Tx
  <2>2. UNCHANGED <<tx, reported, stream>>
    BY <1>7 DEF InstallFullSnapshot, sender
  <2>3. CASE Answer(c, "refused") /\ UNCHANGED committed
    BY <2>2, <2>3, AnswerCall
  <2>4. CASE Answer(c, "ok") /\ committed' = IF tx[c.tx].snap > committed THEN tx[c.tx].snap ELSE committed
    <3>1. committed' \in Nat /\ committed <= committed' /\ tx[c.tx].snap <= committed'
      BY <2>1, <2>4
    <3>2. calls' \in SUBSET Calls /\ CallsOK'
      BY <2>2, <2>4, <3>1, AnswerCall
    <3> QED
      BY <2>2, <3>1, <3>2
  <2>5. CASE UNCHANGED <<calls, committed>>
    BY <2>2, <2>5 DEF CallsOK
  <2> QED
    BY <1>7, <2>3, <2>4, <2>5 DEF InstallFullSnapshot
<1>8. ASSUME NEW t \in 1..MaxTerm, Heartbeat(t) PROVE StreamInv'
  BY <1>8 DEF Heartbeat, sender, CallsOK
<1>9. ASSUME Restart PROVE StreamInv'
  <2>1. NoStream \in [snap : Nat, data : SUBSET Nat]
    BY DEF NoStream
  <2>2. /\ tx' \in [Session -> Tx]
        /\ \A r \in Session : tx'[r].snap = tx[r].snap
        /\ \A r \in Session : tx[r].at # "off" => tx'[r].at # "off"
    BY <1>9 DEF Restart, Tx
  <2>3. calls' \in SUBSET calls /\ UNCHANGED <<reported, committed>> /\ stream' = NoStream
    BY <1>9 DEF Restart
  <2>4. CallsOK'
    BY <2>2, <2>3 DEF CallsOK, Calls
  <2> QED
    BY <2>1, <2>2, <2>3, <2>4
<1>10. CASE UNCHANGED vars
  BY <1>10 DEF vars, sender, follower, CallsOK
<1> QED
  BY <1>1, <1>2, <1>3, <1>4, <1>5, <1>6, <1>7, <1>8, <1>9, <1>10
     DEF Next, Sender, Follower, Beats

\* What send_snapshot reports to its leader as replicated is committed at the
\* follower, whatever leaders, late calls and restarts come between the check
\* of the vote, the receipt of the chunks and the installation.
THEOREM Installed == Spec => []ReportedIsHeld
<1>1. StreamInv => ReportedIsHeld
  BY DEF StreamInv
<1> QED
  BY <1>1, StreamInit, StreamNext, PTL DEF Spec
=============================================================================
