--------------------------- MODULE SnapshotStream ---------------------------
(***************************************************************************)
(* A snapshot on its way from a leader to a follower in chunks             *)
(* (Chunked::send_snapshot, receive_snapshot), over HTTP calls that time   *)
(* out.  A call that its sender has given up may still reach the follower, *)
(* late and after other calls.  Every node cuts the snapshot of an id in   *)
(* the same chunks, so a chunk is its position.                            *)
(***************************************************************************)
EXTENDS Naturals

CONSTANTS
  MaxTerm,      \* votes of leaders are 1..MaxTerm
  MaxSnap,      \* snapshots, by the index they reach, are 1..MaxSnap
  LastChunk,    \* the chunks of a snapshot are 0..LastChunk
  MaxSession,   \* bound on transmitters spawned
  MaxFaults,    \* bound on calls given up and on restarts of the follower
  MaxLate       \* bound on calls that outlive their sender's patience

NoStream == [snap |-> 0, data |-> {}]
Whole    == 0..LastChunk
Session  == 1..MaxSession

VARIABLES
  tx,         \* the transmitters, one after another
  calls,      \* HTTP calls under way
  late,       \* calls that were given up and not lost
  faults,
  vote,       \* follower: its vote
  stream,     \* follower: RaftInner.snapshot, the chunks received
  committed,  \* follower: committed index
  alive,      \* follower: RaftCore has not ended with a storage error
  reported    \* highest snapshot index a leader took for installed

sender   == <<tx, reported>>
follower == <<vote, stream, committed, alive>>
vars     == <<sender, calls, late, faults, follower>>

Call(s, o, live) ==
  [tx |-> s, offset |-> o, live |-> live, at |-> "sent", data |-> {}]

Init ==
  /\ tx = [s \in Session |-> [at |-> "off", vote |-> 0, snap |-> 0, offset |-> 0, cancel |-> FALSE]]
  /\ calls = {} /\ late = 0 /\ faults = 0
  /\ vote = 1 /\ stream = NoStream /\ committed = 0 /\ alive = TRUE
  /\ reported = 0

Replace(c, d) == calls' = (calls \ {c}) \cup {d}

\* The call ends with an answer; nobody takes it if the sender has given up.
\* An answer has a vote, and all the sender looks at is whether it is greater
\* than its own: "refused".
Answer(c, res) ==
  calls' = (calls \ {c}) \cup IF c.live THEN {[c EXCEPT !.at = res]} ELSE {}
----------------------------------------------------------------------------
(* The leader.                                                             *)

\* SnapshotTransmitter::spawn with the current snapshot of the leader of
\* term t.  Its previous transmitter is cancelled.  Leaders do not go back
\* to an older snapshot; the leader of another term may have an older one.
Spawn(t, n) ==
  \E s \in Session :
    /\ tx[s].at = "off" /\ \A r \in Session : r < s => tx[r].at # "off"
    /\ \A r \in Session : tx[r].at # "off" /\ tx[r].vote = t => tx[r].snap <= n
    /\ tx' = [r \in Session |->
               IF r = s THEN [at |-> "ready", vote |-> t, snap |-> n, offset |-> 0, cancel |-> FALSE]
               ELSE IF tx[r].vote = t THEN [tx[r] EXCEPT !.cancel = TRUE] ELSE tx[r]]
    /\ UNCHANGED <<reported, calls, late, faults, follower>>

\* The top of the loop of send_snapshot: leave if cancelled, or send the chunk
\* at the offset.
SendChunk(s) ==
  /\ tx[s].at = "ready"
  /\ IF tx[s].cancel
     THEN tx' = [tx EXCEPT ![s].at = "stopped"] /\ UNCHANGED calls
     ELSE /\ tx' = [tx EXCEPT ![s].at = "waiting"]
          /\ calls' = calls \cup {Call(s, tx[s].offset, TRUE)}
  /\ UNCHANGED <<reported, late, faults, follower>>

\* hard_ttl passes, or the connection fails: the same chunk is sent again.
\* The call is lost, or goes on without anybody to take its answer.
GiveUp(c) ==
  /\ c.live /\ faults < MaxFaults
  /\ tx' = [tx EXCEPT ![c.tx].at = "ready"]
  /\ faults' = faults + 1
  /\ \/ calls' = calls \ {c} /\ UNCHANGED late
     \/ /\ late < MaxLate /\ late' = late + 1
        /\ Replace(c, [c EXCEPT !.live = FALSE])
  /\ UNCHANGED <<reported, follower>>

\* A mutant: a mismatch keeps the offset.
RecvAnswerKeeps(c) ==
  LET held  == c.at = "ok" /\ c.offset = LastChunk
      ended == held \/ c.at = "refused"
  IN /\ c.live /\ c.at \in {"ok", "refused", "mismatch"}
     /\ calls' = calls \ {c}
     /\ tx' = [tx EXCEPT
          ![c.tx].at = IF ended THEN "stopped" ELSE "ready",
          ![c.tx].offset = IF ended \/ c.at = "mismatch" THEN @ ELSE @ + 1]
     /\ reported' = IF held /\ tx[c.tx].snap > reported THEN tx[c.tx].snap ELSE reported
     /\ UNCHANGED <<late, faults, follower>>

\* The answer, as send_snapshot and its caller take it: SnapshotMismatch
\* starts again from 0; a greater vote ends it; the last chunk ends it and
\* is reported as replicated.
RecvAnswer(c) ==
  LET t     == tx[c.tx]
      held  == c.at = "ok" /\ c.offset = LastChunk
      ended == held \/ c.at = "refused"
  IN /\ c.live /\ c.at \in {"ok", "refused", "mismatch"}
     /\ calls' = calls \ {c}
     /\ tx' = [tx EXCEPT
          ![c.tx].at = IF ended THEN "stopped" ELSE "ready",
          ![c.tx].offset = IF c.at = "mismatch" THEN 0 ELSE IF ended THEN @ ELSE @ + 1]
     /\ reported' = IF held /\ t.snap > reported THEN t.snap ELSE reported
     /\ UNCHANGED <<late, faults, follower>>
----------------------------------------------------------------------------
(* The follower: Raft::install_snapshot.                                   *)

\* The vote is read from RaftCore; a chunk of an older leader goes no
\* further.
CheckVote(c) ==
  /\ c.at = "sent" /\ alive
  /\ IF tx[c.tx].vote >= vote THEN Replace(c, [c EXCEPT !.at = "checked"])
     ELSE Answer(c, "refused")
  /\ UNCHANGED <<sender, late, faults, follower>>

\* receive_snapshot under the lock: the chunk goes to the stream of its
\* snapshot, which the first chunk starts; the last one takes the stream.
ReceiveSnapshot(c) ==
  LET snap == tx[c.tx].snap
      old  == IF stream.snap = snap THEN stream ELSE [snap |-> snap, data |-> {}]
      new  == [old EXCEPT !.data = @ \cup {c.offset}]
  IN /\ c.at = "checked" /\ alive
     /\ IF stream.snap # snap /\ c.offset # 0
        THEN Answer(c, "mismatch") /\ UNCHANGED stream
        ELSE IF c.offset = LastChunk
        THEN Replace(c, [c EXCEPT !.at = "full", !.data = new.data]) /\ stream' = NoStream
        ELSE Answer(c, "ok") /\ stream' = new
     /\ UNCHANGED <<sender, late, faults, vote, committed, alive>>

\* A mutant: the answer has the vote read before the chunk was received.
InstallStaleAnswer(c) ==
  LET t == tx[c.tx]
  IN /\ c.at = "full" /\ alive
     /\ Answer(c, "ok")
     /\ IF t.vote >= vote /\ (t.snap <= committed \/ c.data = Whole)
        THEN vote' = t.vote /\ committed' = IF t.snap > committed THEN t.snap ELSE committed
        ELSE UNCHANGED <<vote, committed>>
     /\ UNCHANGED <<sender, late, faults, stream, alive>>

\* install_full_snapshot: RaftCore looks at the vote again and installs what
\* is ahead of its commit; it answers when the snapshot is in place.  Data
\* with a hole is not JSON: install_snapshot fails and RaftCore with it.
InstallFullSnapshot(c) ==
  LET t == tx[c.tx]
  IN /\ c.at = "full" /\ alive
     /\ \/ /\ t.vote < vote
           /\ Answer(c, "refused")
           /\ UNCHANGED <<vote, committed, alive>>
        \/ /\ t.vote >= vote /\ (t.snap <= committed \/ c.data = Whole)
           /\ vote' = t.vote /\ committed' = IF t.snap > committed THEN t.snap ELSE committed
           /\ Answer(c, "ok")
           /\ UNCHANGED alive
        \/ /\ t.vote >= vote /\ t.snap > committed /\ c.data # Whole
           /\ vote' = t.vote /\ alive' = FALSE
           /\ UNCHANGED <<calls, committed>>
     /\ UNCHANGED <<sender, late, faults, stream>>

\* A heartbeat of the leader of term t.
Heartbeat(t) ==
  /\ alive /\ t > vote /\ vote' = t
  /\ \E s \in Session : tx[s].vote >= t
  /\ UNCHANGED <<sender, calls, late, faults, stream, committed, alive>>

\* The stream is in memory, the vote and the snapshot are on disk; the calls
\* that had arrived fail.
Restart ==
  /\ alive /\ faults < MaxFaults /\ faults' = faults + 1
  /\ stream' = NoStream
  /\ calls' = {c \in calls : c.at = "sent"}
  /\ tx' = [s \in Session |->
             IF \E c \in calls \ calls' : c.tx = s /\ c.live THEN [tx[s] EXCEPT !.at = "ready"]
             ELSE tx[s]]
  /\ UNCHANGED <<reported, late, vote, committed, alive>>
----------------------------------------------------------------------------
Follower == \E c \in calls : CheckVote(c) \/ ReceiveSnapshot(c) \/ InstallFullSnapshot(c)
Sender == (\E s \in Session : SendChunk(s)) \/ (\E c \in calls : RecvAnswer(c))
Beats == \E t \in 1..MaxTerm : Heartbeat(t)

Next ==
  \/ Sender \/ Follower \/ Beats \/ Restart
  \/ \E t \in 1..MaxTerm, n \in 1..MaxSnap : Spawn(t, n)
  \/ \E c \in calls : GiveUp(c)

\* Tasks that can run are polled, calls are answered when nothing fails, and
\* the newest leader's heartbeats arrive.
Fairness ==
  /\ WF_vars(Beats)
  /\ \A s \in Session :
       /\ WF_vars(SendChunk(s))
       /\ WF_vars(\E c \in calls : c.tx = s /\ RecvAnswer(c))
       /\ WF_vars(\E c \in calls : c.tx = s /\ (CheckVote(c) \/ ReceiveSnapshot(c) \/ InstallFullSnapshot(c)))

Spec == Init /\ [][Next]_vars /\ Fairness
----------------------------------------------------------------------------
\* A leader that takes a snapshot for replicated, and counts it towards a
\* commit, is right: the follower has committed that far.  The vote is read,
\* the chunk received and the snapshot installed in separate steps, between
\* which another leader may take over.
ReportedIsHeld == reported <= committed

\* A transmitter ends: two streams that take the follower's only slot from
\* each other do not do so for ever, and no answer is waited for in vain.
\* (A follower that is dead is called again for ever.)
TransmitEnds ==
  \A s \in Session : tx[s].at \in {"ready", "waiting"} ~> (tx[s].at = "stopped" \/ ~alive)
=============================================================================
