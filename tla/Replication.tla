---------------------------- MODULE Replication ----------------------------
(***************************************************************************)
(* How an openraft leader brings one follower up to date: the progress     *)
(* entry of the follower in the leader's engine (progress/entry,           *)
(* progress/inflight, replication_handler), the replication task and the   *)
(* snapshot transmitter it commands (replication/), the heartbeat worker   *)
(* (core/heartbeat), the purge of the log they read, and the network in    *)
(* between, which may delay or lose a request or its answer.               *)
(*                                                                         *)
(* A log id is written as the number of entries up to and including it, so *)
(* 0 is None and the number is also the next_index() of the code.  The     *)
(* leader never truncates its log.  The follower's log is "match" entries  *)
(* that are the leader's, followed by entries up to "last" that are not.   *)
(***************************************************************************)
EXTENDS Integers, Sequences, FiniteSets

CONSTANTS
    FirstLast, FirstPurged,  \* the leader's log when it is elected
    FollowerLogs,            \* possible [match, last] of the follower then
    MaxPayload,              \* max_payload_entries
    Stride,                  \* the step of the binary search, 16 in the code
    MaxSent,                 \* bound on the leader's log
    Budgets,                 \* bounds: numbers of membership changes, of heartbeats, of
                             \* faults (lost or late answers, higher votes), of times the
                             \* follower loses its data and of calls of allow_next_revert;
                             \* and "reversion", Config::allow_log_reversion
    Partial                  \* whether the network may send a part of a request only

\* Config::validate refuses a max_payload_entries of zero.
ASSUME ReplicationAssumption ==
    /\ FirstPurged \in Nat /\ FirstLast \in Nat /\ FirstPurged <= FirstLast
    /\ MaxPayload \in Nat \ {0} /\ Stride \in Nat \ {0}
    /\ \A l \in FollowerLogs : l.match \in Nat /\ l.last \in Nat /\ l.match <= l.last

VARIABLES
    lead,      \* the leader's log: last, committed, snap(shot), purgeUpto, purged
    entry,     \* ProgressEntry of the follower
    nextId,    \* the last inflight id given out
    core,      \* "run", "join" while RaftCore joins the replication task, "gone"
    session,   \* number of the replication session
    chan,      \* watch channels to the task: data, and whether committed is news
    task,      \* ReplicationCore and its StreamState
    hb,        \* HeartbeatWorker
    snapper,   \* SnapshotTransmitter
    wire,      \* requests on their way to the follower
    notes,     \* notifications on their way to RaftCore
    follower,
    left,      \* what is left of the budget
    panic      \* an unwrap, unreachable! or debug_assert of the code has failed

repVars == <<lead, entry, nextId, core, session, chan, task, hb, snapper, wire, notes,
          follower, left, panic>>

IdleHeartbeat == [pc |-> "idle", matching |-> 0, session |-> 0, answer |-> "none"]
IdleTransmitter == [pc |-> "idle", id |-> 0, log |-> 0, session |-> 0, answer |-> "none"]
NoRange == [prev |-> 0, last |-> -1]
NoAnswer == [kind |-> "none", log |-> 0]

Spend(what) == left[what] > 0 /\ left' = [left EXCEPT ![what] = @ - 1]

Larger(a, b) == IF a > b THEN a ELSE b
Smaller(a, b) == IF a < b THEN a ELSE b

----------------------------------------------------------------------------
(* Inflight: what is being sent to the follower.                            *)

NoInflight == [kind |-> "none"]
InflightLogs(prev, last, id) ==
    IF prev < last THEN [kind |-> "logs", prev |-> prev, last |-> last, id |-> id] ELSE NoInflight
InflightSnapshot(id) == [kind |-> "snapshot", id |-> id]

\* ack: an answer to another request than the present one changes nothing.
Ack(inf, upto, id) ==
    IF inf.kind = "none" \/ inf.id # id THEN inf
    ELSE IF inf.kind = "logs" THEN InflightLogs(upto, inf.last, id) ELSE NoInflight

AckPanics(inf, upto, id) ==
    \/ inf.kind = "none"
    \/ inf.kind = "logs" /\ inf.id = id /\ ~ (upto \in inf.prev .. inf.last)

\* conflict: the request was refused.
ConflictInflight(inf, id) ==
    IF inf.kind = "logs" /\ inf.id = id THEN NoInflight ELSE inf

ConflictPanics(inf, id) == inf.kind = "none" \/ (inf.kind = "snapshot" /\ inf.id = id)

----------------------------------------------------------------------------
(* ProgressEntry.                                                           *)

EmptyEntry(end) ==
    [matching |-> 0, inflight |-> NoInflight, searchingEnd |-> end, allow |-> FALSE]

\* is_log_range_inflight: some entry up to "upto" is being sent.
IsLogRangeInflight(e, upto) == e.inflight.kind = "logs" /\ upto > e.inflight.prev

\* calc_mid: half of the unknown part, in steps.
CalcMid(from, end) == from + ((end - from) \div Stride) * (Stride \div 2)

\* next_send: a snapshot when the entries the follower needs are purged, else
\* entries from the middle of what is not known to match.
NextSend(e, id) ==
    LET start == Larger(CalcMid(e.matching, e.searchingEnd), lead.purgeUpto)
        end == Smaller(start + MaxPayload, lead.last)
    IN  IF e.searchingEnd < lead.purgeUpto THEN InflightSnapshot(id)
        ELSE InflightLogs(start, end, id)

\* update_conflicting, for the entry before the ones sent.  Id 0 is None: the
\* request had no payload.
UpdateConflicting(e, conflict, id) ==
    LET inflight == IF id = 0 THEN e.inflight ELSE ConflictInflight(e.inflight, id)
        end == conflict - 1
        reset == (e.allow \/ left.reversion) /\ end < e.matching
    IN  IF end >= e.searchingEnd THEN [e EXCEPT !.inflight = inflight]
        ELSE [matching |-> IF reset THEN 0 ELSE e.matching,
              inflight |-> inflight,
              searchingEnd |-> end,
              allow |-> e.allow /\ ~reset]

ConflictingPanics(e, conflict, id) ==
    \/ id # 0 /\ ConflictPanics(e.inflight, id)
    \/ /\ conflict - 1 < e.searchingEnd /\ conflict - 1 < e.matching
       /\ ~ (e.allow \/ left.reversion)

\* update_matching.
MatchingUpdated(e, matching, id) ==
    IF id = 0 /\ matching <= e.matching THEN e
    ELSE [e EXCEPT !.inflight = IF id = 0 THEN @ ELSE Ack(@, matching, id),
                   !.matching = matching,
                   !.searchingEnd = Larger(@, matching)]

MatchingPanics(e, matching, id) ==
    id # 0 /\ (AckPanics(e.inflight, matching, id) \/ matching < e.matching)

----------------------------------------------------------------------------
(* RaftCore and the replication handler of its engine.                      *)

\* Mutant: entries are purged while they are being sent.
PurgeInflight(l, e) == [l EXCEPT !.purged = l.purgeUpto]

\* try_purge_log, for the progress entry e: postponed while the entries are
\* being sent.
TryPurgeLog(l, e) ==
    IF l.purgeUpto > l.purged /\ ~ IsLogRangeInflight(e, l.purgeUpto)
    THEN [l EXCEPT !.purged = l.purgeUpto]
    ELSE l

\* update_progress.
UpdateProgress(n) ==
    LET e == CASE n.kind = "matching" -> MatchingUpdated(entry, n.log, n.id)
               [] n.kind = "conflict" -> UpdateConflicting(entry, n.log, n.id)
               [] n.kind = "error"    -> [entry EXCEPT !.inflight = NoInflight]
    IN  /\ entry' = e
        /\ lead' = TryPurgeLog(lead, e)
        /\ panic' = (panic \/ CASE n.kind = "matching" -> MatchingPanics(entry, n.log, n.id)
                                [] n.kind = "conflict" -> ConflictingPanics(entry, n.log, n.id)
                                [] OTHER -> FALSE)

\* Mutant: notifications of all sessions are taken.
AnySession(n) == TRUE

\* does_replication_session_match
SessionMatches(n) == n.session = session

\* A notification is handled; one of an earlier session is dropped, a higher
\* vote ends the leader.
HandleNotification ==
    /\ core = "run" /\ notes # <<>>
    /\ notes' = Tail(notes)
    /\ LET n == Head(notes)
       IN  IF n.kind = "higher"
           THEN core' = "gone" /\ UNCHANGED <<lead, entry, panic>>
           ELSE /\ core' = core
                /\ IF SessionMatches(n) THEN UpdateProgress(n) ELSE UNCHANGED <<lead, entry, panic>>
    /\ UNCHANGED <<nextId, session, chan, task, hb, snapper, wire, follower, left>>

\* Command::ReplicateSnapshot: the transmitter reads the snapshot and sends it.
SnapshotRequest(upto) == [kind |-> "snapshot", prev |-> upto, last |-> upto, commit |-> upto, live |-> TRUE]
SpawnTransmitter(id) ==
    /\ snapper' = [pc |-> "wait", id |-> id, log |-> lead.snap, session |-> session, answer |-> "none"]
    /\ wire' = wire \cup {SnapshotRequest(lead.snap)}

\* initiate_replication and the command it leads to, once the messages at hand
\* are handled.
InitiateReplication ==
    /\ core = "run" /\ entry.inflight = NoInflight
    /\ LET inf == NextSend(entry, nextId + 1)
       IN  /\ inf # NoInflight
           /\ entry' = [entry EXCEPT !.inflight = inf]
           /\ nextId' = nextId + 1
           /\ IF inf.kind = "logs"
              THEN chan' = [chan EXCEPT !.data = inf] /\ UNCHANGED <<snapper, wire>>
              ELSE SpawnTransmitter(nextId + 1) /\ UNCHANGED chan
    /\ UNCHANGED <<lead, core, session, task, hb, notes, follower, left, panic>>

WriteEntry ==
    /\ core = "run" /\ lead.last < MaxSent
    /\ lead' = [lead EXCEPT !.last = @ + 1]
    /\ UNCHANGED <<entry, nextId, core, session, chan, task, hb, snapper, wire, notes, follower, left, panic>>

\* The other nodes make a quorum for the whole log: the commit index moves, and the task is told
\* (Command::ReplicateCommitted).
Commit ==
    /\ core = "run" /\ lead.committed < lead.last
    /\ lead' = [lead EXCEPT !.committed = lead.last]
    /\ chan' = [chan EXCEPT !.news = TRUE]
    /\ UNCHANGED <<entry, nextId, core, session, task, hb, snapper, wire, notes, follower, left, panic>>

BuildSnapshot ==
    /\ core = "run" /\ lead.snap < lead.committed
    /\ lead' = [lead EXCEPT !.snap = lead.committed]
    /\ UNCHANGED <<entry, nextId, core, session, chan, task, hb, snapper, wire, notes, follower, left, panic>>

\* trigger_purge_log: what is in the snapshot may be purged.
TriggerPurgeLog ==
    /\ core = "run" /\ lead.purgeUpto < lead.snap
    /\ lead' = TryPurgeLog([lead EXCEPT !.purgeUpto = lead.snap], entry)
    /\ UNCHANGED <<entry, nextId, core, session, chan, task, hb, snapper, wire, notes, follower, left, panic>>

\* allow_next_revert, for this follower.
AllowNextRevert ==
    /\ core = "run" /\ ~ entry.allow
    /\ Spend("allows")
    /\ entry' = [entry EXCEPT !.allow = TRUE]
    /\ UNCHANGED <<lead, nextId, core, session, chan, task, hb, snapper, wire, notes, follower, panic>>

\* Requests whose sender no longer waits for them may still arrive.
Late(w, kinds) == {IF r.kind \in kinds THEN [r EXCEPT !.live = FALSE] ELSE r : r \in w}

\* rebuild_replication_streams, after a membership was appended: nothing is in
\* flight any more, and RaftCore joins the task before it spawns another one.
RebuildReplicationStreams ==
    /\ core = "run" /\ lead.last < MaxSent
    /\ Spend("changes")
    /\ lead' = [lead EXCEPT !.last = @ + 1]
    /\ session' = session + 1
    /\ entry' = [entry EXCEPT !.inflight = NoInflight]
    /\ core' = "join"
    /\ hb' = IdleHeartbeat
    /\ snapper' = IdleTransmitter
    /\ wire' = Late(wire, {"heartbeat", "snapshot"})
    /\ UNCHANGED <<nextId, chan, task, notes, follower, panic>>

----------------------------------------------------------------------------
(* ReplicationCore.                                                         *)

\* spawn, with empty channels.
NewTask(s, matching, committed) ==
    [pc |-> "idle", id |-> 0, rest |-> NoRange, last |-> 0, answer |-> NoAnswer,
     committed |-> committed, remote |-> matching, session |-> s]

NewChannels == [data |-> NoInflight, news |-> FALSE]

\* remove_all_replication: an idle task ends when its channel is closed.
TaskJoined == core = "join" /\ task.pc = "idle"

SpawnReplicationStream ==
    /\ TaskJoined
    /\ task' = NewTask(session, entry.matching, lead.committed)
    /\ chan' = NewChannels
    /\ core' = "run"
    /\ UNCHANGED <<lead, entry, nextId, session, hb, snapper, wire, notes, follower, left, panic>>

\* One round of the main loop: the range to send is set in the stream state.
StartStream(id, prev, last, committed) ==
    task' = [task EXCEPT !.pc = "read", !.id = id, !.rest = [prev |-> prev, last |-> last],
                         !.last = last, !.committed = committed]

\* EventWatcher::recv, of data.
RecvData ==
    /\ core = "run" /\ task.pc = "idle" /\ chan.data # NoInflight
    /\ StartStream(chan.data.id, chan.data.prev, chan.data.last, task.committed)
    /\ chan' = [chan EXCEPT !.data = NoInflight]
    /\ UNCHANGED <<lead, entry, nextId, core, session, hb, snapper, wire, notes, follower, left, panic>>

\* EventWatcher::recv, of a commit index: an empty request after the last
\* entry known to match, without an inflight id.
RecvCommitted ==
    /\ core # "gone" /\ task.pc = "idle" /\ chan.news
    /\ StartStream(0, task.remote, task.remote, lead.committed)
    /\ chan' = [chan EXCEPT !.news = FALSE]
    /\ UNCHANGED <<lead, entry, nextId, core, session, hb, snapper, wire, notes, follower, left, panic>>

\* read_log_entries: the part of the range that one request carries.
ReadLogEntries(rest) == [prev |-> rest.prev, last |-> Smaller(rest.prev + MaxPayload, rest.last)]

\* update_log_id_range
UpdateLogIdRange(rest, sent) ==
    IF sent.last = rest.last THEN NoRange ELSE [rest EXCEPT !.prev = sent.last]

AppendRequest(sent, commit) ==
    [kind |-> "append", prev |-> sent.prev, last |-> sent.last, commit |-> commit, live |-> TRUE]

\* next_request: the unwrap() of an entry that was purged meanwhile panics.
NextRequest ==
    /\ core # "gone" /\ task.pc = "read"
    /\ LET sent == ReadLogEntries(task.rest)
       IN  /\ panic' = (panic \/ (sent.prev < sent.last /\ sent.prev < lead.purged))
           /\ wire' = wire \cup {AppendRequest(sent, task.committed)}
           /\ task' = [task EXCEPT !.pc = "wait", !.rest = UpdateLogIdRange(@, sent)]
    /\ UNCHANGED <<lead, entry, nextId, core, session, chan, hb, snapper, notes, follower, left>>

Note(kind, log, id, s) == [kind |-> kind, log |-> log, id |-> id, session |-> s]

\* notify_progress: None is no progress.
NotifyProgress(kind, log) ==
    notes' = IF kind = "matching" /\ log = 0 THEN notes
             ELSE Append(notes, Note(kind, log, task.id, task.session))

\* send_progress_error: reported only when a payload is waited for.
SendProgressError ==
    notes' = IF task.id = 0 THEN notes ELSE Append(notes, Note("error", 0, task.id, task.session))

\* The main loop waits for the next event.
Idle(t) == [t EXCEPT !.pc = "idle", !.id = 0, !.rest = NoRange, !.last = 0, !.answer = NoAnswer]

\* When the answers are exhausted, what was not acknowledged is sent again with
\* the same inflight id.
AfterOk(remote) ==
    IF task.rest # NoRange THEN [task EXCEPT !.pc = "read", !.remote = remote, !.answer = NoAnswer]
    ELSE IF task.last > remote
    THEN [task EXCEPT !.pc = "read", !.remote = remote, !.answer = NoAnswer, !.rest = [prev |-> remote, last |-> task.last]]
    ELSE Idle([task EXCEPT !.remote = remote])

\* Mutant: a part is taken for the whole.
HandleResponseWhole ==
    /\ core # "gone" /\ task.pc = "answered"
    /\ NotifyProgress(task.answer.kind, IF task.answer.kind = "matching" THEN task.last ELSE task.answer.log)
    /\ task' = IF task.answer.kind = "matching" THEN AfterOk(task.answer.log) ELSE Idle(task)
    /\ UNCHANGED <<lead, entry, nextId, core, session, chan, hb, snapper, wire, follower, left, panic>>

\* handle_response_stream, of one answer.
HandleResponse ==
    /\ core # "gone" /\ task.pc = "answered"
    /\ NotifyProgress(task.answer.kind, task.answer.log)
    /\ task' = IF task.answer.kind = "matching" THEN AfterOk(task.answer.log)
               ELSE Idle(task)
    /\ UNCHANGED <<lead, entry, nextId, core, session, chan, hb, snapper, wire, follower, left, panic>>

\* The network client gives up: the request or its answer may still be on its
\* way.
RpcError ==
    /\ core # "gone" /\ task.pc \in {"wait", "answered"}
    /\ Spend("faults")
    /\ SendProgressError
    /\ task' = Idle(task)
    /\ wire' = Late(wire, {"append"})
    /\ UNCHANGED <<lead, entry, nextId, core, session, chan, hb, snapper, follower, panic>>

----------------------------------------------------------------------------
(* HeartbeatWorker: what an event in its channel says is fixed when RaftCore *)
(* broadcasts it, so waiting in the channel is waiting on the wire.         *)

HeartbeatRequest(m) == [kind |-> "heartbeat", prev |-> m, last |-> m, commit |-> lead.committed, live |-> TRUE]

BroadcastHeartbeat ==
    /\ core = "run" /\ hb.pc = "idle"
    /\ Spend("beats")
    /\ hb' = [hb EXCEPT !.pc = "wait", !.matching = entry.matching, !.session = session]
    /\ wire' = wire \cup {HeartbeatRequest(entry.matching)}
    /\ UNCHANGED <<lead, entry, nextId, core, session, chan, task, snapper, notes, follower, panic>>

\* Only a conflict and a higher vote are told to RaftCore.
HeartbeatDone ==
    /\ core # "gone" /\ hb.pc = "answered"
    /\ hb' = IdleHeartbeat
    /\ notes' = IF hb.answer = "matching" THEN notes
                ELSE Append(notes, Note(hb.answer, hb.matching, 0, hb.session))
    /\ UNCHANGED <<lead, entry, nextId, core, session, chan, task, snapper, wire, follower, left, panic>>

HeartbeatTimeout ==
    /\ core # "gone" /\ hb.pc \in {"wait", "answered"}
    /\ Spend("faults")
    /\ hb' = IdleHeartbeat
    /\ wire' = Late(wire, {"heartbeat"})
    /\ UNCHANGED <<lead, entry, nextId, core, session, chan, task, snapper, notes, follower, panic>>

----------------------------------------------------------------------------
(* SnapshotTransmitter.                                                     *)

\* send_snapshot, once the snapshot is installed.
SnapshotSent ==
    /\ core # "gone" /\ snapper.pc = "answered"
    /\ snapper' = IdleTransmitter
    /\ notes' = Append(notes, IF snapper.answer = "higher"
                              THEN Note("higher", 0, 0, snapper.session)
                              ELSE Note("matching", snapper.log, snapper.id, snapper.session))
    /\ UNCHANGED <<lead, entry, nextId, core, session, chan, task, hb, wire, follower, left, panic>>

\* stream_snapshot: after an error the snapshot is read and sent again.
SnapshotRetry ==
    /\ core # "gone" /\ snapper.pc \in {"wait", "answered"}
    /\ Spend("faults")
    /\ snapper' = [snapper EXCEPT !.pc = "wait", !.log = lead.snap]
    /\ wire' = Late(wire, {"snapshot"}) \cup {SnapshotRequest(lead.snap)}
    /\ UNCHANGED <<lead, entry, nextId, core, session, chan, task, hb, notes, follower, panic>>

----------------------------------------------------------------------------
(* The follower, as the other modules have it.                              *)

\* append_entries: the entries after "prev" replace what does not match them.
FollowerAppend(f, r) ==
    LET new == r.last > f.match
        upto == Larger(f.committed, Smaller(r.commit, r.last))
    IN  [f EXCEPT !.match = Larger(@, r.last), !.last = IF new THEN r.last ELSE @,
                  !.committed = upto]

\* install_full_snapshot: a log that conflicts with the snapshot is dropped.
FollowerInstall(f, r) ==
    IF r.last <= f.committed THEN f
    ELSE [f EXCEPT !.match = Larger(@, r.last), !.last = IF r.last > f.match THEN r.last ELSE @,
                   !.committed = r.last]

Answer(f, r) == IF f.higher THEN "higher"
                ELSE IF r.kind # "snapshot" /\ r.prev > f.match THEN "conflict" ELSE "matching"

Handled(f, r) == IF Answer(f, r) # "matching" THEN f
                 ELSE IF r.kind = "snapshot" THEN FollowerInstall(f, r) ELSE FollowerAppend(f, r)

\* The answer reaches the sender if it still waits for it.
Answered(r, a) ==
    /\ task' = IF r.live /\ r.kind = "append"
               THEN [task EXCEPT !.pc = "answered",
                        !.answer = [kind |-> a, log |-> IF a = "conflict" THEN r.prev ELSE r.last]]
               ELSE task
    /\ hb' = IF r.live /\ r.kind = "heartbeat" THEN [hb EXCEPT !.pc = "answered", !.answer = a] ELSE hb
    /\ snapper' = IF r.live /\ r.kind = "snapshot"
                  THEN [snapper EXCEPT !.pc = "answered", !.answer = a] ELSE snapper

Deliver ==
    /\ core # "gone"
    /\ \E r \in wire :
         /\ follower' = Handled(follower, r)
         /\ Answered(r, Answer(follower, r))
         /\ wire' = wire \ {r}
    /\ UNCHANGED <<lead, entry, nextId, core, session, chan, notes, left, panic>>

\* PartialSuccess: the network client sent the first entries only.
DeliverPart ==
    /\ core # "gone" /\ Partial
    /\ Spend("faults")
    /\ \E r \in wire : \E upto \in r.prev .. r.last - 1 :
         LET part == [r EXCEPT !.last = upto]
         IN  /\ r.kind = "append" /\ r.live
             /\ follower' = Handled(follower, part)
             /\ Answered(part, Answer(follower, part))
             /\ wire' = wire \ {r}
    /\ UNCHANGED <<lead, entry, nextId, core, session, chan, notes, panic>>

\* The follower takes part in a later election.
FollowerVotes ==
    /\ core # "gone" /\ ~ follower.higher
    /\ Spend("faults")
    /\ follower' = [follower EXCEPT !.higher = TRUE]
    /\ UNCHANGED <<lead, entry, nextId, core, session, chan, task, hb, snapper, wire, notes, panic>>

\* The follower restarts without its data, which the operator allowed.
Wipe ==
    /\ core # "gone" /\ (entry.allow \/ left.reversion)
    /\ Spend("wipes")
    /\ follower' = [follower EXCEPT !.match = 0, !.last = 0, !.committed = 0, !.wiped = TRUE]
    /\ UNCHANGED <<lead, entry, nextId, core, session, chan, task, hb, snapper, wire, notes, panic>>

----------------------------------------------------------------------------
\* Leader::new and establish_leader: nothing is known of the follower, and a
\* blank entry follows the log.
ReplicationInit ==
    /\ lead = [last |-> FirstLast + 1, committed |-> FirstPurged, snap |-> FirstPurged,
               purgeUpto |-> FirstPurged, purged |-> FirstPurged]
    /\ entry = EmptyEntry(FirstLast)
    /\ nextId = 0 /\ core = "run" /\ session = 1
    /\ chan = NewChannels
    /\ task = NewTask(1, 0, FirstPurged)
    /\ hb = IdleHeartbeat /\ snapper = IdleTransmitter
    /\ wire = {} /\ notes = <<>>
    /\ \E l \in FollowerLogs :
         follower = [match |-> l.match, last |-> l.last, committed |-> 0,
                     higher |-> FALSE, wiped |-> FALSE]
    /\ left \in Budgets /\ panic = FALSE

ReplicationNext ==
    \/ HandleNotification \/ InitiateReplication
    \/ WriteEntry \/ Commit \/ BuildSnapshot \/ TriggerPurgeLog \/ AllowNextRevert
    \/ RebuildReplicationStreams \/ SpawnReplicationStream
    \/ RecvData \/ RecvCommitted \/ NextRequest \/ HandleResponse \/ RpcError
    \/ BroadcastHeartbeat \/ HeartbeatDone \/ HeartbeatTimeout
    \/ SnapshotSent \/ SnapshotRetry
    \/ Deliver \/ DeliverPart \/ FollowerVotes \/ Wipe

ReplicationSpec == ReplicationInit /\ [][ReplicationNext]_repVars

----------------------------------------------------------------------------
\* The indexes of the leader's log are ordered, and a task waits for an answer
\* exactly when its request is on the wire.
ReplicationTypeOK ==
    /\ lead.purged <= lead.purgeUpto /\ lead.purgeUpto <= lead.snap
    /\ lead.snap <= lead.committed /\ lead.committed <= lead.last
    /\ entry.matching \in 0 .. lead.last /\ entry.searchingEnd \in -1 .. lead.last
    /\ follower.committed <= follower.match /\ follower.match <= follower.last
    /\ task.pc = "wait" <=> \E r \in wire : r.kind = "append" /\ r.live

\* The leader counts entries as replicated only if the follower holds them:
\* whatever requests and answers are delayed, lost or out of order, what the
\* progress says of a follower that lost no data is true.
MatchingIsHeld == ~ follower.wiped => entry.matching <= follower.match

\* No unwrap, unreachable! or debug_assert of progress/, replication/ and
\* replication_handler fails, whatever answers come late, twice or for an
\* older session, as long as the follower keeps its data.
NoPanicIntact == follower.wiped \/ ~ panic

\* The entries in flight are still in the log, and the one before the first of
\* them has an id.
InflightInLog ==
    core = "run" /\ entry.inflight.kind = "logs" => entry.inflight.prev >= lead.purged
=============================================================================
