-------------------------------- MODULE Node --------------------------------
(***************************************************************************)
(* One kv-store node that follows: the engine and the command queue of     *)
(* openraft's RaftCore, the state machine worker that drives               *)
(* StateMachineStore, the snapshot builder task, the database, and the     *)
(* death and restart of the process.  (LogStore looks at power losses.)    *)
(*                                                                         *)
(* RaftCore, the worker and the builder are tasks of one single-threaded   *)
(* runtime: they interleave at awaits.  RaftCore handles a message, runs   *)
(* the commands the engine queued until one must wait, and goes on to the  *)
(* next message.  The worker takes its commands in order and may yield     *)
(* before each entry it applies, because kvs is locked by HTTP readers.    *)
(*                                                                         *)
(* The rest of the cluster is what it may send: the leader of term t owns  *)
(* the log LeaderLog[t] and has committed it up to Committed[t].  That and *)
(* the node's configuration are a setting, chosen once per behaviour.      *)
(***************************************************************************)
EXTENDS Storage, Sequences, SequencesExt, FiniteSets

CONSTANTS
  Key, Value,   \* keys and values of the store
  NoValue,      \* a key that is absent from the map
  Keep,         \* config.max_in_snapshot_log_to_keep
  Settings      \* records with the fields
                \*   logs       per term, the terms of its leader's entries
                \*   committed  per term, the highest index its leader commits
                \*   ops        the payload of the entry of a term at an index
                \*   threshold  snapshot_policy: LogsSinceLast(threshold)
                \*   installs   which snapshots leaders send: "none" or "fresh"

VARIABLE setting

LeaderLog == setting.logs
Committed == setting.committed
Op        == setting.ops

MaxTerm  == Len(LeaderLog)
Term     == 1..MaxTerm
Chosen   == SubSeq(LeaderLog[MaxTerm], 1, Committed[MaxTerm])
ChosenId(i) == IF i = 0 THEN NoLogId ELSE [term |-> Chosen[i], index |-> i]
IdOf(t, i)  == IF i = 0 THEN NoLogId ELSE [term |-> LeaderLog[t][i], index |-> i]

\* What Raft gives: the terms of a log ascend up to its leader's, leaders'
\* logs match, and a leader has every entry an earlier leader committed.
ASSUME RaftAssumption ==
  \A s \in Settings :
    /\ s.logs \in Seq(Seq(Nat)) /\ s.logs # <<>>
    /\ s.committed \in Seq(Nat) /\ Len(s.committed) = Len(s.logs)
    /\ s.threshold \in Nat
    /\ \A t \in 1..Len(s.logs) :
         LET T == s.logs[t]
         IN /\ s.committed[t] <= Len(T)
            /\ \A i \in 1..Len(T) : T[i] \in 1..t /\ \A j \in 1..i : T[j] <= T[i]
    /\ \A t, u \in 1..Len(s.logs) :
         LET T == s.logs[t]
             U == s.logs[u]
         IN /\ \A i \in 1..Len(T) \cap 1..Len(U) :
                 T[i] = U[i] => \A j \in 1..i : T[j] = U[j]
            /\ t < u => /\ s.committed[t] <= s.committed[u]
                        /\ \A j \in 1..s.committed[t] : T[j] = U[j]

ASSUME KeepAssumption == Keep \in Nat

VARIABLES
  up,       \* is the process running?
  db,       \* the database; a snapshot is its fields snap, kvs and mem
  rs,       \* RaftState and IOState of the engine
  cmds,     \* engine.output: the queue of commands
  inflight, \* log IOs whose LocalIO notification is still to come, and who sends it
  smq,      \* commands sent to the state machine worker
  batch,    \* entries the worker has read and not yet applied
  sm,       \* StateMachineData: last_applied_log_id, last_membership, kvs
  builder,  \* snapshot builder tasks: the log id and membership each holds
  notes     \* notifications of the worker and the builder

vars == <<up, db, rs, cmds, inflight, smq, batch, sm, builder, notes>>

NoKvs == [k \in Key |-> NoValue]
IOId(v, id) == [vote |-> v, id |-> id]
IOLt(a, b) == \/ a.vote < b.vote
              \/ a.vote = b.vote /\ LogIdLt(a.id, b.id)
MaxId(a, b) == IF LogIdLt(a, b) THEN b ELSE a
MinId(a, b) == IF LogIdLt(a, b) THEN a ELSE b

\* The effect of one entry on the map and on last_membership.
ApplyOp(kvs, id) ==
  LET op == Op[id.term][id.index]
  IN CASE op.k = "Put" -> [kvs EXCEPT ![op.key] = op.val]
       [] op.k = "Del" -> [kvs EXCEPT ![op.key] = NoValue]
       [] OTHER        -> kvs
IsMembership(id) == Op[id.term][id.index].k = "Membership"
MemOp(mem, id) == IF IsMembership(id) THEN id ELSE mem

\* try_get_log_entries: the iterator goes up the indexes, and takes the
\* entries of the range that are there.
TryGetLogEntries(d, first, last) ==
  LET read[i \in (first - 1)..last] ==
        CASE i < first -> <<>>
          [] i >= first /\ i \in DOMAIN d.log ->
               Append(read[i - 1], [term |-> d.log[i], index |-> i])
          [] OTHER -> read[i - 1]
  IN IF last < first THEN <<>> ELSE read[last]

\* get_current_snapshot_ and set_current_snapshot_: one key holds the log id,
\* the membership and the map.
CurrentSnapshot(d) == [snap |-> d.snap, mem |-> d.mem, kvs |-> d.kvs]
SetCurrentSnapshot(d, s) == [d EXCEPT !.snap = s.snap, !.mem = s.mem, !.kvs = s.kvs]

\* update_state_machine_: StateMachineData after loading a snapshot.
StateOf(s) == [applied |-> s.snap, mem |-> s.mem, kvs |-> s.kvs]

\* The map and the membership after the first i entries of the chosen log.
StateAt[i \in 0..Len(Chosen)] ==
  IF i = 0 THEN NoKvs ELSE ApplyOp(StateAt[i - 1], ChosenId(i))
MemAt[i \in 0..Len(Chosen)] ==
  IF i = 0 THEN NoLogId ELSE MemOp(MemAt[i - 1], ChosenId(i))
----------------------------------------------------------------------------
(* The engine.  e is the pair of its state and the commands it has queued. *)

Push(e, c) == [e EXCEPT !.cmds = Append(@, c)]

\* log_ids: ids maps the last purged index and every later one to its term.
LastId(r) == IF DOMAIN r.ids = {} THEN NoLogId
             ELSE LET i == CHOOSE i \in DOMAIN r.ids : \A j \in DOMAIN r.ids : j <= i
                  IN [term |-> r.ids[i], index |-> i]

\* A mutant: the term of the local entry is not compared.
HasLogIndex(r, id) == id.index <= r.applyAcc.index \/ id.index \in DOMAIN r.ids

HasLogId(r, id) == \/ id.index <= r.applyAcc.index
                   \/ id.index \in DOMAIN r.ids /\ r.ids[id.index] = id.term

\* A mutant: a purge across the last log id leaves no log id.
PurgeIdsEmpty(r, upto) ==
  [r EXCEPT !.purged = upto.index,
            !.ids = Restrict(r.ids, {i \in DOMAIN r.ids : i >= upto.index})]

\* LogIdList::purge with purged_next: across the last log id it leaves upto.
PurgeIds(r, upto) ==
  [r EXCEPT !.purged = upto.index,
            !.ids = IF upto.index > LastId(r).index
                    THEN [i \in {upto.index} |-> upto.term]
                    ELSE Restrict(r.ids, {i \in DOMAIN r.ids : i >= upto.index})]

AcceptLogIO(e, io) == IF IOLt(e.rs.logAcc, io) THEN [e EXCEPT !.rs.logAcc = io] ELSE e

\* A mutant: an equal vote is saved again.
UpdateVoteAlways(e, t) ==
  IF t >= e.rs.vote
  THEN Push(AcceptLogIO([e EXCEPT !.rs.vote = t], IOId(t, NoLogId)),
            [op |-> "SaveVote", vote |-> t])
  ELSE e

UpdateVote(e, t) ==
  IF t > e.rs.vote
  THEN Push(AcceptLogIO([e EXCEPT !.rs.vote = t], IOId(t, NoLogId)),
            [op |-> "SaveVote", vote |-> t])
  ELSE e

(* MembershipState: the membership in effect is the last one in the log,   *)
(* committed or not, and the one before it is kept to go back to.          *)

\* Membership entries are told by their log ids; the last two of a sequence.
LastTwoMemberships(ids) ==
  LET ms == SelectSeq(ids, IsMembership)
  IN SubSeq(ms, IF Len(ms) > 2 THEN Len(ms) - 1 ELSE 1, Len(ms))

\* append, once per membership found.
AppendMembership(r, ms) ==
  CASE ms = <<>>   -> r
    [] Len(ms) = 1 -> [r EXCEPT !.memCommitted = r.memEffective, !.memEffective = ms[1]]
    [] OTHER       -> [r EXCEPT !.memCommitted = ms[1], !.memEffective = ms[2]]

\* A mutant: the membership of a truncated entry stays in effect.
TruncateMembershipKept(r, since) == r

TruncateMembership(r, since) ==
  IF since <= r.memEffective.index THEN [r EXCEPT !.memEffective = r.memCommitted] ELSE r

\* commit
CommitMembership(r, id) ==
  IF LogIdLt(id, r.memEffective) THEN r ELSE [r EXCEPT !.memCommitted = r.memEffective]

\* update_committed with the membership of a snapshot, compared by index.
UpdateMembership(r, m) ==
  [r EXCEPT !.memEffective = IF m.index >= @.index THEN m ELSE @,
            !.memCommitted = MaxId(@, m)]

TruncateLogs(e, since) ==
  LET cut == [e.rs EXCEPT !.ids = Restrict(e.rs.ids, {i \in DOMAIN e.rs.ids : i < since})]
  IN IF since \in DOMAIN e.rs.ids
     THEN Push([e EXCEPT !.rs = TruncateMembership(cut, since)],
               [op |-> "TruncateLog", since |-> since])
     ELSE e

\* FollowingHandler::append_entries of the leader's entries prev+1..last.
FollowAppend(e, t, prev, last) ==
  LET io    == IOId(t, MaxId(IdOf(t, prev), IF last > prev THEN IdOf(t, last) ELSE NoLogId))
      e1    == AcceptLogIO(e, io)
      fresh == {i \in (prev + 1)..last : ~HasLogId(e1.rs, IdOf(t, i))}
      since == CHOOSE i \in fresh : \A j \in fresh : i <= j
      e2    == TruncateLogs(e1, since)
      ids   == e2.rs.ids
      r     == [e2.rs EXCEPT !.ids = [i \in DOMAIN ids \cup since..last |->
                                        IF i >= since THEN LeaderLog[t][i] ELSE ids[i]]]
  IN CASE fresh # {} ->
            Push([e2 EXCEPT !.rs = AppendMembership(r,
                    LastTwoMemberships([n \in 1..(last - since + 1) |-> IdOf(t, since + n - 1)]))],
                 [op |-> "AppendEntries", vote |-> t, base |-> since - 1,
                  es |-> SubSeq(LeaderLog[t], since, last)])
       [] fresh = {} /\ IOLt(e.rs.logAcc, io) ->
            Push(e1, [op |-> "UpdateIOProgress", when |-> e.rs.logAcc, io |-> io])
       [] OTHER -> e1

\* Engine::append_entries: a stale vote, or a prev that does not match, ends it.
EngineAppend(e, t, prev, last) ==
  LET e1 == UpdateVote(e, t)
  IN CASE t < e.rs.vote -> e
       [] t >= e.rs.vote /\ prev > 0 /\ ~HasLogId(e1.rs, IdOf(t, prev)) -> TruncateLogs(e1, prev)
       [] OTHER -> FollowAppend(e1, t, prev, last)

\* RaftState::update_committed with the leader's commit index.
UpdateCommitted(e, io) ==
  LET cc    == IF IOLt(e.rs.clusterCommitted, io) THEN io ELSE e.rs.clusterCommitted
      local == IF e.rs.logAcc.vote >= cc.vote THEN MinId(e.rs.logAcc.id, cc.id) ELSE NoLogId
      e1 == [e EXCEPT !.rs.clusterCommitted = cc]
  IN IF LogIdLt(e.rs.applyAcc, local)
     THEN [e1 EXCEPT !.rs = CommitMembership([e1.rs EXCEPT !.applyAcc = local], local)]
     ELSE e1

\* A snapshot at or before committed, or not newer than the last, is ignored.
InstallNeeded(r, id) == LogIdLt(r.applyAcc, id) /\ LogIdLt(r.snap, id)

\* FollowingHandler::install_full_snapshot and LogHandler::purge_log.
EngineInstall(e, t, snap) ==
  LET e1 == UpdateVote(e, t)
      id == snap.snap
      e2 == [e1 EXCEPT !.rs.snap = id]
      conflict == id.index \in DOMAIN e2.rs.ids /\ e2.rs.ids[id.index] # id.term
      e3 == IF conflict THEN TruncateLogs(e2, e2.rs.applyAcc.index + 1) ELSE e2
      e4 == AcceptLogIO(e3, IOId(t, id))
      e5 == Push([e4 EXCEPT !.rs = UpdateMembership([e4.rs EXCEPT !.applyAcc = id], snap.mem)],
                 [op |-> "InstallFullSnapshot", snap |-> snap, io |-> IOId(t, id)])
  IN IF InstallNeeded(e1.rs, id)
     THEN Push([e5 EXCEPT !.rs = PurgeIds(@, id)], [op |-> "PurgeLog", upto |-> id])
     ELSE e1

\* LogHandler::calc_purge_upto, update_purge_upto and purge_log.
PolicyPurge(e) ==
  LET end == e.rs.snap.index - Keep
  IN IF e.rs.purged + 1 <= end
     THEN Push([e EXCEPT !.rs = PurgeIds(@, [term |-> e.rs.ids[end], index |-> end])],
               [op |-> "PurgeLog", upto |-> [term |-> e.rs.ids[end], index |-> end]])
     ELSE e

\* A mutant: building_snapshot is reset only when the snapshot is newer.
BuildingSnapshotUpdated(e, id) ==
  IF LogIdLt(e.rs.snap, id)
  THEN PolicyPurge([e EXCEPT !.rs.building = FALSE, !.rs.snapFlushed = MaxId(@, id),
                             !.rs.snap = id])
  ELSE e

\* Engine::on_building_snapshot_done.
BuildingSnapshotDone(e, id) ==
  LET e1 == [e EXCEPT !.rs.building = FALSE, !.rs.snapFlushed = MaxId(@, id)]
  IN IF LogIdLt(e.rs.snap, id) THEN PolicyPurge([e1 EXCEPT !.rs.snap = id]) ELSE e1

\* SnapshotHandler::trigger_snapshot: one build at a time.
QueueBuild(e) ==
  IF e.rs.building THEN e
  ELSE Push([e EXCEPT !.rs.building = TRUE], [op |-> "BuildSnapshot"])

Engine == [rs |-> rs, cmds |-> cmds]
SetEngine(e) == rs' = e.rs /\ cmds' = e.cmds
----------------------------------------------------------------------------
(* RaftCore: the commands at the head of the queue.                        *)

\* sm::Handle::send, and the response that comes back.
Send(c) == smq' = Append(smq, c)
Respond(r) == notes' = Append(notes, r)

\* Command::condition: what a command waits for.
Ready(c) ==
  CASE c.op = "PurgeLog"         -> ~LogIdLt(rs.snapFlushed, c.upto)
    [] c.op = "UpdateIOProgress" -> ~IOLt(rs.logFlushed, c.when)
    [] OTHER                     -> TRUE

Runnable == cmds # <<>> /\ Ready(Head(cmds))

\* next_progress_driven_command.
ApplyUpto == MinId(rs.logSub.id, rs.applyAcc)
Applicable == rs.logSub.vote = rs.logAcc.vote /\ rs.applySub.index < ApplyUpto.index

Idle == up /\ ~Runnable /\ ~Applicable

\* RaftCore sends a notification itself, or gives a callback to the log store.
FromCore(io)  == [io |-> io, flush |-> FALSE]
FromFlush(io) == [io |-> io, flush |-> TRUE]

\* Callbacks write to a watch channel, which keeps the last value: what
\* reports of other flushes may be lost when that of n is read.
Overwritten(n) == {lost \in SUBSET (inflight \ {n}) : \A m \in lost : m.flush /\ n.flush}

SaveVote ==
  /\ up /\ Runnable
  /\ Head(cmds).op = "SaveVote"
  /\ db' = PutVote(db, Head(cmds).vote)
  /\ rs' = [rs EXCEPT !.logSub = IOId(Head(cmds).vote, NoLogId)]
  /\ inflight' = inflight \cup {FromCore(IOId(Head(cmds).vote, NoLogId))}
  /\ cmds' = Tail(cmds)
  /\ UNCHANGED <<up, smq, batch, sm, builder, notes>>

TruncateLog ==
  /\ up /\ Runnable
  /\ Head(cmds).op = "TruncateLog"
  /\ db' = DeleteFrom(db, Head(cmds).since)
  /\ cmds' = Tail(cmds)
  /\ UNCHANGED <<up, rs, inflight, smq, batch, sm, builder, notes>>

AppendEntries ==
  LET c  == Head(cmds)
      io == IOId(c.vote, [term |-> c.es[Len(c.es)], index |-> c.base + Len(c.es)])
  IN /\ up /\ Runnable
     /\ c.op = "AppendEntries"
     /\ db' = PutEntries(db, c.base, c.es, Len(c.es))
     /\ rs' = [rs EXCEPT !.logSub = io]
     /\ inflight' = inflight \cup {FromFlush(io)}
     /\ cmds' = Tail(cmds)
     /\ UNCHANGED <<up, smq, batch, sm, builder, notes>>

\* A mutant: the notification is sent, the IO is not marked as submitted.
NotifyIOProgress ==
  /\ up /\ Runnable
  /\ Head(cmds).op = "UpdateIOProgress"
  /\ inflight' = inflight \cup {FromCore(Head(cmds).io)}
  /\ cmds' = Tail(cmds)
  /\ UNCHANGED <<up, db, rs, smq, batch, sm, builder, notes>>

UpdateIOProgress ==
  /\ up /\ Runnable
  /\ Head(cmds).op = "UpdateIOProgress"
  /\ rs' = [rs EXCEPT !.logSub = Head(cmds).io]
  /\ inflight' = inflight \cup {FromCore(Head(cmds).io)}
  /\ cmds' = Tail(cmds)
  /\ UNCHANGED <<up, db, smq, batch, sm, builder, notes>>

PurgeLog ==
  /\ up /\ Runnable
  /\ Head(cmds).op = "PurgeLog"
  /\ db' = PurgeRange(db, Head(cmds).upto)
  /\ cmds' = Tail(cmds)
  /\ UNCHANGED <<up, rs, inflight, smq, batch, sm, builder, notes>>

\* Command::StateMachine for an install or a build.
SendToStateMachine ==
  LET c == Head(cmds)
  IN /\ up /\ Runnable
     /\ c.op \in {"InstallFullSnapshot", "BuildSnapshot"}
     /\ rs' = IF c.op = "BuildSnapshot" THEN rs
              ELSE [rs EXCEPT !.logSub = c.io, !.applySub = c.snap.snap]
     /\ Send(c)
     /\ cmds' = Tail(cmds)
     /\ UNCHANGED <<up, db, inflight, batch, sm, builder, notes>>

\* A mutant: the last entry applied is sent again.
ApplyFromSubmitted ==
  /\ up /\ ~Runnable /\ Applicable
  /\ rs' = [rs EXCEPT !.applySub = ApplyUpto]
  /\ Send([op |-> "Apply", since |-> rs.applySub.index, last |-> ApplyUpto])
  /\ UNCHANGED <<up, db, cmds, inflight, batch, sm, builder, notes>>

\* SaveCommittedAndApply.  RocksLogStore has no save_committed, so the
\* trait's own runs, which keeps nothing.
SaveCommittedAndApply ==
  /\ up /\ ~Runnable /\ Applicable
  /\ rs' = [rs EXCEPT !.applySub = ApplyUpto]
  /\ Send([op |-> "Apply", since |-> rs.applySub.index + 1, last |-> ApplyUpto])
  /\ UNCHANGED <<up, db, cmds, inflight, batch, sm, builder, notes>>
----------------------------------------------------------------------------
(* RaftCore: messages, notifications and routine actions.                  *)

\* A late or repeated request is one with an earlier prev, last or commit.
AppendEntriesRequest(t, prev, last, commit) ==
  /\ Idle
  /\ SetEngine(UpdateCommitted(EngineAppend(Engine, t, prev, last),
                               IOId(t, IdOf(t, commit))))
  /\ UNCHANGED <<up, db, inflight, smq, batch, sm, builder, notes>>

\* The data of a snapshot may be later than its log id: see BuilderDone.
InstallSnapshotRequest(t, i, j) ==
  /\ Idle
  /\ t >= rs.vote
  /\ SetEngine(EngineInstall(Engine, t,
       [snap |-> IdOf(t, i), kvs |-> StateAt[j], mem |-> MemAt[i]]))
  /\ UNCHANGED <<up, db, inflight, smq, batch, sm, builder, notes>>

LocalIO(n) ==
  /\ Idle
  /\ rs' = [rs EXCEPT !.logFlushed = IF IOLt(@, n.io) THEN n.io ELSE @]
  /\ \E lost \in Overwritten(n) : inflight' = inflight \ ({n} \cup lost)
  /\ UNCHANGED <<up, db, cmds, smq, batch, sm, builder, notes>>

BuildSnapshotDone ==
  /\ Idle /\ notes # <<>>
  /\ Head(notes).op = "BuildSnapshotDone"
  /\ SetEngine(BuildingSnapshotDone(Engine, Head(notes).id))
  /\ notes' = Tail(notes)
  /\ UNCHANGED <<up, db, inflight, smq, batch, sm, builder>>

\* A mutant: the snapshot progress is not flushed.
InstallSnapshotUnflushed ==
  /\ Idle /\ notes # <<>>
  /\ Head(notes).op = "InstallSnapshotDone"
  /\ rs' = [rs EXCEPT !.logFlushed = IF IOLt(@, Head(notes).io) THEN Head(notes).io ELSE @]
  /\ notes' = Tail(notes)
  /\ UNCHANGED <<up, db, cmds, inflight, smq, batch, sm, builder>>

InstallSnapshotDone ==
  /\ Idle /\ notes # <<>>
  /\ Head(notes).op = "InstallSnapshotDone"
  /\ rs' = [rs EXCEPT !.logFlushed = IF IOLt(@, Head(notes).io) THEN Head(notes).io ELSE @,
                      !.snapFlushed = MaxId(@, Head(notes).id)]
  /\ notes' = Tail(notes)
  /\ UNCHANGED <<up, db, cmds, inflight, smq, batch, sm, builder>>

\* SnapshotPolicy::should_snapshot, with LogsSinceLast(threshold).
ShouldSnapshot == rs.applyAcc.index >= MaxId(rs.triedAt, rs.snap).index + setting.threshold

\* trigger_routine_actions
TriggerSnapshot ==
  /\ Idle /\ ShouldSnapshot
  /\ SetEngine(QueueBuild([Engine EXCEPT !.rs.triedAt = rs.applyAcc]))
  /\ UNCHANGED <<up, db, inflight, smq, batch, sm, builder, notes>>
----------------------------------------------------------------------------
(* The state machine worker and the snapshot builder.                      *)

WorkerFree == up /\ batch = <<>> /\ smq # <<>>

\* Worker::build_snapshot: get_snapshot_builder clones last_applied_log_id
\* and last_membership; kvs is behind an Arc and stays shared.
GetSnapshotBuilder ==
  /\ WorkerFree
  /\ Head(smq).op = "BuildSnapshot"
  /\ builder' = Append(builder, [applied |-> sm.applied, mem |-> sm.mem])
  /\ smq' = Tail(smq)
  /\ UNCHANGED <<up, db, rs, cmds, inflight, batch, sm, notes>>

\* install_snapshot: update_state_machine_, then set_current_snapshot_.
InstallSnapshot ==
  LET c == Head(smq)
  IN /\ WorkerFree
     /\ c.op = "InstallFullSnapshot"
     /\ sm' = StateOf(c.snap)
     /\ db' = SetCurrentSnapshot(db, c.snap)
     /\ Respond([op |-> "InstallSnapshotDone", id |-> c.snap.snap, io |-> c.io])
     /\ smq' = Tail(smq)
     /\ UNCHANGED <<up, rs, cmds, inflight, batch, builder>>

\* Worker::apply reads the entries of the range that are in the log.
ReadEntries ==
  LET c == Head(smq)
  IN /\ WorkerFree
     /\ c.op = "Apply"
     /\ batch' = TryGetLogEntries(db, c.since, c.last.index)
     /\ smq' = Tail(smq)
     /\ UNCHANGED <<up, db, rs, cmds, inflight, sm, builder, notes>>

\* One turn of the loop of StateMachineStore::apply.
ApplyOne ==
  LET id == Head(batch)
  IN /\ up /\ batch # <<>>
     /\ sm' = [applied |-> id, mem |-> MemOp(sm.mem, id), kvs |-> ApplyOp(sm.kvs, id)]
     /\ batch' = Tail(batch)
     /\ UNCHANGED <<up, db, rs, cmds, inflight, smq, builder, notes>>

\* build_snapshot of the builder task: it locks kvs only now, and writes.
BuilderDone ==
  /\ up /\ builder # <<>>
  /\ db' = SetCurrentSnapshot(db, [snap |-> Head(builder).applied,
                                   mem |-> Head(builder).mem, kvs |-> sm.kvs])
  /\ Respond([op |-> "BuildSnapshotDone", id |-> Head(builder).applied])
  /\ builder' = Tail(builder)
  /\ UNCHANGED <<up, rs, cmds, inflight, smq, batch, sm>>
----------------------------------------------------------------------------
\* The process ends; its memory is not looked at until the next Start.
Crash ==
  /\ up
  /\ up' = FALSE
  /\ cmds' = <<>> /\ inflight' = {} /\ smq' = <<>> /\ batch' = <<>>
  /\ builder' = <<>> /\ notes' = <<>>
  /\ UNCHANGED <<db, rs, sm>>

\* get_membership: the last two of the log above what the state machine has
\* and what was purged, and that of the state machine.
GetMembership(d) ==
  LET first == (IF d.purged.index > d.snap.index THEN d.purged.index ELSE d.snap.index) + 1
      ms == LastTwoMemberships(TryGetLogEntries(d, first, LastLogId(d).index))
  IN [committed |-> IF Len(ms) = 2 THEN ms[1] ELSE d.mem,
      effective |-> IF ms = <<>> THEN d.mem ELSE ms[Len(ms)]]

\* RaftState of a database, as get_initial_state makes it; IOState::new
\* starts every progress synchronized.
InitialState(d) ==
  [logAcc |-> IOId(d.vote, NoLogId), logSub |-> IOId(d.vote, NoLogId),
   logFlushed |-> IOId(d.vote, NoLogId), clusterCommitted |-> IOId(0, NoLogId),
   applyAcc |-> d.snap, applySub |-> d.snap, snapFlushed |-> d.snap, building |-> FALSE,
   vote |-> d.vote, purged |-> d.purged.index,
   ids |-> [i \in DOMAIN d.log \cup ({d.purged.index} \ {0}) |->
              IF i \in DOMAIN d.log THEN d.log[i] ELSE d.purged.term],
   snap |-> d.snap, triedAt |-> NoLogId,
   memCommitted |-> GetMembership(d).committed,
   memEffective |-> GetMembership(d).effective]

\* restore_from_snapshot: only a snapshot later than the state machine.
RestoreFromSnapshot(s, d) ==
  IF LogIdLt(s.applied, d.snap) THEN StateOf(CurrentSnapshot(d)) ELSE s

\* A mutant: the log id of the snapshot is loaded, its map is not.
StartWithoutMap ==
  LET d == IF LogIdLt(LastLogId(db), db.snap) THEN PurgeRange(db, db.snap) ELSE db
  IN /\ ~up
     /\ up' = TRUE
     /\ sm' = [StateOf(CurrentSnapshot(db)) EXCEPT !.kvs = NoKvs]
     /\ db' = d
     /\ rs' = InitialState(d)
     /\ UNCHANGED <<cmds, inflight, smq, batch, builder, notes>>

\* start_raft_node: StateMachineStore::new loads the snapshot, then
\* get_initial_state purges a log that ends before it.
Start ==
  LET d == IF LogIdLt(LastLogId(db), db.snap) THEN PurgeRange(db, db.snap) ELSE db
  IN /\ ~up
     /\ up' = TRUE
     /\ sm' = RestoreFromSnapshot(StateOf(CurrentSnapshot(db)), db)
     /\ db' = d
     /\ rs' = InitialState(d)
     /\ UNCHANGED <<cmds, inflight, smq, batch, builder, notes>>

EmptyDb == [log |-> [i \in {} |-> 0], purged |-> NoLogId, vote |-> 0,
            snap |-> NoLogId, kvs |-> NoKvs, mem |-> NoLogId]

Init ==
  /\ setting \in Settings
  /\ up = TRUE
  /\ db = EmptyDb
  /\ rs = InitialState(EmptyDb)
  /\ cmds = <<>> /\ inflight = {} /\ smq = <<>> /\ batch = <<>>
  /\ sm = [applied |-> NoLogId, mem |-> NoLogId, kvs |-> NoKvs]
  /\ builder = <<>>
  /\ notes = <<>>

\* Which snapshots arrive.  A fresh one is not behind the log this node took
\* from the same leader, and comes after the leader had an answer to each
\* request that replicates the log.
Sendable(t, i) ==
  /\ setting.installs = "fresh"
  /\ ~IOLt(IOId(t, IdOf(t, i)), rs.logAcc)
  /\ \A c \in Range(cmds) : c.op # "UpdateIOProgress"

Receive ==
  \/ \E t \in Term : \E prev \in 0..Len(LeaderLog[t]) :
       \E last \in prev..Len(LeaderLog[t]), commit \in 0..Committed[t] :
         AppendEntriesRequest(t, prev, last, commit)
  \/ \E t \in Term : \E i \in 1..Committed[t] : \E j \in i..Committed[t] :
       Sendable(t, i) /\ InstallSnapshotRequest(t, i, j)

Core ==
  \/ SaveVote \/ TruncateLog \/ AppendEntries \/ UpdateIOProgress \/ PurgeLog
  \/ SendToStateMachine \/ SaveCommittedAndApply
  \/ BuildSnapshotDone \/ InstallSnapshotDone \/ TriggerSnapshot

Worker == GetSnapshotBuilder \/ InstallSnapshot \/ ReadEntries \/ ApplyOne

Next ==
  \/ Receive
  \/ Core
  \/ \E n \in inflight : LocalIO(n)
  \/ Worker
  \/ BuilderDone
  \/ Crash
  \/ Start

Spec == Init /\ [][Next /\ UNCHANGED setting]_<<vars, setting>>

\* The runtime polls every task that can run, select_biased! prefers
\* notifications to messages, and an fsync ends.  No message has to arrive
\* and no process has to die.
Fairness ==
  /\ WF_vars(Core)
  /\ WF_vars(\E n \in inflight : LocalIO(n))
  /\ WF_vars(Worker)
  /\ WF_vars(BuilderDone)

FairSpec == Spec /\ Fairness
----------------------------------------------------------------------------
\* State machine safety.  Entries are read from the log when the worker gets
\* to them, long after openraft decided to apply them; a truncation, an
\* overwrite or a purge in between never makes it apply, or have read, an
\* entry other than the chosen one.
OnlyChosenApplied ==
  up => /\ sm.applied = ChosenId(sm.applied.index)
        /\ \A id \in Range(batch) : id = ChosenId(id.index)

\* No entry is skipped or repeated: the entries read follow the last one
\* applied without a gap (try_get_log_entries returns whatever is there), and
\* what is still queued follows them up to apply_progress.submitted.
AppliesWithoutGap ==
  up => /\ \A n \in 1..Len(batch) : batch[n].index = sm.applied.index + n
        /\ \A n \in 1..Len(smq) : smq[n].op = "Apply" =>
             LET before == {m \in 1..(n - 1) : smq[m].op # "BuildSnapshot"}
                 m == CHOOSE m \in before : \A k \in before : k <= m
             IN smq[n].since = 1 +
                  IF before = {} THEN sm.applied.index + Len(batch)
                  ELSE IF smq[m].op = "Apply" THEN smq[m].last.index
                  ELSE smq[m].snap.snap.index

\* No key of a running node is older than last_applied_log_id says: its
\* value is the one some prefix of the chosen log, at least as long as what
\* has been applied, leaves it with.  So a map loaded from a snapshot whose
\* data ran ahead of its log id is right again once the log has been
\* replayed as far as that data reached.
NoKeyBehind ==
  up => \A k \in Key : \E j \in sm.applied.index..Len(Chosen) : sm.kvs[k] = StateAt[j][k]

\* The membership in effect, with which the node counts quorums, is the last
\* one of the history the node has, whatever was appended in batches,
\* truncated, installed, purged or read back at a start; and the one kept to
\* go back to is chosen, so two are enough.
EffectiveIsLast ==
  up => LET own  == {i \in DOMAIN rs.ids : i > rs.purged /\ IsMembership([term |-> rs.ids[i], index |-> i])}
            last == CHOOSE i \in own : \A j \in own : j <= i
        IN /\ rs.memEffective = IF own = {} THEN MemAt[rs.purged]
                                ELSE [term |-> rs.ids[last], index |-> last]
           /\ rs.memCommitted = ChosenId(rs.memCommitted.index)

\* RaftState::validate and IOState::validate, which a debug build asserts
\* whenever it touches them, as far as the fields are modelled; and the
\* unwrap in SaveCommittedAndApply: openraft still knows the log id after the
\* last one it sent to the state machine.
RaftStateValid ==
  up => /\ rs.purged <= rs.snap.index
        /\ ~LogIdLt(rs.applyAcc, rs.snap)
        /\ ~LogIdLt(LastId(rs), rs.applyAcc)
        /\ ~LogIdLt(rs.applyAcc, rs.applySub)
        /\ ~LogIdLt(rs.applySub, rs.snapFlushed)
        /\ db.purged.index <= rs.snapFlushed.index
        /\ ~IOLt(rs.logAcc, rs.logSub) /\ ~IOLt(rs.logSub, rs.logFlushed)
        /\ ~Runnable /\ Applicable => rs.applySub.index + 1 \in DOMAIN rs.ids

\* openraft only purges logs that are already included in the snapshot: what
\* the database holds, snapshot and log together, is the whole history.
SnapshotCoversPurged == db.purged.index <= db.snap.index

\* IOProgress::submit asserts that log IOs are submitted in order.
SubmitsInOrder == [][up => ~IOLt(rs'.logSub, rs.logSub)]_vars

\* A blocked command blocks every later one, and waits for a notification
\* that may have come, or be lost, before it is queued: the queue still drains.
QueueDrains == cmds # <<>> ~> cmds = <<>>

\* What the node has learnt to be committed reaches the state machine, though
\* openraft sends it there only when the log IOs of the last vote have been
\* submitted.  (Not after a builder has overwritten an installed snapshot: the
\* entries are then gone.)
CommittedIsApplied ==
  []SnapshotCoversPurged =>
    \A i \in UNION {1..s.committed[Len(s.committed)] : s \in Settings} :
      (up /\ rs.applyAcc.index >= i) ~> (~up \/ sm.applied.index >= i)

\* building_snapshot is always reset: while it is set no snapshot is started.
BuildEnds == (up /\ rs.building) ~> ~(up /\ rs.building)
=============================================================================
