------------------------------ MODULE RaftApi ------------------------------
(***************************************************************************)
(* The calls of an application on its Raft handle, and the tasks that      *)
(* answer them: RaftCore, which takes messages from a bounded channel, the *)
(* state machine worker, which RaftCore commands, and the disk.  A call    *)
(* ends with the answer of whoever holds its sender; when every sender is  *)
(* gone the caller concludes that RaftCore has stopped and joins its task  *)
(* to learn why (raft_inner.rs).  A caller may be cancelled at any await:  *)
(* the future of a call is dropped.                                        *)
(*                                                                         *)
(* A write is answered where its entry is applied, so its responder waits  *)
(* in RaftCore, indexed by the log, while the node may lose leadership,    *)
(* have the entry truncated, or receive a snapshot.  What other nodes do   *)
(* is only what Raft lets them: committed entries stay.                    *)
(***************************************************************************)
EXTENDS Naturals, Sequences, SequencesExt

CONSTANTS
  Caller,     \* tasks of the application; each makes one call
  Plans,      \* the calls they make and the role the node begins in
  ApiSize,    \* capacity of the API channel (65536)
  MaxIndex,   \* bound on the log as far as other nodes make it grow
  MaxTerm,    \* bound on the terms that begin without a call
  NoCaller

\* The messages RaftCore is sent, by who answers them.
WriteMsg  == {"write", "change"}
CoreMsg   == {"state", "init", "rpc"}
WorkerMsg == {"sm", "snapshot"}
OneWayMsg == {"writeFf", "external", "smFf", "trigger", "elect", "transfer"}
Kind == WriteMsg \cup CoreMsg \cup WorkerMsg \cup OneWayMsg \cup {"shutdown"}

ASSUME ApiAssumption ==
  /\ Plans \subseteq [calls : [Caller -> Kind], role : {"leader", "follower"}]
  /\ NoCaller \notin Caller
  /\ ApiSize \in Nat \ {0} /\ MaxIndex \in Nat \ {0} /\ MaxTerm \in Nat \ {0}

VARIABLES
  call,       \* each caller's call: its kind, where it is, what it returned
  api,        \* the API channel
  core,       \* the RaftCore task: running, quitting (dropping) or stopped
  fate,       \* what its main() returns
  coreState,  \* RaftInner.core_state
  signal,     \* has shutdown() sent on tx_shutdown?
  term,       \* the term of this node's vote
  role,       \* whose vote: leader, candidate (its own) or follower
  transfer,   \* is the leader handing over?
  log,        \* entries: the term, and the caller whose write it is
  matched,    \* how far the current leader's log is known to be ours
  purged,     \* last purged index
  committed,  \* last index sent to the state machine
  responders, \* client_responders, in order of their index: <<index, caller>>
  pending,    \* pending_responds.on_log_io, in order of the IO: <<io, caller>>
  submitted,  \* log IOs, numbered as they are submitted
  syncing,    \* those whose report is still to come
  flushed,    \* the last one reported to be on disk
  smq,        \* commands of the state machine worker
  worker,     \* the worker task: up or failed
  applied     \* last index the state machine has applied

coreVars == <<term, role, transfer, log, matched, purged, committed, responders,
              pending, submitted, syncing, flushed>>
vars == <<call, api, core, fate, coreState, signal, coreVars, smq, worker, applied>>

Entry(t, c) == [term |-> t, by |-> c]
Idle(kind) == [at |-> "idle", kind |-> kind, expect |-> 0, step |-> 1, res |-> "none",
               index |-> 0]

\* Raft::new.  The node has just become the leader of term 1.
Init ==
  /\ \E plan \in Plans : /\ call = [c \in Caller |-> Idle(plan.calls[c])]
                          /\ role = plan.role
  /\ api = <<>>
  /\ core = "running" /\ fate = "none" /\ coreState = "Running" /\ signal = FALSE
  /\ term = 1 /\ transfer = FALSE
  /\ log = <<Entry(1, NoCaller)>>
  /\ matched = 0 /\ purged = 0 /\ committed = 0
  /\ responders = {} /\ pending = {}
  /\ submitted = 0 /\ syncing = {} /\ flushed = 0
  /\ smq = <<>> /\ worker = "up" /\ applied = 0
----------------------------------------------------------------------------
(* The calls.                                                              *)

Begin(c, kind, expect) ==
  /\ call[c].at = "idle" /\ call[c].kind = kind
  /\ call' = [call EXCEPT ![c].at = "sending", ![c].expect = expect]
  /\ UNCHANGED <<api, core, fate, coreState, signal, coreVars, smq, worker, applied>>

ClientWrite(c)      == Begin(c, "write", 0)
\* The leader id the application read from the metrics some time ago.
WriteWithLeader(c)  == \E t \in 1..term : Begin(c, "write", t)
\* Whoever answers it, the caller does not wait.
ClientWriteFf(c)    == Begin(c, "writeFf", 0)
ChangeMembership(c) == Begin(c, "change", 0)
\* Refused: the node has a log.
Initialize(c)       == Begin(c, "init", 0)
WithRaftState(c)    == Begin(c, "state", 0)
IsInitialized(c)    == WithRaftState(c)
ExternalRequest(c)  == Begin(c, "external", 0)
\* These three are answered when what they wrote is on disk.
AppendEntries(c)    == Begin(c, "rpc", 0)
Vote(c)             == Begin(c, "rpc", 0)
ReceiveSnapshot(c)  == Begin(c, "rpc", 0)
WithStateMachine(c) == Begin(c, "sm", 0)
ExternalStateMachineRequest(c) == Begin(c, "smFf", 0)
GetSnapshot(c)      == Begin(c, "snapshot", 0)
BeginReceivingSnapshot(c) == Begin(c, "snapshot", 0)
TriggerElect(c)     == Begin(c, "elect", 0)
\* heartbeat(), snapshot() and purge_log()
Trigger(c)          == Begin(c, "trigger", 0)
TriggerTransferLeader(c) == Begin(c, "transfer", 0)

End(f, c, r) == [f EXCEPT ![c].at = "done", ![c].res = r]

\* send_msg and send_external_command: wait for room in the channel.
SendMsg(c) ==
  /\ call[c].at = "sending" /\ core = "running" /\ Len(api) < ApiSize
  /\ api' = Append(api, c)
  /\ call' = IF call[c].kind \in OneWayMsg THEN End(call, c, "ok")
             ELSE [call EXCEPT ![c].at = "waiting"]
  /\ UNCHANGED <<core, fate, coreState, signal, coreVars, smq, worker, applied>>

SendFails(c) ==
  /\ call[c].at = "sending" /\ core # "running"
  /\ call' = [call EXCEPT ![c].at = "joining"]
  /\ UNCHANGED <<api, core, fate, coreState, signal, coreVars, smq, worker, applied>>

Holds(q) == {x[2] : x \in q}
HeldByWorker == UNION {Holds(smq[n].rs) : n \in 1..Len(smq)}
\* The callers whose sender somebody still holds.
Held == Range(api) \cup Holds(responders) \cup Holds(pending) \cup HeldByWorker

\* recv_msg of a sender that was dropped.  with_state_machine() takes it for
\* a state machine of another type while core_state is Running.
RecvFails(c) ==
  /\ call[c].at = "waiting" /\ c \notin Held
  /\ call' = IF call[c].kind = "sm" /\ coreState = "Running" THEN End(call, c, "wrongType")
             ELSE [call EXCEPT ![c].at = "joining"]
  /\ UNCHANGED <<api, core, fate, coreState, signal, coreVars, smq, worker, applied>>

Shutdown(c) ==
  /\ call[c].at = "idle" /\ call[c].kind = "shutdown"
  /\ signal' = TRUE
  /\ call' = [call EXCEPT ![c].at = "joining"]
  /\ UNCHANGED <<api, core, fate, coreState, coreVars, smq, worker, applied>>

\* join_core_task: the first to come takes the handle, the others watch it.
JoinCoreTask(c) ==
  /\ call[c].at = "joining"
  /\ CASE coreState = "Running" -> /\ coreState' = "Joining"
                                   /\ call' = [call EXCEPT ![c].at = "owner"]
       [] coreState = "Joining" -> /\ call' = [call EXCEPT ![c].at = "watcher"]
                                   /\ UNCHANGED coreState
       [] OTHER                 -> /\ call' = End(call, c, fate)
                                   /\ UNCHANGED coreState
  /\ UNCHANGED <<api, core, fate, signal, coreVars, smq, worker, applied>>

CoreExited(c) ==
  /\ call[c].at = "owner" /\ core = "stopped"
  /\ coreState' = "Done"
  /\ call' = End(call, c, fate)
  /\ UNCHANGED <<api, core, fate, signal, coreVars, smq, worker, applied>>

\* The watch ends when the owner has sent, or when its sender is dropped;
\* get_core_stop_error then takes the result out of CoreState::Done.
WatchEnds(c) ==
  /\ call[c].at = "watcher"
  /\ coreState = "Done" \/ \A d \in Caller : call[d].at # "owner"
  /\ call' = End(call, c, IF coreState = "Done" \/ call[c].kind = "shutdown" THEN fate
                          ELSE "unreachable")
  /\ UNCHANGED <<api, core, fate, coreState, signal, coreVars, smq, worker, applied>>

Cancel(c) ==
  /\ call[c].at \in {"sending", "waiting", "joining", "owner", "watcher"}
  /\ call' = [call EXCEPT ![c].at = "cancelled"]
  /\ UNCHANGED <<api, core, fate, coreState, signal, coreVars, smq, worker, applied>>

\* on_complete: the oneshot of a cancelled call is closed.  A membership
\* change whose joint configuration is applied goes on to its second step.
OnComplete(s, r, i) ==
  CASE s.at # "waiting" -> s
    [] s.at = "waiting" /\ s.kind = "change" /\ s.step = 1 /\ r = "ok" ->
         [s EXCEPT !.at = "sending", !.step = 2]
    [] OTHER -> [s EXCEPT !.at = "done", !.res = r, !.index = i]

\* The responders drained from a queue get the answer r.  A call has no more
\* than one of them.
CompleteAll(drained, r) ==
  call' = [c \in Caller |->
             IF c \in Holds(drained)
             THEN OnComplete(call[c], r, (CHOOSE x \in drained : x[2] = c)[1])
             ELSE call[c]]

Complete(c, r) == call' = [call EXCEPT ![c] = OnComplete(@, r, 0)]
----------------------------------------------------------------------------
(* ClientResponderQueue and PendingResponds.                               *)

DrainFrom(q, i)  == {x \in q : x[1] >= i}
DrainUpto(q, i)  == {x \in q : x[1] <= i}

\* A mutant: only the first respond whose IO is on disk is sent.
DrainFirst(q, io) == {x \in q : x[1] <= io /\ \A y \in q : x[1] <= y[1]}
DrainSatisfied(q, io) == {x \in q : x[1] <= io}
----------------------------------------------------------------------------
(* RaftCore.                                                               *)

\* main() returns: everything RaftCore owns is dropped, senders included.
\* The worker finishes the commands it has been sent.
Quit(why) ==
  /\ core' = "quitting" /\ fate' = why
  /\ api' = <<>> /\ responders' = {} /\ pending' = {}

CoreStops ==
  /\ core = "quitting"
  /\ core' = "stopped"
  /\ UNCHANGED <<call, api, fate, coreState, signal, coreVars, smq, worker, applied>>

\* The handlers below return what the message changes.
AnswerNow(c) ==
  /\ Complete(c, "ok")
  /\ UNCHANGED <<coreVars, smq>>

\* handle_append_entries_request, handle_vote_request: Respond waits for
\* Condition::IOFlushed.
RespondWhenFlushed(c) ==
  /\ submitted' = submitted + 1 /\ syncing' = syncing \cup {submitted + 1}
  /\ pending' = pending \cup {<<submitted + 1, c>>}
  /\ UNCHANGED <<call, term, role, transfer, log, matched, purged, committed,
                 responders, flushed, smq>>

\* A command that cannot be sent is dropped with its sender.
ForwardToWorker(c) ==
  /\ smq' = IF worker = "up" THEN Append(smq, [op |-> "func", first |-> 0, last |-> 0,
                                               rs |-> {<<0, c>>}])
            ELSE smq
  /\ UNCHANGED <<call, coreVars>>

TransferLeader ==
  /\ transfer' = (transfer \/ role = "leader")
  /\ UNCHANGED <<call, term, role, log, matched, purged, committed, responders, pending,
                 submitted, syncing, flushed, smq>>

Reject(c, r) ==
  /\ Complete(c, r)
  /\ UNCHANGED <<coreVars, smq>>

\* write_entry: the leader appends, and keeps the responder at the index.
WriteEntry(c) ==
  IF role # "leader" \/ transfer
  THEN Reject(c, "forward")
  ELSE /\ log' = Append(log, Entry(term, c))
       /\ responders' = responders \cup {<<Len(log) + 1, c>>}
       /\ UNCHANGED <<call, term, role, transfer, matched, purged, committed, pending,
                      submitted, syncing, flushed, smq>>

\* A mutant: the leader the caller expects is not compared.
HandleClientWriteAny(c) == WriteEntry(c)

HandleClientWrite(c) ==
  IF call[c].expect \notin {0, term} THEN Reject(c, "forward") ELSE WriteEntry(c)

\* ChangeHandler::apply refuses while a membership is not committed.
HandleChange(c) ==
  IF \E i \in (committed + 1)..Len(log) :
       log[i].by # NoCaller /\ call[log[i].by].kind = "change"
  THEN Reject(c, "refused")
  ELSE WriteEntry(c)

\* Engine::elect.  The responders of a leader that elects itself anew stay.
Elect ==
  /\ term' = term + 1 /\ role' = "candidate"
  /\ matched' = committed /\ transfer' = FALSE
  /\ UNCHANGED <<log, purged, committed, responders, pending, submitted, syncing, flushed>>

\* handle_initialize: the error is sent at once, and the node elects itself
\* all the same.
HandleInitialize(c) ==
  /\ Complete(c, "refused")
  /\ Elect /\ UNCHANGED smq

\* handle_api_msg.  A cancelled caller's message is handled all the same.
HandleApiMsg ==
  LET c == Head(api)
      k == call[c].kind
  IN /\ core = "running" /\ api # <<>>
     /\ api' = Tail(api)
     /\ CASE k = "write"        -> HandleClientWrite(c)
          [] k = "writeFf"      -> WriteEntry(c)
          [] k = "change"       -> HandleChange(c)
          [] k = "init"         -> HandleInitialize(c)
          [] k = "state"        -> AnswerNow(c)
          [] k = "rpc"          -> RespondWhenFlushed(c)
          [] k \in WorkerMsg \cup {"smFf"} -> ForwardToWorker(c)
          [] k = "elect"        -> Elect /\ UNCHANGED <<call, smq>>
          [] k = "transfer"     -> TransferLeader
          [] OTHER              -> UNCHANGED <<call, coreVars, smq>>
     /\ UNCHANGED <<core, fate, coreState, signal, worker, applied>>

\* recv from rx_shutdown, which select_biased! polls first.
RecvShutdown ==
  /\ core = "running" /\ signal
  /\ Quit("Stopped")
  /\ UNCHANGED <<call, coreState, signal, term, role, transfer, log, matched, purged,
                 committed, submitted, syncing, flushed, smq, worker, applied>>

\* io_completed: the blocking tasks that sync the log end in any order, and
\* put the id of their IO in a watch channel whatever is there.  When io is
\* read from it, the reports of tasks that ended before are lost.
Overwritten(io) == SUBSET (syncing \ {io})

\* io_completion_forwarder and Notification::LocalIO, whose try_flush ignores
\* an IO that is not newer.
LocalIO ==
  /\ core = "running"
  /\ \E io \in syncing : \E lost \in Overwritten(io) :
       /\ syncing' = syncing \ ({io} \cup lost)
       /\ flushed' = IF io > flushed THEN io ELSE flushed
  /\ LET done == DrainSatisfied(pending, flushed')
     IN CompleteAll(done, "ok") /\ pending' = pending \ done
  /\ UNCHANGED <<api, core, fate, coreState, signal, term, role, transfer, log, matched,
                 purged, committed, responders, submitted, smq, worker, applied>>

\* Notification::StorageError, of the disk or of the worker.
StorageError ==
  /\ core = "running" /\ (worker = "failed" \/ syncing # {})
  /\ Quit("StorageError")
  /\ UNCHANGED <<call, coreState, signal, term, role, transfer, log, matched, purged,
                 committed, submitted, syncing, flushed, smq, worker, applied>>

\* SaveCommittedAndApply and apply_to_state_machine, up to index i, with the
\* responders rs.  It asserts that the first responder is
\* not before the first entry; without the assertion the log id of that
\* responder is looked up, and unwrapped though it has been purged.
ApplyToStateMachine(i, rs) ==
  CASE i = committed ->
         /\ committed' = i /\ responders' = rs
         /\ UNCHANGED <<core, fate, api, pending, smq>>
    [] i > committed /\ \E x \in rs : x[1] <= committed ->
         Quit("Panicked") /\ UNCHANGED <<committed, smq>>
    [] i > committed /\ worker = "failed" /\ \A x \in rs : x[1] > committed ->
         Quit("StorageError") /\ UNCHANGED <<committed, smq>>
    [] OTHER ->
         /\ committed' = i
         /\ smq' = Append(smq, [op |-> "apply", first |-> committed + 1, last |-> i,
                                rs |-> DrainUpto(rs, i)])
         /\ responders' = rs \ DrainUpto(rs, i)
         /\ UNCHANGED <<core, fate, api, pending>>
----------------------------------------------------------------------------
(* The rest of the cluster, through RaftCore.                              *)

\* Replication reaches a quorum: entries of the leader's own term commit.
QuorumGranted(i) ==
  /\ core = "running" /\ role = "leader"
  /\ i \in (committed + 1)..Len(log) /\ log[i].term = term
  /\ ApplyToStateMachine(i, responders)
  /\ UNCHANGED <<call, coreState, signal, term, role, transfer, log, matched, purged,
                 submitted, syncing, flushed, worker, applied>>

OnlyVoteChanges ==
  UNCHANGED <<call, api, core, fate, coreState, signal, purged, committed, responders,
              pending, submitted, syncing, flushed, smq, worker, applied>>

\* Another node becomes the leader of the next term.
HigherVote ==
  /\ core = "running" /\ term < MaxTerm
  /\ term' = term + 1 /\ role' = "follower"
  /\ matched' = committed /\ transfer' = FALSE
  /\ UNCHANGED log /\ OnlyVoteChanges

\* A tick without a leader.
TickElection ==
  /\ core = "running" /\ term < MaxTerm /\ role # "leader"
  /\ Elect
  /\ UNCHANGED <<call, api, core, fate, coreState, signal, smq, worker, applied>>

\* A quorum votes for this node; it appends the blank entry of its term.
EstablishLeader ==
  /\ core = "running" /\ role = "candidate" /\ Len(log) < MaxIndex
  /\ role' = "leader"
  /\ log' = Append(log, Entry(term, NoCaller))
  /\ UNCHANGED <<term, matched, transfer>> /\ OnlyVoteChanges

Fill(t, n) == [i \in 1..n |-> Entry(t, NoCaller)]

\* A mutant: the responders of the truncated entries are dropped.
TruncateSilently(since) == UNCHANGED call

\* TruncateLog: the callers of the entries are told to go to the leader.
TruncateLog(since) == CompleteAll(DrainFrom(responders, since), "forward")

\* append_entries of the leader: our log is its own up to keep; then come n
\* entries of its term, and its commit index.
FollowerAppend(keep, n, commit) ==
  LET conflict == n > 0 /\ keep < Len(log)
      rs == IF conflict THEN responders \ DrainFrom(responders, keep + 1)
            ELSE responders
  IN /\ core = "running" /\ role = "follower"
     /\ keep \in matched..Len(log) /\ keep >= committed /\ keep + n <= MaxIndex
     /\ commit \in committed..(keep + n)
     /\ log' = IF n = 0 THEN log ELSE SubSeq(log, 1, keep) \o Fill(term, n)
     /\ matched' = keep + n
     /\ IF conflict THEN TruncateLog(keep + 1) ELSE UNCHANGED call
     /\ ApplyToStateMachine(commit, rs)
     /\ UNCHANGED <<coreState, signal, term, role, transfer, purged, submitted, syncing, flushed,
                    worker, applied>>

\* install_full_snapshot: every uncommitted entry is truncated if the one at
\* the snapshot's last index is another.  Otherwise the log stays, purged up
\* to the snapshot; its first m entries are those of the leader.
InstallFullSnapshot(i, m) ==
  LET conflict == i <= Len(log) /\ m < i
  IN /\ core = "running" /\ role = "follower" /\ worker = "up"
     /\ i \in (committed + 1)..MaxIndex
     /\ m \in matched..Len(log) /\ m >= committed /\ (m > i => m = Len(log))
     /\ IF conflict
        THEN /\ log' = SubSeq(log, 1, committed) \o Fill(term, i - committed)
             /\ TruncateLog(committed + 1)
             /\ responders' = responders \ DrainFrom(responders, committed + 1)
        ELSE /\ log' = IF m >= i THEN log ELSE SubSeq(log, 1, m) \o Fill(term, i - m)
             /\ UNCHANGED <<call, responders>>
     /\ matched' = IF m > i THEN m ELSE i
     /\ committed' = i /\ purged' = i
     /\ smq' = Append(smq, [op |-> "install", first |-> i, last |-> i, rs |-> {}])
     /\ UNCHANGED <<api, core, fate, coreState, signal, term, role, transfer, pending,
                    submitted, syncing, flushed, worker, applied>>
----------------------------------------------------------------------------
(* The state machine worker.  It goes on after RaftCore has stopped until  *)
(* its queue is empty.                                                     *)

WorkerLoop ==
  LET cmd == Head(smq)
  IN /\ worker = "up" /\ smq # <<>>
     /\ CompleteAll(cmd.rs, "ok")
     /\ applied' = IF cmd.op = "func" THEN applied ELSE cmd.last
     /\ smq' = Tail(smq)
     /\ UNCHANGED <<api, core, fate, coreState, signal, coreVars, worker>>

\* A command fails: the worker reports it, ends, and drops its queue.
WorkerFails ==
  /\ worker = "up" /\ smq # <<>>
  /\ worker' = "failed" /\ smq' = <<>>
  /\ UNCHANGED <<call, api, core, fate, coreState, signal, coreVars, applied>>
----------------------------------------------------------------------------
Calls(c) ==
  \/ ClientWrite(c) \/ WriteWithLeader(c) \/ ClientWriteFf(c) \/ ChangeMembership(c)
  \/ Initialize(c) \/ WithRaftState(c) \/ IsInitialized(c) \/ ExternalRequest(c)
  \/ AppendEntries(c) \/ Vote(c) \/ ReceiveSnapshot(c)
  \/ WithStateMachine(c) \/ ExternalStateMachineRequest(c)
  \/ GetSnapshot(c) \/ BeginReceivingSnapshot(c)
  \/ TriggerElect(c) \/ Trigger(c) \/ TriggerTransferLeader(c) \/ Shutdown(c)

Proceed(c) ==
  \/ SendMsg(c) \/ SendFails(c) \/ RecvFails(c) \/ JoinCoreTask(c) \/ CoreExited(c)
  \/ WatchEnds(c)

\* Calls that write nothing do not look at the log: without a writer the
\* peers are left out.
Peers ==
  /\ \E c \in Caller : call[c].kind \in WriteMsg
  /\ \/ \E i \in 1..MaxIndex : QuorumGranted(i)
     \/ HigherVote \/ TickElection \/ EstablishLeader
     \/ \E keep, n, commit \in 0..MaxIndex : FollowerAppend(keep, n, commit)
     \/ \E i, m \in 0..MaxIndex : InstallFullSnapshot(i, m)

Core == HandleApiMsg \/ RecvShutdown \/ LocalIO \/ CoreStops

Next ==
  \/ \E c \in Caller : Calls(c) \/ Proceed(c) \/ Cancel(c)
  \/ Core \/ StorageError \/ Peers \/ WorkerLoop \/ WorkerFails

\* The runtime polls every task that can run; an IO ends or fails; RaftCore
\* sees the error of the worker.  No peer has to send anything.
Fairness ==
  /\ \A c \in Caller : WF_vars(Proceed(c))
  /\ WF_vars(HandleApiMsg) /\ WF_vars(RecvShutdown) /\ WF_vars(LocalIO)
  /\ WF_vars(CoreStops)
  /\ WF_vars(worker = "failed" /\ StorageError)
  /\ WF_vars(WorkerLoop)

Spec == Init /\ [][Next]_vars /\ Fairness
----------------------------------------------------------------------------
Ended(c) == call[c].at \in {"done", "cancelled"}

\* A write answered with Ok is applied, under the index it is answered with,
\* and under the leader its caller asked for.  Responders are kept by index,
\* and between the append and the answer the entry at that index may be
\* replaced by a later leader's, the node may lead again and append more, and
\* the caller may have read the leader id long before.
OkIsOwnEntry ==
  \A c \in Caller :
    (call[c].kind \in WriteMsg /\ call[c].res = "ok") =>
      /\ call[c].index \in 1..applied
      /\ log[call[c].index].by = c
      /\ call[c].expect \in {0, log[call[c].index].term}

\* A caller concludes from a dropped sender that RaftCore has stopped, takes
\* core_state to Joining and waits for the task to end: so while RaftCore and
\* the worker run, whoever handles a call answers it or passes it on.
NoneForgotten ==
  core = "running" /\ worker = "up" =>
    \A c \in Caller : call[c].at = "waiting" => c \in Held

\* The answer waits for an IO whose report was lost; the next IO brings it.
AwaitsLost(c) ==
  \E x \in pending : x[2] = c /\ x[1] \notin (1..flushed) \cup syncing

\* A call that does not wait for a quorum ends whatever the peers do, and
\* every call ends once RaftCore has stopped: with the channel full, the
\* worker failed, another caller joining the task, or the one that was
\* joining it cancelled.  The exception is an answer to a peer that waits for
\* an IO whose report was lost.
CallsEnd ==
  \A c \in Caller :
    (call[c].at # "idle" /\ (call[c].kind \notin WriteMsg \/ core # "running"))
      ~> (Ended(c) \/ AwaitsLost(c))

\* io_progress.rs:26: "An accepted I/O will eventually be submitted and
\* flushed."  RaftCore, if it goes on, hears of every IO.
AcceptedIsFlushed == []<>(core # "running" \/ flushed = submitted)
============================================================================
