------------------------------ MODULE Watchers ------------------------------
(***************************************************************************)
(* What an application hears of RaftCore without asking it: the watch      *)
(* channels RaftCore publishes to before it waits for its next message     *)
(* (flush_metrics), and the tasks that read them: the callbacks of         *)
(* on_leader_change and on_cluster_leader_change, and the waits of         *)
(* add_learner and handle_transfer_leader.  A watch channel keeps its last *)
(* value only, so a reader may miss any value but the last.                *)
(*                                                                         *)
(* The node has one peer, whose votes are the greater ones of a term.      *)
(***************************************************************************)
EXTENDS Naturals, Sequences

CONSTANTS
  MaxTerm,    \* bound on terms
  MaxIndex,   \* bound on the log
  MaxIO,      \* bound on IOs in flight
  Lag,        \* config.replication_lag_threshold
  Uses        \* sets of tasks an application runs together

NotLeader == MaxIndex + 1    \* metrics.replication is None

VARIABLES
  running,    \* RaftCore has not returned
  vote,       \* the vote RaftCore has accepted
  last,       \* its last log index
  ios,        \* IOs submitted and not on disk: the vote and the log they reach
  flushed,    \* what is on disk
  matching,   \* how far the leader has replicated to the new learner
  member,     \* index of the membership, and does it hold the learner?
  ticks,      \* ticks in RaftCore's notification channel, of capacity 1
  voteCh,     \* IoProgressSender.vote_tx
  metrics,    \* tx_metrics
  watch,      \* the task of watch_vote_change: its state and unseen value
  serving,    \* on_leader_change: term of the last start without a stop, or 0
  told,       \* on_cluster_leader_change: the last leader called back with
  learner,    \* the caller of add_learner
  transfer,   \* the caller of handle_transfer_leader
  tick        \* the tick loop

core == <<vote, last, ios, flushed, matching, member>>
channels == <<voteCh, metrics>>
tasks == <<watch, serving, told, learner, transfer, tick>>
vars == <<running, core, ticks, channels, tasks>>

Vote(t, p, c) == [term |-> t, peer |-> p, committed |-> c]
LeaderId(v) == <<v.term, v.peer>>
Bit(b) == IF b THEN 1 ELSE 0
Rank(v) == 4 * v.term + 2 * Bit(v.peer) + Bit(v.committed)
VoteGE(v, w) == Rank(v) >= Rank(w)
NoVote == Vote(0, FALSE, FALSE)
IsLeader == vote.committed /\ ~vote.peer

Report ==
  [vote |-> flushed.vote, last |-> last, member |-> member,
   repl |-> IF IsLeader THEN matching ELSE NotLeader]

Waiter(at) == [at |-> at, unseen |-> TRUE, res |-> "none", vote |-> NoVote, index |-> 0]

Init ==
  /\ running = TRUE
  /\ vote = NoVote /\ last = 0 /\ ios = <<>>
  /\ flushed = [vote |-> NoVote, last |-> 0]
  /\ matching = 0 /\ member = [at |-> 0, in |-> FALSE]
  /\ ticks = 0
  /\ voteCh = NoVote /\ metrics = Report
  /\ serving = 0 /\ told = <<>>
  /\ \E use \in Uses :
       /\ watch = [at |-> IF "watch" \in use THEN "on" ELSE "off", unseen |-> TRUE]
       /\ learner = Waiter(IF "learner" \in use THEN "idle" ELSE "done")
       /\ transfer = Waiter(IF "transfer" \in use THEN "idle" ELSE "done")
       /\ tick = IF "tick" \in use THEN "sleep" ELSE "off"
----------------------------------------------------------------------------
(* RaftCore.                                                               *)

\* A log IO is submitted for what the vote and the log are now.
Submit(v, l) == ios' = Append(ios, [vote |-> v, last |-> l])

Alone == UNCHANGED <<running, channels, tasks>>

NewVote(v, l) ==
  /\ Len(ios) < MaxIO /\ v.term <= MaxTerm /\ l <= MaxIndex
  /\ vote' = v /\ last' = l
  /\ Submit(v, l)
  /\ matching' = 0
  /\ UNCHANGED <<flushed, member>>

Elect == NewVote(Vote(vote.term + 1, FALSE, FALSE), last)

\* The peer asks for a vote, or is the leader.
PeerVote(t, c) ==
  LET v == Vote(t, TRUE, c)
  IN /\ running /\ Rank(v) > Rank(vote) /\ NewVote(v, last)
     /\ UNCHANGED ticks /\ Alone

\* The node wins the election and appends a blank entry.
EstablishLeader ==
  /\ running /\ vote.term > 0 /\ ~vote.peer /\ ~vote.committed
  /\ NewVote([vote EXCEPT !.committed = TRUE], last + 1)
  /\ UNCHANGED ticks /\ Alone

\* Entries of the leader.  The peer's may replace some of an older leader's.
AppendLog(l) ==
  /\ running /\ vote.committed /\ Len(ios) < MaxIO
  /\ l # last /\ (IsLeader => l = last + 1)
  /\ last' = l
  /\ Submit(vote, l)
  /\ UNCHANGED <<vote, flushed, matching, member, ticks>> /\ Alone

\* Notification::LocalIO.  A vote is reported by RaftCore itself; the report
\* of an append may be lost (RaftApi).
LocalIO ==
  /\ running /\ ios # <<>>
  /\ \/ flushed' = Head(ios)
     \/ flushed' = [flushed EXCEPT !.vote = Head(ios).vote]
  /\ ios' = Tail(ios)
  /\ UNCHANGED <<vote, last, matching, member, ticks>> /\ Alone

\* The leader hears from the learner.
ReplicationProgress(i) ==
  /\ running /\ IsLeader /\ member.in /\ i \in (matching + 1)..last
  /\ matching' = i
  /\ UNCHANGED <<vote, last, ios, flushed, member, ticks>> /\ Alone

\* Another change of the membership removes the learner.
RemoveLearner ==
  /\ running /\ IsLeader /\ member.in
  /\ member' = [at |-> member.at, in |-> FALSE]
  /\ UNCHANGED <<vote, last, ios, flushed, matching, ticks>> /\ Alone

\* handle_tick_election; the lease and the timeout allow it or not.
HandleTick ==
  /\ running /\ ticks > 0 /\ ticks' = ticks - 1
  /\ (Elect /\ ~IsLeader) \/ UNCHANGED core
  /\ Alone

\* A mutant: watchers of the vote wake when the log has grown.
SendVoteOfLog ==
  /\ voteCh' = flushed.vote
  /\ watch' = [watch EXCEPT !.unseen = @ \/ metrics.last # last]

\* send_log_progress: watchers of the vote wake when the vote differs.
SendLogProgress ==
  /\ voteCh' = flushed.vote
  /\ watch' = [watch EXCEPT !.unseen = @ \/ voteCh # flushed.vote]

\* report_metrics: tx_metrics is sent whether it changed or not.
ReportMetrics ==
  /\ metrics' = Report
  /\ learner' = [learner EXCEPT !.unseen = TRUE]
  /\ transfer' = [transfer EXCEPT !.unseen = TRUE]

\* flush_metrics, at the top of runtime_loop.
FlushMetrics ==
  /\ running /\ (voteCh # flushed.vote \/ metrics # Report)
  /\ SendLogProgress /\ ReportMetrics
  /\ UNCHANGED <<running, core, ticks, serving, told, tick>>

\* main() flushes once more, publishes the Shutdown state and drops the
\* senders.
MainReturns ==
  /\ running /\ running' = FALSE /\ ticks' = 0
  /\ SendLogProgress /\ ReportMetrics
  /\ UNCHANGED <<core, serving, told, tick>>
----------------------------------------------------------------------------
(* on_leader_change and on_cluster_leader_change.                          *)

\* start is called with a leadership of this node that is committed and new,
\* stop when the vote is another node's.
OnLeaderChange(v) ==
  serving' = CASE ~v.peer /\ v.committed -> v.term
               [] ~v.peer /\ ~v.committed -> serving
               [] OTHER -> 0

\* The callback runs when the leader id has changed.
OnClusterLeaderChange(v) ==
  told' = IF told = <<>> \/ told # LeaderId(v) THEN LeaderId(v) ELSE told

\* watch_vote_change: changed(), then get() of a vote that has been sent.
WatchVoteChange ==
  /\ watch.at = "on" /\ watch.unseen
  /\ watch' = [watch EXCEPT !.unseen = FALSE]
  /\ IF voteCh = NoVote THEN UNCHANGED <<serving, told>>
     ELSE OnLeaderChange(voteCh) /\ OnClusterLeaderChange(voteCh)
  /\ UNCHANGED <<running, core, ticks, channels, learner, transfer, tick>>

\* changed() fails: the sender is dropped and its last value seen.
WatchTaskEnds ==
  /\ watch.at = "on" /\ ~running /\ ~watch.unseen
  /\ watch' = [watch EXCEPT !.at = "off"]
  /\ UNCHANGED <<running, core, ticks, channels, serving, told, learner, transfer, tick>>

\* WatchChangeHandle::close.
CloseWatch ==
  /\ watch.at = "on"
  /\ watch' = [watch EXCEPT !.at = "off"]
  /\ UNCHANGED <<running, core, ticks, channels, serving, told, learner, transfer, tick>>
----------------------------------------------------------------------------
(* Wait::metrics.  One poll looks at the last metrics, then sleeps until   *)
(* there are new ones, the sender is gone or time is up.                   *)

Wait(w, cond) ==
  CASE cond -> [w EXCEPT !.at = "ready", !.res = "ok"]
    [] ~cond /\ ~w.unseen -> [w EXCEPT !.at = "ready", !.res = "shuttingDown"]
    [] OTHER -> [w EXCEPT !.unseen = FALSE]
MayPoll(w) == w.at = "waiting" /\ (w.unseen \/ ~running)

\* The change of add_learner is applied; the caller has the membership's id.
AddLearner ==
  /\ running /\ IsLeader /\ learner.at = "idle" /\ last < MaxIndex /\ Len(ios) < MaxIO
  /\ last' = last + 1 /\ Submit(vote, last + 1)
  /\ member' = [at |-> last + 1, in |-> TRUE]
  /\ matching' = 0
  /\ learner' = [Waiter("waiting") EXCEPT !.index = last + 1]
  /\ UNCHANGED <<running, vote, flushed, ticks, channels, watch, serving, told,
                 transfer, tick>>

\* check_replication_upto_date
UpToDate(m, at) ==
  /\ m.member.at >= at
  /\ ~m.member.in \/ m.repl = NotLeader \/ m.repl + Lag >= m.last

AwaitLearner ==
  /\ MayPoll(learner)
  /\ learner' = Wait(learner, UpToDate(metrics, learner.index))
  /\ UNCHANGED <<running, core, ticks, channels, watch, serving, told, transfer, tick>>

\* The leader, the peer, hands over to this node: its vote and last log id.
RecvTransferLeader(t, i) ==
  /\ transfer.at = "idle"
  /\ transfer' = [Waiter("waiting") EXCEPT !.vote = Vote(t, TRUE, TRUE), !.index = i]
  /\ UNCHANGED <<running, core, ticks, channels, watch, serving, told, learner, tick>>

TransferOk(m, w)   == m.vote = w.vote /\ m.last >= w.index
TransferFail(m, w) == ~VoteGE(w.vote, m.vote)

\* ensure_log_flushed_for_transfer_leader: whatever the wait returns, the
\* message is sent.
EnsureLogFlushed ==
  /\ MayPoll(transfer)
  /\ transfer' = Wait(transfer, TransferOk(metrics, transfer) \/ TransferFail(metrics, transfer))
  /\ UNCHANGED <<running, core, ticks, channels, watch, serving, told, learner, tick>>

TransferTimeout ==
  /\ transfer.at = "waiting"
  /\ transfer' = [transfer EXCEPT !.at = "ready", !.res = "timeout"]
  /\ UNCHANGED <<running, core, ticks, channels, watch, serving, told, learner, tick>>

\* RaftMsg::HandleTransferLeader
HandleTransferLeader ==
  /\ running /\ transfer.at = "ready"
  /\ transfer' = [transfer EXCEPT !.at = "done"]
  /\ IF vote = transfer.vote
     THEN Elect
     ELSE UNCHANGED core
  /\ UNCHANGED <<running, ticks, channels, watch, serving, told, learner, tick>>
----------------------------------------------------------------------------
(* The tick loop.  It sees the cancellation between two sends only.        *)

TickFires ==
  /\ tick = "sleep"
  /\ tick' = "send"
  /\ UNCHANGED <<running, core, ticks, channels, watch, serving, told, learner, transfer>>

\* A mutant: the error of send() is ignored.
TickSentUnchecked ==
  /\ tick = "send" /\ (ticks < 1 \/ ~running)
  /\ ticks' = IF running THEN ticks + 1 ELSE ticks
  /\ tick' = "sleep"
  /\ UNCHANGED <<running, core, channels, watch, serving, told, learner, transfer>>

\* tx.send() waits for room; it fails when RaftCore is gone.
TickSent ==
  /\ tick = "send" /\ (ticks < 1 \/ ~running)
  /\ IF running THEN ticks' = ticks + 1 /\ tick' = "sleep"
     ELSE tick' = "off" /\ UNCHANGED ticks
  /\ UNCHANGED <<running, core, channels, watch, serving, told, learner, transfer>>

\* TickHandle::shutdown, or its drop.
TickCancelled ==
  /\ tick = "sleep" /\ ~running
  /\ tick' = "off"
  /\ UNCHANGED <<running, core, ticks, channels, watch, serving, told, learner, transfer>>
----------------------------------------------------------------------------
Core ==
  \/ \E t \in 1..MaxTerm, c \in BOOLEAN : PeerVote(t, c)
  \/ EstablishLeader \/ HandleTick
  \/ \E l \in 1..MaxIndex : AppendLog(l)
  \/ \E i \in 1..MaxIndex : ReplicationProgress(i)
  \/ AddLearner \/ RemoveLearner

Tasks ==
  \/ WatchVoteChange \/ WatchTaskEnds \/ AwaitLearner \/ EnsureLogFlushed
  \/ TransferTimeout \/ HandleTransferLeader \/ TickFires \/ TickSent \/ TickCancelled

Requests ==
  \/ CloseWatch \/ MainReturns
  \/ \E t \in 1..MaxTerm, i \in 0..MaxIndex : RecvTransferLeader(t, i)

Next == Core \/ LocalIO \/ FlushMetrics \/ Tasks \/ Requests

\* IOs end; runtime_loop publishes before it waits; the runtime polls tasks
\* that can run; the timer fires.  Nobody has to win or to replicate.
Fairness ==
  /\ WF_vars(LocalIO) /\ WF_vars(FlushMetrics) /\ WF_vars(HandleTick)
  /\ WF_vars(WatchVoteChange) /\ WF_vars(WatchTaskEnds)
  /\ WF_vars(AwaitLearner) /\ WF_vars(EnsureLogFlushed) /\ WF_vars(TransferTimeout)
  /\ WF_vars(TickFires) /\ WF_vars(TickSent) /\ WF_vars(TickCancelled)

Spec == Init /\ [][Next]_vars /\ Fairness
----------------------------------------------------------------------------
\* The application that starts its services in `start` and stops them in
\* `stop` ends up right: unless the vote changes for ever, they run if this
\* node is the leader and do not if another node is, and the leader last
\* called back with is that of the vote.  The vote goes through the disk, a
\* coalescing channel and a task on its way to the callback.
WatchFollows ==
  []<>(running /\ watch.at = "on" =>
         /\ IsLeader => serving = vote.term
         /\ vote.peer => serving = 0
         /\ vote # NoVote => told = LeaderId(vote))

\* No wait sticks: add_learner, which has no timeout, returns once the
\* learner stays near, is removed, or the node no longer leads; the wait for
\* a transfer ends; and when RaftCore is gone every task ends.
NoWaitSticks ==
  /\ []<>(learner.at = "waiting" => running /\ ~UpToDate(Report, learner.index))
  /\ []<>(transfer.at # "waiting")
  /\ []<>(running \/ (watch.at = "off" /\ tick = "off"))
=============================================================================
