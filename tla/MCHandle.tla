------------------------------ MODULE MCHandle ------------------------------
(***************************************************************************)
(* The parts of a Raft handle that keep state of their own beside          *)
(* RaftCore: the tasks of Watchers and the snapshot stream of              *)
(* SnapshotStream.  They share nothing, so a behaviour exercises one of    *)
(* them: the stream when the application runs no watching task.  Where     *)
(* only votes are watched, no log grows but by the blanks of new leaders.  *)
(***************************************************************************)
EXTENDS SnapshotStream, Sequences

CONSTANTS MaxIndex, MaxIO, Lag, Uses

VARIABLES focus, running, coreVote, last, ios, flushed, matching, member, ticks, voteCh,
          metrics, watch, serving, told, learner, transfer, tick

Tasks == INSTANCE Watchers WITH vote <- coreVote

taskVars == <<running, coreVote, last, ios, flushed, matching, member, ticks, voteCh, metrics,
              watch, serving, told, learner, transfer, tick>>

TheUses == {{}, {"watch", "tick"}, {"learner", "tick"}, {"transfer"}}

HandleInit ==
  /\ Init /\ Tasks!Init
  /\ focus = CASE watch.at = "on" -> "votes"
               [] learner.at = "idle" \/ transfer.at = "idle" -> "waits"
               [] OTHER -> "stream"

HandleNext ==
  /\ UNCHANGED focus
  /\ \/ /\ focus = "votes" /\ Tasks!Next
        /\ coreVote' = coreVote => last' = last
        /\ UNCHANGED vars
     \/ focus = "waits" /\ Tasks!Next /\ UNCHANGED vars
     \/ focus = "stream" /\ Next /\ UNCHANGED taskVars

HandleSpec ==
  HandleInit /\ [][HandleNext]_<<vars, focus, taskVars>> /\ Fairness /\ Tasks!Fairness

\* The callbacks of on_leader_change and on_cluster_leader_change end up right,
\* though votes reach them through the disk, a channel that keeps the last
\* value only, and a task.
WatchFollows == Tasks!WatchFollows

\* The waits of add_learner and of a transfer end, and every task ends with
\* RaftCore.
NoWaitSticks == Tasks!NoWaitSticks
=============================================================================
