------------------------------ MODULE LogStore ------------------------------
(***************************************************************************)
(* RocksLogStore (kv-store/src/store/log_store.rs) on a database that may  *)
(* lose the writes of its write-ahead log that have not been synced, used  *)
(* the way openraft's RaftCore uses it, and the repair openraft makes when *)
(* the node starts again (storage/helper.rs).                              *)
(*                                                                         *)
(* Every column family shares one write-ahead log, so a power loss keeps   *)
(* some prefix of the writes that contains everything synced.  survivors   *)
(* is the set of contents such a prefix can leave behind: a write adds the *)
(* new contents to it, flush_wal(true) reduces it to the current contents, *)
(* and a crash picks one of its members.  The death of the process alone   *)
(* is the pick of db itself.                                               *)
(***************************************************************************)
EXTENDS Storage, Sequences

CONSTANTS
  MaxIndex,       \* bound on log indexes (u64 in the code)
  MaxTerm,        \* bound on terms (u64 in the code)
  MaxBatch,       \* bound on the entries of one append
  StaleTail       \* may a snapshot reach beyond a log whose last entry is of
                  \* a later term than the snapshot (a deposed leader's)?

ASSUME BoundsAssumption ==
  /\ MaxIndex \in Nat
  /\ MaxTerm \in Nat
  /\ MaxBatch \in Nat
  /\ StaleTail \in BOOLEAN

VARIABLES
  db,           \* contents of the database as the running process reads it
  survivors,    \* contents a power loss may leave
  up,           \* is the process running?
  saving,       \* vote whose save_vote waits for flush_wal, or 0
  flushing,     \* last indexes of appends whose flush task has not ended
  pendingPurge, \* log id of the PurgeLog command an install queued
  acked,        \* entries <<index, term>> reported to openraft as flushed
                \* and not truncated or purged since
  ackedVote     \* the highest vote save_vote has returned for

vars == <<db, survivors, up, saving, flushing, pendingPurge, acked, ackedVote>>

Index == 1..MaxIndex
Term  == 1..MaxTerm
LogId == [term : 0..MaxTerm, index : 0..MaxIndex]

Contents == [log    : UNION {[S -> Term] : S \in SUBSET Index},
             purged : LogId,
             vote   : 0..MaxTerm,
             snap   : LogId]

EmptyDb == [log |-> [i \in {} |-> 0], purged |-> NoLogId, vote |-> 0, snap |-> NoLogId]

Init ==
  /\ db = EmptyDb
  /\ survivors = {EmptyDb}
  /\ up = TRUE
  /\ saving = 0
  /\ flushing = {}
  /\ pendingPurge = NoLogId
  /\ acked = {}
  /\ ackedVote = 0

(***************************************************************************)
(* What openraft waits for before it runs the next command on the store.   *)
(***************************************************************************)
CoreFree == up /\ saving = 0 /\ pendingPurge = NoLogId
----------------------------------------------------------------------------
\* save_vote up to its await: the vote is put, the sync has been started.
SaveVote(v) ==
  /\ CoreFree
  /\ v > db.vote
  /\ db' = PutVote(db, v)
  /\ survivors' = survivors \cup {PutVote(db, v)}
  /\ saving' = v
  /\ UNCHANGED <<up, flushing, pendingPurge, acked, ackedVote>>

\* A mutant: save_vote that returns without flush_wal(true).
SaveVoteReturnUnflushed ==
  /\ saving # 0
  /\ ackedVote' = saving
  /\ saving' = 0
  /\ UNCHANGED <<db, survivors, up, flushing, pendingPurge, acked>>

\* save_vote after its await: flush_wal(true) has ended, the call returns.
SaveVoteReturn ==
  /\ saving # 0
  /\ survivors' = {db}
  /\ ackedVote' = saving
  /\ saving' = 0
  /\ UNCHANGED <<db, up, flushing, pendingPurge, acked>>

\* append: one put per entry of the batch, then the flush task is spawned.
AppendEntries(es) ==
  LET base == LastLogId(db).index
  IN /\ CoreFree
     /\ base + Len(es) <= MaxIndex
     /\ \A k \in 1..Len(es) :
          /\ LastLogId(db).term <= es[k]
          /\ es[k] <= db.vote
          /\ \A j \in 1..k : es[j] <= es[k]
     /\ db' = PutEntries(db, base, es, Len(es))
     /\ survivors' = survivors \cup
                       {PutEntries(db, base, es, n) : n \in 1..Len(es)}
     /\ flushing' = flushing \cup {base + Len(es)}
     /\ UNCHANGED <<up, saving, pendingPurge, acked, ackedVote>>

\* A mutant: the callback runs before the write-ahead log is synced.
IoCompletedUnflushed(last) ==
  /\ last \in flushing
  /\ flushing' = flushing \ {last}
  /\ acked' = acked \cup
       {<<i, db.log[i]>> : i \in {j \in DOMAIN db.log : j <= last}}
  /\ UNCHANGED <<db, survivors, up, saving, pendingPurge, ackedVote>>

\* The flush task of an append: flush_wal(true), then io_completed.  Several
\* of them run on the blocking pool, in any order, also during a save_vote.
IoCompleted(last) ==
  /\ last \in flushing
  /\ flushing' = flushing \ {last}
  /\ survivors' = {db}
  /\ acked' = acked \cup
       {<<i, db.log[i]>> : i \in {j \in DOMAIN db.log : j <= last}}
  /\ UNCHANGED <<db, up, saving, pendingPurge, ackedVote>>

\* truncate: openraft removes a conflicting suffix, never what a snapshot
\* covers; the deletion is not synced.
Truncate(from) ==
  /\ CoreFree
  /\ from \in DOMAIN db.log
  /\ from > db.snap.index
  /\ db' = DeleteFrom(db, from)
  /\ survivors' = survivors \cup {DeleteFrom(db, from)}
  /\ acked' = {e \in acked : e[1] < from}
  /\ UNCHANGED <<up, saving, flushing, pendingPurge, ackedVote>>

\* set_current_snapshot_ called by a snapshot builder for an applied index,
\* a task of its own that may write while a vote is being saved.  (A builder
\* that ends during an install is looked at in Node.)
BuildSnapshot(n) ==
  LET d == [db EXCEPT !.snap = [term |-> db.log[n], index |-> n]]
  IN /\ up /\ pendingPurge = NoLogId
     /\ n \in DOMAIN db.log
     /\ n > db.snap.index
     /\ db' = d
     /\ survivors' = {d}
     /\ UNCHANGED <<up, saving, flushing, pendingPurge, acked, ackedVote>>

\* A snapshot the engine installs: newer than the one it has, of a leader
\* whose vote it accepted, a conflicting entry at its index removed before.
Installable(id) ==
  /\ id.index > db.snap.index
  /\ id.term >= db.snap.term
  /\ id.term <= db.vote
  /\ id.index \in DOMAIN db.log => db.log[id.index] = id.term
  /\ \/ StaleTail /\ LastLogId(db).term < db.vote
     \/ id.index <= LastLogId(db).index
     \/ LogIdLt(LastLogId(db), id)

\* set_current_snapshot_ called by install_snapshot; the engine has queued
\* PurgeLog behind it, which holds back the commands after it.
InstallSnapshot(id) ==
  LET d == [db EXCEPT !.snap = id]
  IN /\ CoreFree
     /\ Installable(id)
     /\ db' = d
     /\ survivors' = {d}
     /\ pendingPurge' = id
     /\ UNCHANGED <<up, saving, flushing, acked, ackedVote>>

\* A mutant: the entries are deleted before last_purged_log_id is written.
PurgeRangeFirst(id) ==
  /\ db' = PurgeRange(db, id)
  /\ survivors' = survivors \cup {DeleteUpto(db, id.index), PurgeRange(db, id)}
  /\ acked' = {e \in acked : e[1] > id.index}

\* purge: last_purged_log_id first, then the range, neither of them synced.
Purge(id) ==
  /\ db' = PurgeRange(db, id)
  /\ survivors' = survivors \cup {PurgeMeta(db, id), PurgeRange(db, id)}
  /\ acked' = {e \in acked : e[1] > id.index}

\* The PurgeLog command behind an install.
PurgeInstalled ==
  /\ up /\ saving = 0
  /\ pendingPurge # NoLogId
  /\ Purge(pendingPurge)
  /\ pendingPurge' = NoLogId
  /\ UNCHANGED <<up, saving, flushing, ackedVote>>

\* The PurgeLog command of the purge policy: only what a snapshot covers.
PurgeByPolicy(n) ==
  /\ CoreFree
  /\ n \in DOMAIN db.log
  /\ n > db.purged.index
  /\ n <= db.snap.index
  /\ Purge([term |-> db.log[n], index |-> n])
  /\ UNCHANGED <<up, saving, flushing, pendingPurge, ackedVote>>

\* Power loss, or the death of the process.
Crash ==
  /\ up
  /\ \E d \in survivors : db' = d /\ survivors' = {d}
  /\ up' = FALSE
  /\ saving' = 0
  /\ flushing' = {}
  /\ pendingPurge' = NoLogId
  /\ UNCHANGED <<acked, ackedVote>>

\* get_key_log_ids reads the first entry after last_purged_log_id unless the
\* log ends there; an entry that is missing fails the start of the node.
KeysLoadable(d) ==
  \/ LastLogId(d).index = d.purged.index
  \/ d.purged.index + 1 \in DOMAIN d.log

\* A mutant: start without the repair of get_initial_state.
StartUnrepaired ==
  /\ ~up
  /\ up' = TRUE
  /\ UNCHANGED <<db, survivors, acked, saving, flushing, pendingPurge, ackedVote>>

\* get_initial_state: the state machine starts from the snapshot, and a log
\* that ends before it, in the order of log ids, is purged up to it.
Start ==
  /\ ~up
  /\ up' = TRUE
  /\ IF LogIdLt(LastLogId(db), db.snap)
     THEN Purge(db.snap)
     ELSE KeysLoadable(db) /\ UNCHANGED <<db, survivors, acked>>
  /\ UNCHANGED <<saving, flushing, pendingPurge, ackedVote>>
----------------------------------------------------------------------------
Batch == UNION {[1..n -> Term] : n \in 1..MaxBatch}

Next ==
  \/ \E v \in Term : SaveVote(v)
  \/ SaveVoteReturn
  \/ \E es \in Batch : AppendEntries(es)
  \/ \E i \in flushing : IoCompleted(i)
  \/ \E i \in Index : Truncate(i)
  \/ \E n \in Index : BuildSnapshot(n)
  \/ \E id \in [term : Term, index : Index] : InstallSnapshot(id)
  \/ PurgeInstalled
  \/ \E n \in Index : PurgeByPolicy(n)
  \/ Crash
  \/ Start

Spec == Init /\ [][Next]_vars
----------------------------------------------------------------------------
TypeOK ==
  /\ db \in Contents
  /\ survivors \in SUBSET Contents
  /\ up \in BOOLEAN
  /\ saving \in 0..MaxTerm
  /\ flushing \in SUBSET Index
  /\ pendingPurge \in LogId
  /\ acked \in SUBSET (Index \X Term)
  /\ ackedVote \in 0..MaxTerm

\* Whatever a power loss leaves behind holds every entry that io_completed
\* reported as flushed and that openraft has not truncated or purged since.
AckedEntriesSurvive ==
  \A d \in survivors : \A e \in acked :
    e[1] \in DOMAIN d.log /\ d.log[e[1]] = e[2]

\* Whatever a power loss leaves behind holds the last vote save_vote
\* returned for, or a later one: a node never forgets a vote it answered.
AckedVoteSurvives == \A d \in survivors : d.vote >= ackedVote

\* Every log a restart can find is gapless above last_purged_log_id, though
\* purge writes the meta key and deletes the range in two unsynced steps.
NoGap(d) ==
  \A i \in DOMAIN d.log : \A j \in (d.purged.index + 1)..i : j \in DOMAIN d.log

NoGapSurvives == \A d \in survivors : NoGap(d)

\* Every log a restart can find was purged only up to what the snapshot
\* found with it covers.
SnapshotCoversPurge == \A d \in survivors : d.purged.index <= d.snap.index

\* On a running node that waits for no purge, the last log id is not before
\* the snapshot's: what get_initial_state's clean-up of an install that a
\* crash cut in two is for, and what RaftState::validate asserts.
LogNotBehindSnapshot ==
  up /\ pendingPurge = NoLogId => ~LogIdLt(LastLogId(db), db.snap)
============================================================================
