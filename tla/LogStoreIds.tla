---------------------------- MODULE LogStoreIds ----------------------------
(***************************************************************************)
(* RaftState.log_ids beside the log store: the engine changes its list of  *)
(* key log ids in the step that queues the command for the store, and      *)
(* reads it back from the log when the node starts.                        *)
(***************************************************************************)
EXTENDS LogStore, LogIdList

CONSTANT MaxSearch   \* bound: entries and leaders of the logs searched

VARIABLE keys     \* RaftState.log_ids.key_log_ids

IdsInit == Init /\ keys = <<>>

\* The ids the entries of a batch get after index base.
IdsOf(base, es) == [k \in DOMAIN es |-> [term |-> es[k], index |-> base + k]]

\* do_append_entries of a follower: Extend; leader_append_entries of a leader,
\* all of whose entries have its term: ExtendFromSameLeader.
AppendIds(es) ==
  LET ids == IdsOf(LastLogId(db).index, es)
  IN /\ AppendEntries(es)
     /\ \/ keys' = Extend(keys, ids)
        \/ /\ \A k \in DOMAIN es : es[k] = db.vote
           /\ keys' = ExtendFromSameLeader(keys, ids)

TruncateLogs(i) == Truncate(i) /\ keys' = TruncateIds(keys, i)

\* install_full_snapshot calls purge_log before the store gets the command.
InstallFullSnapshot(id) == InstallSnapshot(id) /\ keys' = PurgeIds(keys, id)

\* calc_purge_upto asks the list for the id to purge up to.
PurgeLog(n) == PurgeByPolicy(n) /\ keys' = PurgeIds(keys, RefAt(keys, n))

StartLoads == Start /\ keys' = Load(db')

CrashForgets == Crash /\ keys' = <<>>

\* What the store does without the engine's list.
StoreStep ==
  /\ \/ \E v \in Term : SaveVote(v)
     \/ SaveVoteReturn
     \/ \E i \in flushing : IoCompleted(i)
     \/ \E n \in Index : BuildSnapshot(n)
     \/ PurgeInstalled
  /\ UNCHANGED keys

IdsNext ==
  \/ \E es \in Batch : AppendIds(es)
  \/ \E i \in Index : TruncateLogs(i)
  \/ \E id \in [term : Term, index : Index] : InstallFullSnapshot(id)
  \/ \E n \in Index : PurgeLog(n)
  \/ StartLoads
  \/ CrashForgets
  \/ StoreStep

IdsSpec == IdsInit /\ [][IdsNext]_<<vars, keys>>
----------------------------------------------------------------------------
\* The log the engine looks at: without what a queued PurgeLog will delete
\* and without what a torn purge left below last_purged_log_id.
EngineLog ==
  LET d == IF pendingPurge = NoLogId THEN db ELSE PurgeMeta(db, pendingPurge)
  IN [i \in {j \in DOMAIN d.log \cup {d.purged.index} : j > 0 /\ j >= d.purged.index} |->
        IF i = d.purged.index THEN d.purged.term ELSE d.log[i]]

\* Through every append, truncation, purge, install and restart the engine's
\* compressed list says of every index what the log says: log matching,
\* elections and replication read terms from the list and never from the log.
IdsMatchLog ==
  up => \A i \in Index :
          RefAt(keys, i) = IF i \in DOMAIN EngineLog THEN LogIdAt(EngineLog, i)
                                                     ELSE NoLogId

\* The first id of each leader and the last id of a log, in order.
KeyIds(log) ==
  LET Key(i) == i - 1 \notin DOMAIN log \/ i + 1 \notin DOMAIN log \/ log[i - 1] # log[i]
  IN SetToSortSeq({LogIdAt(log, i) : i \in {j \in DOMAIN log : Key(j)}},
                  LAMBDA a, b : a.index < b.index)

\* The list changed step by step is the one a restart would read: it has the
\* first id of each leader, the last id and nothing else, which
\* by_last_leader and the next append rely on.
KeysAreCanonical ==
  /\ up => keys = KeyIds(EngineLog)
  /\ up /\ keys # <<>> =>
       LET last == {k \in ToSet(keys) : k.term = Last(keys).term}
       IN ToSet(ByLastLeader(keys)) = last

\* The binary search with its stack of ranges finds the first id of every
\* leader once and in order, in every log up to the bound: a change of leader
\* at any place, several leaders between two probes, leaders of one entry.
\* (It speaks of no state; asking it of the first state alone keeps it cheap.)
SearchFindsLeaders ==
  db = EmptyDb /\ ackedVote = 0 /\ saving = 0 /\ up =>
  \A n \in 1..MaxSearch : \A log \in [1..n -> 1..MaxSearch] :
    (\A i \in 2..n : log[i - 1] <= log[i]) =>
      GetKeyLogIds(log, LogIdAt(log, 1), LogIdAt(log, n)) = KeyIds(log)
============================================================================
