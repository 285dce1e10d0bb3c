------------------------------ MODULE Storage ------------------------------
(***************************************************************************)
(* The one RocksDB database of a kv-store node (store/mod.rs:268-286) and  *)
(* the reads and writes RocksLogStore makes on it.  A value of the         *)
(* database is a record with the fields                                    *)
(*   log     index -> term of the entry stored at that index (CF "logs")   *)
(*   purged  log id in CF "meta", key "last_purged_log_id"                 *)
(*   vote    vote in CF "meta", key "vote"                                 *)
(*   snap    the log id of the snapshot in CF "store", key "snapshot",     *)
(*           and, in the modules that look at it, its data                 *)
(* A log id is a term and an index.  An index is counted from 1, so that   *)
(* the log id [term |-> 0, index |-> 0] stands for None.                   *)
(***************************************************************************)
EXTENDS Integers, Functions

NoLogId == [term |-> 0, index |-> 0]

\* The order of openraft's LogId: the leader's term first, then the index.
LogIdLt(a, b) == \/ a.term < b.term
                 \/ a.term = b.term /\ a.index < b.index

\* The first n entries of a batch es, put one by one after index base.
PutEntries(d, base, es, n) ==
  [d EXCEPT !.log = [i \in DOMAIN d.log \cup (base + 1)..(base + n) |->
                       IF i \in (base + 1)..(base + n) THEN es[i - base]
                                                       ELSE d.log[i]]]

PutVote(d, v) == [d EXCEPT !.vote = v]

PutPurged(d, id) == [d EXCEPT !.purged = id]

\* delete_range_cf over [from, u64::MAX).
DeleteFrom(d, from) ==
  [d EXCEPT !.log = Restrict(d.log, {i \in DOMAIN d.log : i < from})]

\* delete_range_cf over [0, upto + 1).
DeleteUpto(d, upto) ==
  [d EXCEPT !.log = Restrict(d.log, {i \in DOMAIN d.log : i > upto})]

\* The key the iterator opened with IteratorMode::End stops at.
LastKey(d) == CHOOSE i \in DOMAIN d.log : \A j \in DOMAIN d.log : j <= i

\* get_log_state: the last stored entry, or the last purged log id when
\* there is none.
LastLogId(d) == IF DOMAIN d.log = {}
                THEN d.purged
                ELSE [term |-> d.log[LastKey(d)], index |-> LastKey(d)]

\* The two writes of purge, in their order.
PurgeMeta(d, id)   == PutPurged(d, id)
PurgeRange(d, id)  == DeleteUpto(PutPurged(d, id), id.index)
============================================================================
