----------------------------- MODULE LogIdList -----------------------------
(***************************************************************************)
(* LogIdList (openraft/src/engine/log_id_list.rs): the ids of a log kept   *)
(* as a sequence of key log ids, the first id of every leader and the last *)
(* id of all.  The first element is the last purged id when there is one.  *)
(*                                                                         *)
(* A log is a function from indexes to terms, as in Storage.  The methods  *)
(* that change the list are operators from the old sequence to the new     *)
(* one; positions are counted from 1.                                      *)
(***************************************************************************)
EXTENDS Storage, Sequences, SequencesExt, FiniteSets

LogIdAt(log, i) == [term |-> log[i], index |-> i]
----------------------------------------------------------------------------
(***************************************************************************)
(* get_key_log_ids: a binary search for the indexes where the leader       *)
(* changes, driven by a stack of ranges whose ends have been read.         *)
(***************************************************************************)

\* The first id of a leader goes to the result once.
PushFirst(res, id) ==
  IF res = <<>> \/ Last(res).term < id.term THEN Append(res, id) ELSE res

\* A mutant: case ABC handles the second half first.
RECURSIVE SearchSwapped(_, _, _)
SearchSwapped(log, stack, res) ==
  IF stack = <<>> THEN res ELSE
  LET first == Last(stack)[1]
      last  == Last(stack)[2]
      rest  == Front(stack)
      mid   == LogIdAt(log, (first.index + last.index) \div 2)
  IN CASE first.term = last.term -> SearchSwapped(log, rest, PushFirst(res, first))
       [] first.term # last.term /\ first.index + 1 = last.index ->
            SearchSwapped(log, rest, Append(PushFirst(res, first), last))
       [] OTHER ->
            SearchSwapped(log, rest \o << <<first, mid>>, <<mid, last>> >>, res)

RECURSIVE Search(_, _, _)
Search(log, stack, res) ==
  IF stack = <<>> THEN res ELSE
  LET first == Last(stack)[1]
      last  == Last(stack)[2]
      rest  == Front(stack)
      mid   == LogIdAt(log, (first.index + last.index) \div 2)
  IN CASE first.term = last.term -> Search(log, rest, PushFirst(res, first))
       [] first.term # last.term /\ first.index + 1 = last.index ->
            Search(log, rest, Append(PushFirst(res, first), last))
       [] OTHER ->
            CASE first.term = mid.term ->
                   Search(log, Append(rest, <<mid, last>>), PushFirst(res, first))
              [] mid.term = last.term ->
                   Search(log, Append(rest, <<first, mid>>), res)
              [] OTHER ->
                   Search(log, rest \o << <<mid, last>>, <<first, mid>> >>, res)

GetKeyLogIds(log, first, last) ==
  LET res == Search(log, << <<first, last>> >>, <<>>)
  IN IF res # <<>> /\ Last(res) = last THEN res ELSE Append(res, last)

\* A mutant: a purged id of the first entry's leader is put before it.
LoadPurgedTwice(d) ==
  LET last == LastLogId(d)
  IN CASE last = NoLogId -> <<>>
       [] last # NoLogId /\ d.purged.index = last.index -> <<last>>
       [] OTHER ->
            LET ids == GetKeyLogIds(d.log, LogIdAt(d.log, d.purged.index + 1), last)
            IN IF d.purged = NoLogId THEN ids ELSE <<d.purged>> \o ids

\* StorageHelper::get_key_log_ids: what a node that starts reads of its log.
Load(d) ==
  LET last == LastLogId(d)
  IN CASE last = NoLogId -> <<>>
       [] last # NoLogId /\ d.purged.index = last.index -> <<last>>
       [] OTHER ->
            LET ids == GetKeyLogIds(d.log, LogIdAt(d.log, d.purged.index + 1), last)
            IN CASE d.purged = NoLogId -> ids
                 [] d.purged # NoLogId /\ d.purged.term = ids[1].term /\ Len(ids) >= 2 ->
                      [ids EXCEPT ![1] = d.purged]
                 [] OTHER -> <<d.purged>> \o ids
----------------------------------------------------------------------------
\* append: the last id of all gives way, a leader's first id stays.
AppendId(ks, id) ==
  IF Len(ks) >= 2 /\ ks[Len(ks) - 1].term = ks[Len(ks)].term
  THEN [ks EXCEPT ![Len(ks)] = id]
  ELSE Append(ks, id)

\* extend_from_same_leader: the first and the last id of a leader's proposal.
ExtendFromSameLeader(ks, ids) ==
  LET ks1 == AppendId(ks, Head(ids))
  IN IF Len(ids) = 1 THEN ks1 ELSE AppendId(ks1, Last(ids))

\* extend: an id is appended when its leader is new, the last one in any case.
Extend(ks, ids) ==
  LET Step(acc, k) ==
        LET new == acc = <<>> \/ Last(acc).term # ids[k].term
            a1  == IF new THEN AppendId(acc, ids[k]) ELSE acc
        IN IF k = Len(ids) /\ Last(a1) # ids[k] THEN AppendId(a1, ids[k]) ELSE a1
  IN FoldLeft(Step, ks, [k \in 1..Len(ids) |-> k])

\* binary_search_by index: how many ids are below.
Below(ks, index) == Cardinality({k \in DOMAIN ks : ks[k].index < index})
Found(ks, index) == \E k \in DOMAIN ks : ks[k].index = index

\* A mutant: the gap up to the truncated index is not filled.
TruncateLeavesGap(ks, at) == SubSeq(ks, 1, Below(ks, at))

\* truncate: ids from `at` on go, and the new last id is put at the end.
TruncateIds(ks, at) ==
  LET kept == SubSeq(ks, 1, Below(ks, at))
  IN IF Len(kept) = Len(ks) \/ kept = <<>> \/ Last(kept).index >= at - 1
     THEN kept
     ELSE AppendId(kept, [term |-> Last(kept).term, index |-> at - 1])

\* purge: what is below goes and the first id is the purged one; across the
\* end of the log only the purged id remains.
PurgeIds(ks, upto) ==
  CASE ks = <<>> \/ upto.index > Last(ks).index -> <<upto>>
    [] ks # <<>> /\ upto.index < ks[1].index -> ks
    [] OTHER -> LET rest == SubSeq(ks, Below(ks, upto.index + 1), Len(ks))
                IN [rest EXCEPT ![1].index = upto.index]

\* ref_at: the id at an index, of the leader whose ids cover it.
RefAt(ks, index) ==
  IF Found(ks, index) \/ Below(ks, index) \in 1..(Len(ks) - 1)
  THEN [term |-> ks[Below(ks, index + 1)].term, index |-> index]
  ELSE NoLogId

\* by_last_leader: the first and the last id of the last leader.
ByLastLeader(ks) ==
  LET n == Len(ks)
  IN CASE ks = <<>> -> <<>>
       [] n >= 2 /\ ks[n - 1].term = ks[n].term -> <<ks[n - 1], ks[n]>>
       [] OTHER -> <<ks[n], ks[n]>>
============================================================================
