----------------------------- MODULE NodeProofs -----------------------------
(***************************************************************************)
(* State machine safety of a node that follows: for every history of       *)
(* leaders Raft allows, any payloads and any number of commands, deaths    *)
(* and restarts, the state machine applies the chosen entries, one after   *)
(* the other, and log IOs are submitted in order.                          *)
(*                                                                         *)
(* The entries of an Apply are read from the log after the commands ahead  *)
(* of it, and a command is run after those ahead of it in its queue, so    *)
(* the invariant follows both queues: q[n] is the disk after n commands of *)
(* the engine, p[m] the last index applied after m of the worker.          *)
(***************************************************************************)
EXTENDS Node, SequenceTheorems, WellFoundedInduction, TLAPS

\* The node builds snapshots or is sent them, not both: a builder that ends
\* after an install replaces the newer snapshot by its own, and the entries
\* between the two are purged already (the run NodeOverwrite).
SnapshotsSeparate ==
  \A s \in Settings : s.installs = "none" \/ s.threshold > s.committed[Len(s.committed)]
----------------------------------------------------------------------------
(* The history.  Com(v) is how far the leader of term v commits; nothing   *)
(* is committed before there was a leader.                                 *)

Com(v)    == IF v = 0 THEN 0 ELSE Committed[v]
Own(v)    == IF v = 0 THEN 0 ELSE Len(LeaderLog[v])
Vote      == 0..MaxTerm
Upto(v)   == {ChosenId(i) : i \in 0..Com(v)}
LogIO     == {io \in [vote : Vote, id : [term : Nat, index : Nat]] :
                io.id.index <= Own(io.vote) /\ io.id = IdOf(io.vote, io.id.index)}

\* The order in which log IOs are submitted.
IOLe(a, b) == \/ a.vote < b.vote
              \/ a.vote = b.vote /\ a.id.index <= b.id.index

IsSeq(s) == \E U : s \in Seq(U)

(* A log, as a function of every index: 0 where there is no entry.         *)

Seen(f)         == [i \in Nat |-> IF i \in DOMAIN f THEN f[i] ELSE 0]
Bounded(f)      == DOMAIN f \subseteq Nat /\ \E b \in Nat : \A i \in DOMAIN f : i <= b
Agrees(f, L, b) == \A i \in Nat : i > b => /\ i \in DOMAIN f <=> L[i] # 0
                                           /\ i \in DOMAIN f => f[i] = L[i]
NoHole(L, b)    == \A i, j \in Nat : b < j /\ j <= i /\ L[i] # 0 => L[j] # 0
Matches(L, t, b, j) == \A i \in Nat : b < i /\ i <= j => L[i] = LeaderLog[t][i]
Matching(L, b)  == \A t \in Term : \A j \in 1..Own(t) :
                     b < j /\ L[j] = LeaderLog[t][j] => Matches(L, t, b, j)
Solid(L, b)     == L \in [Nat -> Nat] /\ NoHole(L, b) /\ Matching(L, b)

DbFields == {"log", "purged", "vote", "snap", "kvs", "mem"}

\* What the database holds, whether the process runs or not.
Durable(d) ==
  /\ DOMAIN d = DbFields
  /\ Bounded(d.log)
  /\ d.vote \in Vote
  /\ d.snap \in Upto(d.vote)
  /\ d.purged.index \in 0..d.snap.index
  /\ \E L : Agrees(d.log, L, d.snap.index) /\ Solid(L, d.snap.index)

(* The queue of the engine: what its commands make of the log, of the      *)
(* index above which the log is looked at, and of the last IO submitted.   *)

Disk == [log : [Nat -> Nat], base : Nat, io : LogIO]

Same(L, M, b) == \A i \in Nat : i > b => L[i] = M[i]

\* The log above base is the one the IO says: what an install ends.
Kept(d) == d.io.vote > 0 => Matches(d.log, d.io.vote, d.base, d.io.id.index)

\* Nothing ahead of the n-th command holds it up before index top is reached.
Unblocked(cs, q, n, top) ==
  \A m \in 1..(n - 1) : /\ cs[m].op # "UpdateIOProgress"
                        /\ cs[m].op = "PurgeLog" => q[m - 1].io.id.index < top

\* A command and the disk before and after it.
Link(c, d, e) ==
  CASE c.op = "SaveVote" ->
         /\ c.vote \in Term /\ c.vote > d.io.vote
         /\ e.io = IOId(c.vote, NoLogId) /\ e.base = d.base /\ Same(e.log, d.log, d.base)
    [] c.op = "TruncateLog" ->
         /\ c.since \in Nat /\ c.since > d.base
         /\ e.io = d.io /\ e.base = d.base
         /\ \A i \in Nat : i > d.base => e.log[i] = IF i < c.since THEN d.log[i] ELSE 0
    [] c.op = "AppendEntries" ->
         /\ c.vote = d.io.vote /\ c.vote \in Term
         /\ c.base \in Nat /\ c.base >= d.io.id.index
         /\ c.base < e.io.id.index
         /\ c.es = SubSeq(LeaderLog[c.vote], c.base + 1, e.io.id.index)
         /\ e.io.vote = c.vote /\ e.base = d.base
         /\ \A i \in Nat : i > d.base => e.log[i] = IF i > c.base /\ i <= e.io.id.index
                                                   THEN LeaderLog[c.vote][i] ELSE d.log[i]
    [] c.op = "UpdateIOProgress" ->
         /\ c.io = e.io /\ e.io.vote = d.io.vote
         /\ e.base = d.base /\ Same(e.log, d.log, d.base)
    [] c.op = "PurgeLog" ->
         /\ c.upto.index \in 0..d.base
         /\ setting.installs # "none" => c.upto \in Upto(d.io.vote) /\ d.io.id.index <= c.upto.index
         /\ e.io = d.io /\ e.base = d.base /\ Same(e.log, d.log, d.base)
    [] c.op = "InstallFullSnapshot" ->
         /\ setting.installs # "none"
         /\ c.snap.snap \in Upto(c.io.vote) /\ c.snap.snap = c.io.id
         /\ c.io = e.io /\ e.io.vote = d.io.vote
         /\ d.base < e.base /\ e.base = c.snap.snap.index /\ Same(e.log, d.log, e.base)
    [] c.op = "BuildSnapshot" ->
         /\ setting.installs = "none"
         /\ e.io = d.io /\ e.base = d.base /\ Same(e.log, d.log, d.base)
    [] OTHER -> FALSE

\* What holds of a command until it runs; sub is the last index submitted to
\* the state machine.
Due(cs, q, n, sub) ==
  /\ cs[n].op = "TruncateLog" =>
       /\ cs[n].since > sub
       /\ cs[n].since > q[n - 1].io.id.index \/ Unblocked(cs, q, n, cs[n].since)
  /\ cs[n].op = "InstallFullSnapshot" =>
       /\ cs[n].snap.snap.index > sub
       /\ Unblocked(cs, q, n, cs[n].snap.snap.index)

\* A queue that an install may still follow.
Loose(cs, q, sub) ==
  /\ IsSeq(cs)
  /\ q \in [0..Len(cs) -> Disk]
  /\ \A n \in 0..Len(cs) : Solid(q[n].log, q[n].base)
  /\ \A m, n \in 0..Len(cs) : m <= n => IOLe(q[m].io, q[n].io) /\ q[m].base <= q[n].base
  /\ \A n \in 1..Len(cs) : Link(cs[n], q[n - 1], q[n]) /\ Due(cs, q, n, sub)
  /\ \A n \in 1..Len(cs) : Kept(q[n - 1]) \/ cs[n].op = "InstallFullSnapshot"
  /\ \A n \in 1..(Len(cs) - 1) : cs[n].op = "InstallFullSnapshot" =>
       cs[n + 1].op = "PurgeLog" /\ cs[n + 1].upto = cs[n].snap.snap

\* A queue the engine leaves at the end of a message.
Closed(cs, q) ==
  /\ Kept(q[Len(cs)])
  /\ cs # <<>> => cs[Len(cs)].op # "InstallFullSnapshot"

RsFields == {"logAcc", "logSub", "logFlushed", "clusterCommitted", "applyAcc", "applySub",
             "snapFlushed", "building", "vote", "purged", "ids", "snap", "triedAt",
             "memCommitted", "memEffective"}

\* The state of the engine, which is ahead of the disk by its queue.
Accepted(r, d) ==
  /\ DOMAIN r = RsFields
  /\ r.logAcc = d.io /\ r.vote = d.io.vote
  /\ Bounded(r.ids) /\ Agrees(r.ids, d.log, d.base)
  /\ r.applyAcc \in Upto(r.vote) /\ d.base <= r.applyAcc.index
  /\ r.snap \in Upto(r.vote) /\ r.snap.index <= d.base
  /\ \A i \in Nat : r.snap.index < i /\ i <= r.applyAcc.index =>
       i \in DOMAIN r.ids /\ r.ids[i] = Chosen[i]
  /\ r.clusterCommitted.vote \in Vote
  /\ r.clusterCommitted.id \in Upto(r.clusterCommitted.vote)
  /\ r.triedAt.index \in Nat
  /\ r.purged \in 0..r.snap.index
  /\ setting.installs # "none" => r.snap.index = d.base

EngineOK(e, q) ==
  /\ e = [rs |-> e.rs, cmds |-> e.cmds]
  /\ Loose(e.cmds, q, e.rs.applySub.index)
  /\ Closed(e.cmds, q)
  /\ Accepted(e.rs, q[Len(e.cmds)])

(* The node: d its database, r and cs its engine, sq the worker's queue, b *)
(* the worker's batch, s the state machine, bs the builders and ns the     *)
(* notifications.                                                          *)

\* An install on its way to the state machine blocks the queue.
Sent(q, d, cs, sq) ==
  IF \E m \in 1..Len(sq) : sq[m].op = "InstallFullSnapshot"
  THEN /\ cs # <<>> /\ Head(cs).op = "PurgeLog" /\ Head(cs).upto = ChosenId(q[0].base)
       /\ \A m \in 1..Len(sq) : sq[m].op = "InstallFullSnapshot" =>
                                 sq[m].snap.snap.index = q[0].base
       /\ d.snap.index < q[0].base
  ELSE d.snap.index = q[0].base

Running(q, d, r, cs, sq) ==
  /\ EngineOK([rs |-> r, cmds |-> cs], q)
  /\ q[0].io = r.logSub /\ d.vote = r.logSub.vote
  /\ Agrees(d.log, q[0].log, q[0].base)
  /\ q[0].base <= r.applySub.index
  /\ Sent(q, d, cs, sq)

\* A command of the worker takes the state machine from index j to index k.
Carries(c, d, j, k) ==
  CASE c.op = "Apply" ->
         /\ c.since = j + 1 /\ c.last = ChosenId(k)
         /\ \A i \in Nat : j < i /\ i <= k => i \in DOMAIN d.log /\ d.log[i] = Chosen[i]
    [] c.op = "InstallFullSnapshot" ->
         setting.installs # "none" /\ c.snap.snap = ChosenId(k) /\ j < k
    [] c.op = "BuildSnapshot" -> setting.installs = "none" /\ k = j
    [] OTHER -> FALSE

Chain(p, d, r, sq, b, s) ==
  /\ IsSeq(sq)
  /\ p \in [0..Len(sq) -> Nat]
  /\ p[0] = s.applied.index + Len(b)
  /\ p[Len(sq)] = r.applySub.index
  /\ \A m, n \in 0..Len(sq) : m <= n => p[m] <= p[n]
  /\ \A m \in 1..Len(sq) : Carries(sq[m], d, p[m - 1], p[m])

Working(d, r, b, s, bs, ns) ==
  /\ s.applied \in Upto(MaxTerm) /\ r.applySub \in Upto(r.logSub.vote)
  /\ r.applySub.index <= r.applyAcc.index
  /\ d.snap.index <= s.applied.index
  /\ IsSeq(b)
  /\ \A n \in 1..Len(b) : b[n] = ChosenId(s.applied.index + n)
  /\ r.snapFlushed \in Upto(MaxTerm) /\ r.snapFlushed.index <= d.snap.index
  /\ IsSeq(ns) /\ IsSeq(bs)
  /\ \A n \in 1..Len(ns) : ns[n].op \in {"BuildSnapshotDone", "InstallSnapshotDone"} =>
       /\ ns[n].id \in Upto(MaxTerm) /\ ns[n].id.index <= d.snap.index
       /\ ns[n].op = "BuildSnapshotDone" => setting.installs = "none"
  /\ \A n \in 1..Len(bs) :
       /\ setting.installs = "none"
       /\ bs[n].applied \in Upto(MaxTerm)
       /\ d.snap.index <= bs[n].applied.index
       /\ bs[n].applied.index <= s.applied.index
  /\ \A m, n \in 1..Len(bs) : m <= n => bs[m].applied.index <= bs[n].applied.index

Good(d, r, cs, sq, b, s, bs, ns) ==
  /\ Working(d, r, b, s, bs, ns)
  /\ \E p : Chain(p, d, r, sq, b, s)
  /\ \E q : Running(q, d, r, cs, sq)

NodeInv ==
  /\ setting \in Settings
  /\ Durable(db)
  /\ up => Good(db, rs, cmds, smq, batch, sm, builder, notes)
  /\ ~up => cmds = <<>> /\ smq = <<>> /\ batch = <<>> /\ builder = <<>> /\ notes = <<>>
----------------------------------------------------------------------------
(* The setting is chosen once.                                             *)

\* What depends on the setting alone is the same after a step.
LEMMA Frozen ==
  ASSUME setting' = setting
  PROVE  /\ \A d : Durable(d)' <=> Durable(d)
         /\ \A d, r, cs, sq, b, s, bs, ns :
              Good(d, r, cs, sq, b, s, bs, ns)' <=> Good(d, r, cs, sq, b, s, bs, ns)
<1>1. \A d : Durable(d)' <=> Durable(d)
  BY DEF Durable, Vote, Upto, MaxTerm, LeaderLog, Committed, Com, ChosenId, Chosen, Solid, Matching, Matches, Term, Own
<1>2. \A d, r, cs, sq, b, s, bs, ns :
              Good(d, r, cs, sq, b, s, bs, ns)' <=> Good(d, r, cs, sq, b, s, bs, ns)
  BY DEF Good, Working, Chain, Carries, Running, Sent, EngineOK, Accepted, Closed, Loose, Link, Kept, Disk,
         Vote, Upto, MaxTerm, LeaderLog, Committed, Com, ChosenId, Chosen, Solid, Matching, Matches,
         Term, LogIO, Own, IdOf, Due, Unblocked, Same, Agrees
<1> QED BY <1>1, <1>2

\* The logs of a setting.
LEMMA Logs ==
  ASSUME setting \in Settings
  PROVE  /\ MaxTerm \in Nat /\ MaxTerm >= 1
         /\ \A t \in Term : /\ LeaderLog[t] \in Seq(Nat) /\ Len(LeaderLog[t]) \in Nat
                            /\ Committed[t] \in 0..Len(LeaderLog[t])
         /\ \A t \in Term : \A i \in 1..Len(LeaderLog[t]) :
              LeaderLog[t][i] \in 1..t /\ \A j \in 1..i : LeaderLog[t][j] <= LeaderLog[t][i]
         /\ \A t, u \in Term : \A i \in 1..Len(LeaderLog[t]) \cap 1..Len(LeaderLog[u]) :
              LeaderLog[t][i] = LeaderLog[u][i] =>
                \A j \in 1..i : LeaderLog[t][j] = LeaderLog[u][j]
         /\ \A t, u \in Term : t < u =>
              /\ Committed[t] <= Committed[u]
              /\ \A j \in 1..Committed[t] : LeaderLog[t][j] = LeaderLog[u][j]
         /\ setting.threshold \in Nat
<1>1. /\ setting.logs \in Seq(Seq(Nat)) /\ setting.logs # <<>>
      /\ setting.committed \in Seq(Nat) /\ Len(setting.committed) = Len(setting.logs)
      /\ setting.threshold \in Nat
  BY RaftAssumption, Zenon
<1>2. MaxTerm \in Nat /\ MaxTerm >= 1
  BY <1>1 DEF MaxTerm, LeaderLog
<1>3. \A t \in Term : LeaderLog[t] \in Seq(Nat) /\ Len(LeaderLog[t]) \in Nat /\ Committed[t] \in Nat
  BY <1>1 DEF Term, MaxTerm, LeaderLog, Committed
<1>4. \A t \in Term : /\ Committed[t] <= Len(LeaderLog[t])
                      /\ \A i \in 1..Len(LeaderLog[t]) : LeaderLog[t][i] \in 1..t /\ \A j \in 1..i : LeaderLog[t][j] <= LeaderLog[t][i]
  BY RaftAssumption, Zenon DEF Term, MaxTerm, LeaderLog, Committed
<1>5. \A t, u \in Term :
         /\ \A i \in 1..Len(LeaderLog[t]) \cap 1..Len(LeaderLog[u]) :
              LeaderLog[t][i] = LeaderLog[u][i] =>
                \A j \in 1..i : LeaderLog[t][j] = LeaderLog[u][j]
         /\ t < u =>
              /\ Committed[t] <= Committed[u]
              /\ \A j \in 1..Committed[t] : LeaderLog[t][j] = LeaderLog[u][j]
  BY RaftAssumption, Zenon DEF Term, MaxTerm, LeaderLog, Committed
<1> QED BY <1>1, <1>2, <1>3, <1>4, <1>5

\* What the leaders have committed.
LEMMA Commits ==
  ASSUME setting \in Settings
  PROVE  /\ \A v \in Vote : v \in Nat /\ Own(v) \in Nat /\ Com(v) \in 0..Own(v)
         /\ \A v, w \in Vote : v <= w => Com(v) <= Com(w)
         /\ \A v \in Vote : v > 0 => v \in Term /\ Own(v) = Len(LeaderLog[v])
         /\ \A v \in Vote : \A i \in 1..Com(v) : v \in Term /\ Chosen[i] = LeaderLog[v][i]
         /\ \A v \in Vote : \A i \in 1..Own(v) : v \in Term /\ LeaderLog[v][i] \in Nat /\ LeaderLog[v][i] >= 1
         /\ MaxTerm \in Vote /\ Len(Chosen) = Com(MaxTerm)
         /\ Term \subseteq Vote /\ 0 \in Vote /\ Com(0) = 0 /\ Own(0) = 0
<1>1. MaxTerm \in Term /\ MaxTerm \in Vote /\ Com(MaxTerm) = Committed[MaxTerm]
  BY Logs DEF Term, Vote, Com
<1>2. Len(Chosen) = Com(MaxTerm) /\ \A i \in 1..Com(MaxTerm) : Chosen[i] = LeaderLog[MaxTerm][i]
  BY <1>1, Logs DEF Chosen
<1>3. \A v \in Vote : \A i \in 1..Com(v) : v \in Term /\ LeaderLog[v][i] = LeaderLog[MaxTerm][i] /\ i <= Com(MaxTerm)
  <2>1. SUFFICES ASSUME NEW v \in Vote, NEW i \in 1..Com(v)
                 PROVE  v \in Term /\ LeaderLog[v][i] = LeaderLog[MaxTerm][i] /\ i <= Com(MaxTerm)
    OBVIOUS
  <2>2. v # 0 /\ v \in Term /\ v <= MaxTerm /\ i \in 1..Committed[v]
    BY Logs DEF Vote, Com, Term
  <2>3. CASE v = MaxTerm
    BY <1>1, <2>2, <2>3
  <2>4. CASE v < MaxTerm
    <3>1. Committed[v] <= Committed[MaxTerm] /\ LeaderLog[v][i] = LeaderLog[MaxTerm][i]
      BY <1>1, <2>2, <2>4, Logs
    <3> QED BY <1>1, <2>2, <3>1, Logs
  <2> QED BY <2>2, <2>3, <2>4, Logs DEF Term
<1>4. \A v \in Vote : v \in Nat /\ Own(v) \in Nat /\ Com(v) \in 0..Own(v)
  BY Logs DEF Vote, Com, Own, Term
<1>5. \A v, w \in Vote : v <= w => Com(v) <= Com(w)
  BY Logs DEF Vote, Com, Term
<1>6. \A v \in Vote : v > 0 => v \in Term /\ Own(v) = Len(LeaderLog[v])
  BY Logs DEF Vote, Own, Term
<1>7. \A v \in Vote : \A i \in 1..Own(v) : v \in Term /\ LeaderLog[v][i] \in Nat /\ LeaderLog[v][i] >= 1
  BY Logs DEF Vote, Own, Term
<1>8. Term \subseteq Vote /\ 0 \in Vote /\ Com(0) = 0 /\ Own(0) = 0
  BY Logs DEF Vote, Own, Term, Com
<1>9. \A v \in Vote : \A i \in 1..Com(v) : v \in Term /\ Chosen[i] = LeaderLog[v][i]
  BY <1>2, <1>3, <1>4
<1> HIDE DEF Chosen, Com, Own, Vote, Term, MaxTerm
<1> QED BY <1>1, <1>2, <1>4, <1>5, <1>6, <1>7, <1>8, <1>9

\* Terms are positive.
LEMMA Terms ==
  ASSUME setting \in Settings
  PROVE  /\ \A u \in Term : u \in Nat /\ u > 0 /\ u \in Vote /\ Own(u) \in Nat
         /\ \A u \in Term : \A i \in 1..Own(u) : LeaderLog[u][i] \in Nat /\ LeaderLog[u][i] # 0
         /\ \A t, u \in Term : \A i \in 1..Own(t) : i <= Own(u) /\ LeaderLog[t][i] = LeaderLog[u][i] =>
              \A j \in 1..i : LeaderLog[t][j] = LeaderLog[u][j]
<1>1. \A u \in Term : u \in Nat /\ u > 0 /\ u \in Vote
  BY Logs DEF Term, Vote
<1>2. \A u \in Term : Own(u) = Len(LeaderLog[u])
  BY <1>1, Commits
<1>3. \A t, u \in Term : \A i \in 1..Own(t) : i <= Own(u) /\ LeaderLog[t][i] = LeaderLog[u][i] =>
              \A j \in 1..i : LeaderLog[t][j] = LeaderLog[u][j]
  <2>1. SUFFICES ASSUME NEW t \in Term, NEW u \in Term, NEW i \in 1..Own(t), i <= Own(u),
                        LeaderLog[t][i] = LeaderLog[u][i]
                 PROVE  \A j \in 1..i : LeaderLog[t][j] = LeaderLog[u][j]
    OBVIOUS
  <2>2. i \in 1..Len(LeaderLog[t]) /\ i \in 1..Len(LeaderLog[u])
    BY <1>2, <2>1
  <2> QED BY <2>1, <2>2, Logs
<1>4. \A u \in Term : \A i \in 1..Own(u) : LeaderLog[u][i] \in Nat /\ LeaderLog[u][i] # 0
  BY <1>1, Commits
<1>5. \A u \in Term : Own(u) \in Nat
  BY <1>1, Commits
<1> QED BY <1>1, <1>3, <1>4, <1>5

\* Log ids of one leader, and of chosen entries, are ordered by their indexes.
LEMMA Order ==
  ASSUME setting \in Settings
  PROVE  /\ \A v \in Vote : \A i \in 0..Own(v) :
              IdOf(v, i) \in [term : Nat, index : Nat] /\ IdOf(v, i).index = i
         /\ \A v \in Vote : \A i, j \in 0..Own(v) : LogIdLt(IdOf(v, i), IdOf(v, j)) <=> i < j
         /\ \A v \in Vote : \A i \in 0..Com(v) : ChosenId(i) = IdOf(v, i)
<1>1. \A v \in Vote : \A i \in 0..Own(v) :
              IdOf(v, i) \in [term : Nat, index : Nat] /\ IdOf(v, i).index = i
  BY Commits DEF IdOf, NoLogId
<1>2. ASSUME NEW v \in Vote, NEW i \in 0..Own(v), NEW j \in 0..Own(v)
      PROVE  LogIdLt(IdOf(v, i), IdOf(v, j)) <=> i < j
  <2>0. v \in Nat /\ Own(v) \in Nat
    BY Commits
  <2>1. CASE i = 0 /\ j = 0
    BY <2>1 DEF LogIdLt, IdOf, NoLogId
  <2>2. CASE i = 0 /\ j > 0
    BY <2>0, <2>2, Commits DEF LogIdLt, IdOf, NoLogId
  <2>3. CASE i > 0 /\ j = 0
    BY <2>0, <2>3, Commits DEF LogIdLt, IdOf, NoLogId
  <2>4. CASE i > 0 /\ j > 0
    <3>1. v > 0 /\ v \in Term /\ i \in 1..Len(LeaderLog[v]) /\ j \in 1..Len(LeaderLog[v])
      BY <2>0, <2>4, Commits
    <3>2. LeaderLog[v][i] \in Nat /\ LeaderLog[v][j] \in Nat
      BY <3>1, Logs
    <3>3. /\ j <= i => LeaderLog[v][j] <= LeaderLog[v][i]
          /\ i <= j => LeaderLog[v][i] <= LeaderLog[v][j]
      BY <3>1, Logs
    <3> QED BY <2>4, <3>2, <3>3 DEF LogIdLt, IdOf
  <2> QED BY <2>0, <2>1, <2>2, <2>3, <2>4
<1>3. \A v \in Vote : \A i \in 0..Com(v) : ChosenId(i) = IdOf(v, i)
  BY Commits DEF ChosenId, IdOf
<1> QED BY <1>1, <1>2, <1>3

\* Chosen log ids.
LEMMA ChosenIds ==
  ASSUME setting \in Settings
  PROVE  /\ \A v \in Vote : \A id : id \in Upto(v) <=> (id.index \in 0..Com(v) /\ id = ChosenId(id.index))
         /\ \A v \in Vote : \A i \in 0..Com(v) : ChosenId(i) \in Upto(v) /\ ChosenId(i).index = i
         /\ \A v, w \in Vote : v <= w => Upto(v) \subseteq Upto(w)
         /\ \A v \in Vote : Upto(v) \subseteq Upto(MaxTerm) /\ NoLogId \in Upto(v)
         /\ \A v \in Vote : \A id \in Upto(v) : id = IdOf(v, id.index) /\ id.index \in 0..Own(v)
         /\ \A a, b \in Upto(MaxTerm) : LogIdLt(a, b) <=> a.index < b.index
<1>1. \A v \in Vote : \A i \in 0..Com(v) : ChosenId(i).index = i
  BY Order, Commits
<1>2. \A v \in Vote : \A id : id \in Upto(v) <=> (id.index \in 0..Com(v) /\ id = ChosenId(id.index))
  BY <1>1 DEF Upto
<1>3. \A v \in Vote : \A i \in 0..Com(v) : ChosenId(i) \in Upto(v)
  BY DEF Upto
<1>4. \A v, w \in Vote : v <= w => Upto(v) \subseteq Upto(w)
  BY Commits DEF Upto
<1>5. \A v \in Vote : Upto(v) \subseteq Upto(MaxTerm) /\ NoLogId \in Upto(v)
  <2>1. \A v \in Vote : v <= MaxTerm /\ 0 \in 0..Com(v)
    BY Commits, Logs DEF Vote
  <2>2. ChosenId(0) = NoLogId
    BY DEF ChosenId
  <2> QED BY <1>3, <1>4, <2>1, <2>2, Commits
<1>6. \A v \in Vote : \A id \in Upto(v) : id = IdOf(v, id.index) /\ id.index \in 0..Own(v)
  BY <1>2, Order, Commits
<1>7. \A a, b \in Upto(MaxTerm) : LogIdLt(a, b) <=> a.index < b.index
  BY <1>6, Order, Commits
<1> QED BY <1>1, <1>2, <1>3, <1>4, <1>5, <1>6, <1>7

\* Log IOs.
LEMMA IOs ==
  ASSUME setting \in Settings
  PROVE  /\ \A v \in Vote : \A i \in 0..Own(v) :
              /\ IOId(v, IdOf(v, i)) \in LogIO /\ IOId(v, IdOf(v, i)).vote = v
              /\ IOId(v, IdOf(v, i)).id = IdOf(v, i) /\ IOId(v, IdOf(v, i)).id.index = i
         /\ \A v \in Vote : IdOf(v, 0) = NoLogId /\ NoLogId.index = 0
         /\ \A io \in LogIO :
              /\ io.vote \in Vote /\ io.vote \in Nat /\ io.id.index \in 0..Own(io.vote)
              /\ io.id = IdOf(io.vote, io.id.index) /\ io = IOId(io.vote, io.id)
         /\ \A a, b \in LogIO : IOLt(a, b) <=> ~ IOLe(b, a)
         /\ \A a, b \in LogIO : IOLe(a, b) /\ IOLe(b, a) => a = b
<1>1. \A v \in Vote : \A i \in 0..Own(v) :
              /\ IOId(v, IdOf(v, i)) \in LogIO /\ IOId(v, IdOf(v, i)).vote = v
              /\ IOId(v, IdOf(v, i)).id = IdOf(v, i) /\ IOId(v, IdOf(v, i)).id.index = i
  BY Order DEF IOId, LogIO
<1>2. \A v \in Vote : IdOf(v, 0) = NoLogId /\ NoLogId.index = 0
  BY DEF IdOf, NoLogId
<1>3. ASSUME NEW io \in LogIO
      PROVE  /\ io.vote \in Vote /\ io.vote \in Nat /\ io.id.index \in 0..Own(io.vote)
             /\ io.id = IdOf(io.vote, io.id.index) /\ io = IOId(io.vote, io.id)
  <2>1. io.vote \in Vote /\ io.id.index \in Nat /\ io.id.index <= Own(io.vote)
        /\ io.id = IdOf(io.vote, io.id.index)
    BY DEF LogIO
  <2>2. io = IOId(io.vote, io.id)
    BY DEF LogIO, IOId
  <2>3. io.vote \in Nat /\ Own(io.vote) \in Nat
    BY <2>1, Commits
  <2> QED BY <2>1, <2>2, <2>3
<1>4. ASSUME NEW a \in LogIO, NEW b \in LogIO
      PROVE  /\ IOLt(a, b) <=> ~ IOLe(b, a)
             /\ IOLe(a, b) /\ IOLe(b, a) => a = b
  <2>1. /\ a.vote \in Vote /\ a.vote \in Nat /\ a.id.index \in 0..Own(a.vote) /\ a.id = IdOf(a.vote, a.id.index)
        /\ b.vote \in Vote /\ b.vote \in Nat /\ b.id.index \in 0..Own(b.vote) /\ b.id = IdOf(b.vote, b.id.index)
        /\ a = IOId(a.vote, a.id) /\ b = IOId(b.vote, b.id)
    BY <1>3
  <2>2. a.id.index \in Nat /\ b.id.index \in Nat
    BY <2>1, Commits
  <2>3. a.vote = b.vote => (LogIdLt(a.id, b.id) <=> a.id.index < b.id.index)
    BY <2>1, Order
  <2>4. IOLt(a, b) <=> ~ IOLe(b, a)
    BY <2>1, <2>2, <2>3 DEF IOLt, IOLe
  <2>5. IOLe(a, b) /\ IOLe(b, a) => a = b
    <3>1. IOLe(a, b) /\ IOLe(b, a) => a.vote = b.vote /\ a.id.index = b.id.index
      BY <2>1, <2>2 DEF IOLe
    <3> QED BY <2>1, <3>1, Zenon
  <2> QED BY <2>4, <2>5
<1> QED BY <1>1, <1>2, <1>3, <1>4
----------------------------------------------------------------------------
(* Logs and sequences.                                                     *)

IsPut(M, L, b, t, k, last) ==
  \A i \in Nat : i > b => M[i] = IF i > k /\ i <= last THEN LeaderLog[t][i] ELSE L[i]
IsCut(M, L, b, since) == \A i \in Nat : i > b => M[i] = IF i < since THEN L[i] ELSE 0
Ends(L, k) == \A i \in Nat : i > k => L[i] = 0

\* The entries of a leader put after entries that match its log.
LEMMA Put ==
  ASSUME setting \in Settings, NEW L, NEW b \in Nat, Solid(L, b), NEW t \in Term,
         NEW k \in Nat, k >= b, NEW last \in Nat, k < last, last <= Own(t),
         Matches(L, t, b, k), Ends(L, k), NEW M, M \in [Nat -> Nat], IsPut(M, L, b, t, k, last)
  PROVE  Solid(M, b) /\ Matches(M, t, b, last)
<1> USE DEF IsPut, Ends
<1>0. \A u \in Term : Own(u) \in Nat /\ \A i \in 1..Own(u) : LeaderLog[u][i] \in Nat /\ LeaderLog[u][i] # 0
  BY Terms
<1>1. Matches(M, t, b, last)
  BY DEF Matches
<1>2. \A i \in Nat : b < i /\ i <= last => M[i] # 0
  BY <1>0, <1>1 DEF Matches
<1>3. \A i \in Nat : i > last => M[i] = 0
  OBVIOUS
<1>4. NoHole(M, b)
  BY <1>2, <1>3 DEF NoHole
<1>5. ASSUME NEW u \in Term, NEW j \in 1..Own(u), b < j, M[j] = LeaderLog[u][j]
      PROVE  Matches(M, u, b, j)
  <2>1. j \in Nat /\ j <= last
    BY <1>0, <1>3, <1>5
  <2>2. CASE j <= k
    <3>1. L[j] = LeaderLog[u][j]
      BY <1>5, <2>1, <2>2
    <3>2. Matches(L, u, b, j)
      BY <1>5, <3>1 DEF Solid, Matching
    <3> QED BY <2>1, <2>2, <3>2 DEF Matches
  <2>3. CASE j > k
    <3>1. j \in 1..Own(t) /\ LeaderLog[t][j] = LeaderLog[u][j]
      BY <1>0, <1>1, <1>5, <2>1 DEF Matches
    <3>2. \A i \in 1..j : LeaderLog[t][i] = LeaderLog[u][i]
      BY <1>5, <3>1, Terms
    <3> QED BY <1>1, <2>1, <3>2 DEF Matches
  <2> QED BY <2>1, <2>2, <2>3
<1>6. Matching(M, b)
  BY <1>5 DEF Matching
<1> QED BY <1>1, <1>4, <1>6 DEF Solid

\* A log cut off from an index.
LEMMA Cut ==
  ASSUME setting \in Settings, NEW L, NEW b \in Nat, Solid(L, b), NEW since \in Nat, NEW M, M \in [Nat -> Nat],
         IsCut(M, L, b, since)
  PROVE  Solid(M, b)
<1> USE DEF IsCut
<1>1. \A u \in Term : Own(u) \in Nat /\ \A i \in 1..Own(u) : LeaderLog[u][i] # 0
  BY Terms
<1>2. NoHole(M, b)
  BY DEF NoHole, Solid
<1>3. ASSUME NEW u \in Term, NEW j \in 1..Own(u), b < j, M[j] = LeaderLog[u][j]
      PROVE  Matches(M, u, b, j)
  <2>1. j \in Nat /\ j < since /\ L[j] = LeaderLog[u][j]
    BY <1>1, <1>3
  <2>2. Matches(L, u, b, j)
    BY <1>3, <2>1 DEF Solid, Matching
  <2> QED BY <2>1, <2>2 DEF Matches
<1> QED BY <1>2, <1>3 DEF Solid, Matching

\* A log looked at from a later index.
LEMMA Above ==
  ASSUME setting \in Settings, NEW L, NEW b \in Nat, Solid(L, b), NEW c \in Nat, b <= c,
         NEW M \in [Nat -> Nat], Same(M, L, c)
  PROVE  Solid(M, c)
<1>1. NoHole(M, c)
  BY DEF NoHole, Solid, Same
<1>2. ASSUME NEW u \in Term, NEW j \in 1..Own(u), c < j, M[j] = LeaderLog[u][j]
      PROVE  Matches(M, u, c, j)
  <2>1. j \in Nat /\ L[j] = LeaderLog[u][j]
    BY <1>2, Terms DEF Same
  <2>2. Matches(L, u, b, j)
    BY <1>2, <2>1 DEF Solid, Matching
  <2> QED BY <2>1, <2>2 DEF Matches, Same
<1> QED BY <1>1, <1>2 DEF Solid, Matching

\* Sequences of anything.
LEMMA Seqs ==
  /\ IsSeq(<<>>) /\ Len(<<>>) = 0
  /\ \A s : IsSeq(s) => Len(s) \in Nat /\ DOMAIN s = 1..Len(s)
  /\ \A s, c : IsSeq(s) => /\ IsSeq(Append(s, c)) /\ Len(Append(s, c)) = Len(s) + 1
                           /\ \A n \in 1..Len(s) : Append(s, c)[n] = s[n]
                           /\ Append(s, c)[Len(s) + 1] = c
  /\ \A s : IsSeq(s) /\ s # <<>> =>
       /\ IsSeq(Tail(s)) /\ Len(s) >= 1 /\ Len(Tail(s)) = Len(s) - 1 /\ Head(s) = s[1]
       /\ \A n \in 1..(Len(s) - 1) : Tail(s)[n] = s[n + 1]
<1>1. IsSeq(<<>>) /\ Len(<<>>) = 0
  BY EmptySeq DEF IsSeq
<1>2. ASSUME NEW s, IsSeq(s)
      PROVE  Len(s) \in Nat /\ DOMAIN s = 1..Len(s)
  BY <1>2, LenProperties, Zenon DEF IsSeq
<1>3. ASSUME NEW s, NEW c, IsSeq(s)
      PROVE  /\ IsSeq(Append(s, c)) /\ Len(Append(s, c)) = Len(s) + 1
             /\ \A n \in 1..Len(s) : Append(s, c)[n] = s[n]
             /\ Append(s, c)[Len(s) + 1] = c
  <2>1. PICK U : s \in Seq(U)
    BY <1>3 DEF IsSeq
  <2>2. s \in Seq(U \cup {c})
    BY <2>1, SeqMonotonic
  <2>3. Append(s, c) \in Seq(U \cup {c})
    BY <2>2
  <2> QED BY <2>2, <2>3 DEF IsSeq
<1>4. ASSUME NEW s, IsSeq(s), s # <<>>
      PROVE  /\ IsSeq(Tail(s)) /\ Len(s) >= 1 /\ Len(Tail(s)) = Len(s) - 1 /\ Head(s) = s[1]
             /\ \A n \in 1..(Len(s) - 1) : Tail(s)[n] = s[n + 1]
  <2>1. PICK U : s \in Seq(U)
    BY <1>4 DEF IsSeq
  <2>2. Tail(s) \in Seq(U) /\ Len(Tail(s)) = Len(s) - 1 /\ \A i \in 1..Len(Tail(s)) : Tail(s)[i] = s[i + 1]
    BY <1>4, <2>1, HeadTailProperties
  <2>3. Len(s) \in Nat \ {0}
    BY <1>4, <2>1, EmptySeq
  <2>4. Head(s) = s[1]
    BY <2>1, <1>4
  <2> QED BY <2>2, <2>3, <2>4 DEF IsSeq
<1> QED BY <1>1, <1>2, <1>3, <1>4
----------------------------------------------------------------------------
(* The queue.                                                              *)

\* What is due of a command that is pushed.
DueLast(c, cs, q, sub) ==
  /\ c.op = "TruncateLog" =>
       /\ c.since > sub
       /\ c.since > q[Len(cs)].io.id.index \/ Unblocked(cs, q, Len(cs) + 1, c.since)
  /\ c.op = "InstallFullSnapshot" =>
       /\ c.snap.snap.index > sub
       /\ Unblocked(cs, q, Len(cs) + 1, c.snap.snap.index)

\* A command pushed at the end of the queue.
LEMMA Extend ==
  ASSUME setting \in Settings, NEW cs, NEW q, NEW sub, Loose(cs, q, sub), NEW c, NEW d \in Disk,
         Solid(d.log, d.base), Link(c, q[Len(cs)], d), DueLast(c, cs, q, sub),
         IOLe(q[Len(cs)].io, d.io), q[Len(cs)].base <= d.base,
         Kept(q[Len(cs)]) \/ c.op = "InstallFullSnapshot",
         cs # <<>> => cs[Len(cs)].op # "InstallFullSnapshot"
                      \/ (c.op = "PurgeLog" /\ c.upto = cs[Len(cs)].snap.snap)
  PROVE  \E f : /\ Loose(Append(cs, c), f, sub) /\ f[Len(cs) + 1] = d
                /\ \A n \in 0..Len(cs) : f[n] = q[n]
<1> DEFINE N == Len(cs)
           f == [n \in 0..(N + 1) |-> IF n <= N THEN q[n] ELSE d]
           es == Append(cs, c)
<1>0. q \in [0..N -> Disk] /\ IsSeq(cs)
  BY DEF Loose
<1>1. N \in Nat /\ IsSeq(es) /\ Len(es) = N + 1 /\ es[N + 1] = c /\ \A n \in 1..N : es[n] = cs[n]
  BY <1>0, Seqs
<1>2. f \in [0..(N + 1) -> Disk] /\ f[N + 1] = d /\ \A n \in 0..N : f[n] = q[n]
  BY <1>0, <1>1
<1> HIDE DEF f, es
<1>3. \A n \in 0..(N + 1) : Solid(f[n].log, f[n].base)
  <2>1. ASSUME NEW n \in 0..(N + 1) PROVE Solid(f[n].log, f[n].base)
    <3>1. CASE n = N + 1
      BY <1>2, <3>1
    <3>2. CASE n # N + 1
      <4>1. n \in 0..N
        BY <1>1, <3>2
      <4> QED BY <1>2, <4>1 DEF Loose
    <3> QED BY <3>1, <3>2
  <2> QED BY <2>1
<1>4. ASSUME NEW m \in 0..(N + 1), NEW n \in 0..(N + 1), m <= n
      PROVE  IOLe(f[m].io, f[n].io) /\ f[m].base <= f[n].base
  <2>1. CASE n # N + 1
    <3>1. n \in 0..N /\ m \in 0..N
      BY <1>1, <1>4, <2>1
    <3> QED BY <1>2, <1>4, <3>1 DEF Loose
  <2>2. CASE m = N + 1 /\ n = N + 1
    <3>1. d.base \in Nat /\ d.io \in LogIO
      BY DEF Disk
    <3>2. d.io.vote \in Nat /\ d.io.id.index \in Nat
      BY <3>1, IOs DEF LogIO
    <3> QED BY <1>2, <2>2, <3>1, <3>2 DEF IOLe
  <2>3. CASE m # N + 1 /\ n = N + 1
    <3>1. m \in 0..N /\ N \in 0..N
      BY <1>1, <2>3
    <3>2. IOLe(q[m].io, q[N].io) /\ q[m].base <= q[N].base
      BY <1>1, <3>1 DEF Loose
    <3>3. q[m].io \in LogIO /\ q[N].io \in LogIO /\ d.io \in LogIO /\ q[m].base \in Nat /\ q[N].base \in Nat /\ d.base \in Nat
      BY <1>0, <3>1 DEF Disk
    <3>4. /\ q[m].io.vote \in Nat /\ q[N].io.vote \in Nat /\ d.io.vote \in Nat
          /\ q[m].io.id.index \in Nat /\ q[N].io.id.index \in Nat /\ d.io.id.index \in Nat
      BY <3>3, IOs DEF LogIO
    <3>5. IOLe(q[m].io, d.io)
      BY <3>2, <3>4 DEF IOLe
    <3>6. q[m].base <= d.base
      BY <3>2, <3>3
    <3> QED BY <1>2, <2>3, <3>1, <3>5, <3>6, Zenon
  <2> QED BY <1>1, <2>1, <2>2, <2>3
<1>5. ASSUME NEW n \in 1..(N + 1)
      PROVE  /\ Link(es[n], f[n - 1], f[n]) /\ Due(es, f, n, sub)
             /\ Kept(f[n - 1]) \/ es[n].op = "InstallFullSnapshot"
  <2>1. ASSUME NEW k \in 1..(n - 1) PROVE es[k] = cs[k] /\ f[k - 1] = q[k - 1]
    <3>1. k \in 1..N /\ k - 1 \in 0..N
      BY <1>1
    <3> QED BY <1>1, <1>2, <3>1
  <2>2. \A x : Unblocked(es, f, n, x) <=> Unblocked(cs, q, n, x)
    BY <2>1 DEF Unblocked
  <2>3. CASE n = N + 1
    <3>1. es[n] = c /\ f[n] = d /\ n - 1 = N /\ f[n - 1] = q[N]
      BY <1>1, <1>2, <2>3
    <3>2. Due(es, f, n, sub)
      BY <2>2, <2>3, <3>1, Zenon DEF Due, DueLast
    <3> QED BY <3>1, <3>2, Zenon
  <2>4. CASE n # N + 1
    <3>1. n \in 1..N /\ es[n] = cs[n] /\ f[n] = q[n] /\ f[n - 1] = q[n - 1]
      BY <1>1, <1>2, <2>4
    <3>2. /\ Link(cs[n], q[n - 1], q[n]) /\ Due(cs, q, n, sub)
          /\ Kept(q[n - 1]) \/ cs[n].op = "InstallFullSnapshot"
      BY <3>1 DEF Loose
    <3>3. Due(es, f, n, sub)
      BY <2>2, <3>1, <3>2, Zenon DEF Due
    <3> QED BY <3>1, <3>2, <3>3, Zenon
  <2> QED BY <2>3, <2>4
<1>6. ASSUME NEW n \in 1..N, es[n].op = "InstallFullSnapshot"
      PROVE  es[n + 1].op = "PurgeLog" /\ es[n + 1].upto = es[n].snap.snap
  <2>1. CASE n = N
    <3>1. cs # <<>>
      BY <2>1, Seqs
    <3> QED BY <1>1, <1>6, <2>1, <3>1
  <2>2. CASE n # N
    <3>1. n \in 1..(N - 1) /\ n + 1 \in 1..N
      BY <1>1, <2>2
    <3> QED BY <1>1, <1>6, <3>1 DEF Loose
  <2> QED BY <2>1, <2>2
<1>7. Loose(es, f, sub)
  BY <1>1, <1>2, <1>3, <1>4, <1>5, <1>6 DEF Loose
<1> QED BY <1>2, <1>7 DEF es

\* The first command is run.
LEMMA Shift ==
  ASSUME setting \in Settings, NEW cs, cs # <<>>, NEW q, NEW sub, Loose(cs, q, sub)
  PROVE  \E f : /\ Loose(Tail(cs), f, sub) /\ (Closed(cs, q) => Closed(Tail(cs), f))
                /\ f[0] = q[1] /\ f[Len(Tail(cs))] = q[Len(cs)]
<1> DEFINE N == Len(cs)
           f == [n \in 0..(N - 1) |-> q[n + 1]]
           es == Tail(cs)
<1>0. q \in [0..N -> Disk] /\ IsSeq(cs)
  BY DEF Loose
<1>1. N \in Nat /\ N >= 1 /\ IsSeq(es) /\ Len(es) = N - 1 /\ \A n \in 1..(N - 1) : es[n] = cs[n + 1]
  BY <1>0, Seqs
<1>2. f \in [0..(N - 1) -> Disk] /\ \A n \in 0..(N - 1) : f[n] = q[n + 1] /\ n + 1 \in 0..N
  BY <1>0, <1>1
<1> HIDE DEF f, es
<1>3. \A n \in 0..(N - 1) : Solid(f[n].log, f[n].base)
  BY <1>2 DEF Loose
<1>4. \A m, n \in 0..(N - 1) : m <= n => IOLe(f[m].io, f[n].io) /\ f[m].base <= f[n].base
  <2>1. ASSUME NEW m \in 0..(N - 1), NEW n \in 0..(N - 1), m <= n
        PROVE  IOLe(f[m].io, f[n].io) /\ f[m].base <= f[n].base
    <3>1. m + 1 \in 0..N /\ n + 1 \in 0..N /\ m + 1 <= n + 1
      BY <1>1, <2>1
    <3> QED BY <1>2, <3>1 DEF Loose
  <2> QED BY <2>1
<1>5. ASSUME NEW n \in 1..(N - 1)
      PROVE  /\ Link(es[n], f[n - 1], f[n]) /\ Due(es, f, n, sub)
             /\ Kept(f[n - 1]) \/ es[n].op = "InstallFullSnapshot"
  <2>1. /\ n + 1 \in 1..N /\ (n + 1) - 1 = n /\ n - 1 \in 0..(N - 1) /\ n \in 0..(N - 1)
        /\ es[n] = cs[n + 1] /\ f[n - 1] = q[n] /\ f[n] = q[n + 1]
    BY <1>1, <1>2
  <2>2. /\ Link(cs[n + 1], q[n], q[n + 1]) /\ Due(cs, q, n + 1, sub)
        /\ Kept(q[n]) \/ cs[n + 1].op = "InstallFullSnapshot"
    BY <2>1 DEF Loose
  <2>3. ASSUME NEW x, Unblocked(cs, q, n + 1, x) PROVE Unblocked(es, f, n, x)
    <3>1. ASSUME NEW m \in 1..(n - 1)
          PROVE  /\ es[m].op # "UpdateIOProgress"
                 /\ es[m].op = "PurgeLog" => f[m - 1].io.id.index < x
      <4>1. m + 1 \in 1..((n + 1) - 1) /\ es[m] = cs[m + 1] /\ f[m - 1] = q[(m + 1) - 1]
        BY <1>1, <1>2
      <4> QED BY <2>3, <4>1 DEF Unblocked
    <3> QED BY <3>1 DEF Unblocked
  <2>4. Due(es, f, n, sub)
    BY <2>1, <2>2, <2>3, Zenon DEF Due
  <2> QED BY <2>1, <2>2, <2>4, Zenon
<1>6. ASSUME NEW n \in 1..((N - 1) - 1), es[n].op = "InstallFullSnapshot"
      PROVE  es[n + 1].op = "PurgeLog" /\ es[n + 1].upto = es[n].snap.snap
  <2>1. n + 1 \in 1..(N - 1) /\ es[n] = cs[n + 1] /\ es[n + 1] = cs[(n + 1) + 1]
    BY <1>1
  <2> QED BY <1>6, <2>1 DEF Loose
<1>7. Loose(es, f, sub)
  BY <1>1, <1>2, <1>3, <1>4, <1>5, <1>6 DEF Loose
<1>8. f[0] = q[1] /\ f[N - 1] = q[N]
  BY <1>1, <1>2
<1>9. Closed(cs, q) => Closed(es, f)
  <2>1. es # <<>> => es[N - 1] = cs[N]
    <3>1. es # <<>> => Len(es) >= 1
      BY <1>1, Seqs
    <3> QED BY <1>1, <3>1
  <2> QED BY <1>1, <1>8, <2>1 DEF Closed
<1> QED BY <1>1, <1>7, <1>8, <1>9 DEF es

\* A queue without installs, looked at from a later index on.
LEMMA Raise ==
  ASSUME setting \in Settings, setting.installs = "none", NEW cs, NEW q, NEW sub \in Nat, NEW b \in Nat, b <= sub,
         Loose(cs, q, sub), Closed(cs, q)
  PROVE  \E f : /\ Loose(cs, f, sub) /\ Closed(cs, f)
                /\ \A n \in 0..Len(cs) : /\ f[n].log = q[n].log /\ f[n].io = q[n].io
                                         /\ f[n].base = IF q[n].base < b THEN b ELSE q[n].base
<1> DEFINE N == Len(cs)
           Later(n) == IF q[n].base < b THEN b ELSE q[n].base
           f == [n \in 0..N |-> [log |-> q[n].log, base |-> Later(n), io |-> q[n].io]]
<1>0. q \in [0..N -> Disk] /\ IsSeq(cs)
  BY DEF Loose
<1>1. N \in Nat
  BY <1>0, Seqs
<1>2. \A n \in 0..N : q[n].log \in [Nat -> Nat] /\ q[n].base \in Nat /\ q[n].io \in LogIO
  BY <1>0 DEF Disk
<1>3. \A n \in 0..N : Later(n) \in Nat /\ q[n].base <= Later(n) /\ b <= Later(n)
  BY <1>2
<1>4. \A n \in 0..N : f[n].log = q[n].log /\ f[n].io = q[n].io /\ f[n].base = Later(n) /\ f[n] \in Disk
  BY <1>2, <1>3 DEF Disk
<1>5. f \in [0..N -> Disk]
  BY <1>4
<1>6. \A n \in 0..N : f[n].base = IF q[n].base < b THEN b ELSE q[n].base
  BY <1>4
<1> HIDE DEF f
<1>7. \A n \in 0..N : Solid(f[n].log, f[n].base)
  <2>1. ASSUME NEW n \in 0..N PROVE Solid(f[n].log, f[n].base)
    <3>1. Solid(q[n].log, q[n].base)
      BY DEF Loose
    <3>2. Same(q[n].log, q[n].log, Later(n))
      BY DEF Same
    <3>3. Solid(q[n].log, Later(n))
      <4> HIDE DEF Later
      <4> QED BY <1>2, <1>3, <3>1, <3>2, Above
    <3> QED BY <1>4, <3>3
  <2> QED BY <2>1
<1>8. \A m, n \in 0..N : m <= n => IOLe(f[m].io, f[n].io) /\ f[m].base <= f[n].base
  <2>1. ASSUME NEW m \in 0..N, NEW n \in 0..N, m <= n
        PROVE  IOLe(f[m].io, f[n].io) /\ f[m].base <= f[n].base
    <3>1. IOLe(q[m].io, q[n].io) /\ q[m].base <= q[n].base
      BY <2>1 DEF Loose
    <3>2. q[m].base \in Nat /\ q[n].base \in Nat /\ f[m].io = q[m].io /\ f[n].io = q[n].io
      BY <1>2, <1>4
    <3>3. Later(m) <= Later(n)
      BY <3>1, <3>2
    <3> QED BY <1>4, <3>1, <3>2, <3>3
  <2> QED BY <2>1
<1>9. ASSUME NEW n \in 1..N
      PROVE  /\ Link(cs[n], f[n - 1], f[n]) /\ Due(cs, f, n, sub)
             /\ Kept(f[n - 1]) \/ cs[n].op = "InstallFullSnapshot"
             /\ cs[n].op # "InstallFullSnapshot"
  <2>1. n \in 0..N /\ n - 1 \in 0..N
    BY <1>1
  <2>2. /\ Link(cs[n], q[n - 1], q[n]) /\ Due(cs, q, n, sub)
        /\ Kept(q[n - 1]) \/ cs[n].op = "InstallFullSnapshot"
    BY DEF Loose
  <2>3. cs[n].op # "InstallFullSnapshot"
    BY <2>2 DEF Link
  <2>4. \A x : Unblocked(cs, f, n, x) <=> Unblocked(cs, q, n, x)
    <3>1. \A m \in 1..(n - 1) : m - 1 \in 0..N /\ f[m - 1].io = q[m - 1].io
      BY <1>1, <1>4
    <3> QED BY <3>1 DEF Unblocked
  <2>5. f[n - 1].io = q[n - 1].io /\ f[n].io = q[n].io /\ f[n - 1].log = q[n - 1].log /\ f[n].log = q[n].log
    BY <1>4, <2>1
  <2>6. Due(cs, f, n, sub)
    BY <2>2, <2>4, <2>5, Zenon DEF Due
  <2>7. Kept(f[n - 1])
    <3>1. Kept(q[n - 1])
      BY <2>2, <2>3
    <3>2. q[n - 1].base \in Nat /\ f[n - 1].base \in Nat /\ q[n - 1].base <= f[n - 1].base
      BY <1>2, <1>3, <1>4, <2>1
    <3> QED BY <2>5, <3>1, <3>2 DEF Kept, Matches
  <2>8. /\ q[n - 1].base \in Nat /\ f[n - 1].base \in Nat /\ q[n - 1].base <= f[n - 1].base
        /\ q[n].base = q[n - 1].base => f[n].base = f[n - 1].base
        /\ f[n - 1].base = q[n - 1].base \/ f[n - 1].base = b
    BY <1>2, <1>3, <1>4, <2>1
  <2>9. Link(cs[n], f[n - 1], f[n])
    <3>1. CASE cs[n].op = "TruncateLog"
      <4>1. cs[n].since > sub
        BY <2>2, <3>1 DEF Due
      <4>2. /\ cs[n].since \in Nat /\ cs[n].since > q[n - 1].base
            /\ q[n].io = q[n - 1].io /\ q[n].base = q[n - 1].base
            /\ \A i \in Nat : i > q[n - 1].base => q[n].log[i] = IF i < cs[n].since THEN q[n - 1].log[i] ELSE 0
        BY <2>2, <3>1 DEF Link
      <4>3. cs[n].since > f[n - 1].base
        BY <2>8, <4>1, <4>2
      <4>4. \A i \in Nat : i > f[n - 1].base => i > q[n - 1].base
        BY <2>8
      <4> QED BY <2>5, <2>8, <3>1, <4>2, <4>3, <4>4 DEF Link
    <3>2. CASE cs[n].op = "AppendEntries"
      BY <2>2, <2>5, <2>8, <3>2 DEF Link
    <3>3. CASE cs[n].op \in {"SaveVote", "UpdateIOProgress", "BuildSnapshot"}
      BY <2>2, <2>5, <2>8, <3>3 DEF Link, Same
    <3>4. CASE cs[n].op = "PurgeLog"
      BY <2>2, <2>5, <2>8, <3>4 DEF Link, Same
    <3> QED BY <2>2, <2>3, <3>1, <3>2, <3>3, <3>4 DEF Link
  <2> QED BY <2>3, <2>6, <2>7, <2>9
<1>10. Loose(cs, f, sub)
  BY <1>0, <1>1, <1>5, <1>7, <1>8, <1>9 DEF Loose
<1>11. Closed(cs, f)
  <2>1. N \in 0..N /\ Kept(q[N]) /\ (cs # <<>> => cs[N].op # "InstallFullSnapshot")
    BY <1>1 DEF Closed
  <2>2. /\ q[N].base \in Nat /\ f[N].base \in Nat /\ q[N].base <= f[N].base
        /\ f[N].io = q[N].io /\ f[N].log = q[N].log
    BY <1>2, <1>3, <1>4, <2>1
  <2>3. Kept(f[N])
    BY <2>1, <2>2 DEF Kept, Matches
  <2> QED BY <2>1, <2>3 DEF Closed
<1> QED BY <1>4, <1>6, <1>10, <1>11
----------------------------------------------------------------------------
(* The engine.                                                             *)

\* What a message may do to the engine: its queue grows at the end, and what
\* is submitted stays.
Grown(e, q, f, k) ==
  /\ k[0] = q[0]
  /\ e.cmds # <<>> => f.cmds # <<>> /\ Head(f.cmds) = Head(e.cmds)
  /\ f.rs.logSub = e.rs.logSub /\ f.rs.applySub = e.rs.applySub
  /\ f.rs.snapFlushed = e.rs.snapFlushed
  /\ e.rs.applyAcc.index <= f.rs.applyAcc.index

Follows(e, q, f) == \E k : EngineOK(f, k) /\ Grown(e, q, f, k)

\* Facts about an engine that are used everywhere.
LEMMA Facts ==
  ASSUME setting \in Settings, NEW e, NEW q, EngineOK(e, q)
  PROVE  LET d == q[Len(e.cmds)]
         IN /\ Len(e.cmds) \in Nat /\ IsSeq(e.cmds)
            /\ d \in Disk /\ d.base \in Nat /\ d.io \in LogIO /\ d.log \in [Nat -> Nat]
            /\ Solid(d.log, d.base) /\ Kept(d)
            /\ e.rs.vote \in Vote /\ e.rs.vote \in Nat /\ e.rs.logAcc \in LogIO
            /\ e.rs.logAcc.vote = e.rs.vote /\ e.rs.logAcc.id.index \in Nat
            /\ e.rs.logAcc.id = IdOf(e.rs.vote, e.rs.logAcc.id.index)
            /\ e.rs.logAcc.id.index \in 0..Own(e.rs.vote)
            /\ e.rs.applyAcc.index \in Nat /\ e.rs.applyAcc.index <= Com(e.rs.vote)
            /\ e.rs.applyAcc \in Upto(MaxTerm)
            /\ e.rs.snap.index \in Nat /\ e.rs.snap \in Upto(MaxTerm)
<1> DEFINE d == q[Len(e.cmds)]
<1>1. IsSeq(e.cmds) /\ q \in [0..Len(e.cmds) -> Disk] /\ Solid(d.log, d.base) /\ Kept(d)
  BY Seqs DEF EngineOK, Loose, Closed
<1>2. Len(e.cmds) \in Nat
  BY <1>1, Seqs
<1>3. d \in Disk
  BY <1>1, <1>2
<1>4. d.base \in Nat /\ d.io \in LogIO /\ d.log \in [Nat -> Nat]
  BY <1>3 DEF Disk
<1>5. e.rs.logAcc = d.io /\ e.rs.vote = d.io.vote /\ e.rs.applyAcc \in Upto(e.rs.vote) /\ e.rs.snap \in Upto(e.rs.vote)
  BY DEF EngineOK, Accepted
<1>6. e.rs.vote \in Vote /\ e.rs.vote \in Nat /\ e.rs.logAcc.id.index \in 0..Own(e.rs.vote)
      /\ e.rs.logAcc.id = IdOf(e.rs.vote, e.rs.logAcc.id.index)
  <2>1. /\ d.io.vote \in Vote /\ d.io.vote \in Nat /\ d.io.id.index \in 0..Own(d.io.vote)
        /\ d.io.id = IdOf(d.io.vote, d.io.id.index)
    <3> HIDE DEF d
    <3> QED BY <1>4, IOs
  <2> QED BY <2>1, <1>5
<1>7. Own(e.rs.vote) \in Nat /\ Com(e.rs.vote) \in Nat
  BY <1>6, Commits
<1>8. e.rs.applyAcc.index \in 0..Com(e.rs.vote) /\ e.rs.applyAcc \in Upto(MaxTerm)
      /\ e.rs.snap.index \in 0..Com(e.rs.vote) /\ e.rs.snap \in Upto(MaxTerm)
  BY <1>5, <1>6, ChosenIds
<1> HIDE DEF d
<1>9. e.rs.applyAcc.index \in Nat /\ e.rs.applyAcc.index <= Com(e.rs.vote) /\ e.rs.snap.index \in Nat
      /\ e.rs.logAcc.id.index \in Nat
  BY <1>6, <1>7, <1>8
<1> QED BY <1>1, <1>2, <1>3, <1>4, <1>5, <1>6, <1>8, <1>9 DEF d

\* A command pushed by the engine, with what it makes of its state.
LEMMA Pushing ==
  ASSUME setting \in Settings, NEW e, NEW q, EngineOK(e, q), NEW c, NEW d \in Disk, NEW r,
         c.op # "InstallFullSnapshot",
         Solid(d.log, d.base), Link(c, q[Len(e.cmds)], d), DueLast(c, e.cmds, q, e.rs.applySub.index),
         IOLe(q[Len(e.cmds)].io, d.io), q[Len(e.cmds)].base <= d.base, Kept(d), Accepted(r, d),
         r.logSub = e.rs.logSub, r.applySub = e.rs.applySub, r.snapFlushed = e.rs.snapFlushed,
         e.rs.applyAcc.index <= r.applyAcc.index
  PROVE  Follows(e, q, [rs |-> r, cmds |-> Append(e.cmds, c)])
<1> DEFINE cs == e.cmds
           g == [rs |-> r, cmds |-> Append(cs, c)]
<1>1. Loose(cs, q, e.rs.applySub.index) /\ Closed(cs, q)
  BY DEF EngineOK
<1>2. PICK f : /\ Loose(Append(cs, c), f, e.rs.applySub.index) /\ f[Len(cs) + 1] = d
               /\ \A n \in 0..Len(cs) : f[n] = q[n]
  <2>1. Kept(q[Len(cs)]) \/ c.op = "InstallFullSnapshot"
    BY <1>1 DEF Closed
  <2>2. cs # <<>> => cs[Len(cs)].op # "InstallFullSnapshot"
                      \/ (c.op = "PurgeLog" /\ c.upto = cs[Len(cs)].snap.snap)
    <3>1. ASSUME cs # <<>> PROVE cs[Len(cs)].op # "InstallFullSnapshot"
      BY <1>1, <3>1 DEF Closed
    <3> QED BY <3>1, Zenon
  <2> HIDE DEF cs
  <2> QED BY <1>1, <2>1, <2>2, Extend, SMTT(30) DEF cs
<1>3. g.rs = r /\ g.cmds = Append(cs, c) /\ g = [rs |-> g.rs, cmds |-> g.cmds]
  OBVIOUS
<1>4. /\ Len(cs) \in Nat /\ Len(Append(cs, c)) = Len(cs) + 1 /\ Append(cs, c)[Len(cs) + 1] = c
      /\ Append(cs, c) # <<>> /\ Head(Append(cs, c)) = Append(cs, c)[1]
      /\ cs # <<>> => Append(cs, c)[1] = cs[1] /\ Head(cs) = cs[1]
  <2>1. IsSeq(cs)
    BY <1>1 DEF Loose
  <2>2. /\ Len(cs) \in Nat /\ IsSeq(Append(cs, c)) /\ Len(Append(cs, c)) = Len(cs) + 1
        /\ Append(cs, c)[Len(cs) + 1] = c /\ \A n \in 1..Len(cs) : Append(cs, c)[n] = cs[n]
    BY <2>1, Seqs
  <2>3. Append(cs, c) # <<>>
    <3>1. Len(Append(cs, c)) # 0 /\ Len(<<>>) = 0
      BY <2>2, Seqs
    <3> QED BY <3>1, Zenon
  <2>4. Head(Append(cs, c)) = Append(cs, c)[1]
    BY <2>2, <2>3, Seqs
  <2>5. cs # <<>> => 1 \in 1..Len(cs) /\ Head(cs) = cs[1]
    BY <2>1, Seqs
  <2> QED BY <2>2, <2>3, <2>4, <2>5
<1> HIDE DEF g, cs
<1>5. Closed(g.cmds, f)
  BY <1>2, <1>3, <1>4 DEF Closed
<1>6. EngineOK(g, f)
  BY <1>2, <1>3, <1>4, <1>5 DEF EngineOK
<1>7. f[0] = q[0]
  BY <1>2, <1>4
<1>8. Grown(e, q, g, f)
  BY <1>3, <1>4, <1>7 DEF Grown, cs
<1> QED BY <1>6, <1>8 DEF Follows, g, cs

\* One message after the other.
LEMMA Chained ==
  ASSUME setting \in Settings, NEW e, NEW q, EngineOK(e, q), NEW f, NEW k, EngineOK(f, k), Grown(e, q, f, k),
         NEW g, Follows(f, k, g)
  PROVE  Follows(e, q, g)
<1>1. PICK j : EngineOK(g, j) /\ Grown(f, k, g, j)
  BY DEF Follows
<1>2. e.rs.applyAcc.index \in Nat /\ f.rs.applyAcc.index \in Nat /\ g.rs.applyAcc.index \in Nat
  BY <1>1, Facts
<1>3. Grown(e, q, g, j)
  BY <1>1, <1>2 DEF Grown
<1> QED BY <1>1, <1>3 DEF Follows

\* A message that changes nothing.
LEMMA Nothing ==
  ASSUME setting \in Settings, NEW e, NEW q, EngineOK(e, q)
  PROVE  Grown(e, q, e, q) /\ Follows(e, q, e)
<1>1. e.rs.applyAcc.index \in Nat
  BY Facts
<1>2. Grown(e, q, e, q)
  BY <1>1 DEF Grown
<1> QED BY <1>2 DEF Follows

\* What pushing a command makes of an engine.
LEMMA PushIs ==
  \A r, cs, c : Push([rs |-> r, cmds |-> cs], c) = [rs |-> r, cmds |-> Append(cs, c)]
BY DEF Push

\* A newer vote is accepted and its write queued.
LEMMA UpdateVoteKeeps ==
  ASSUME setting \in Settings, NEW e, NEW q, EngineOK(e, q), NEW t \in Term
  PROVE  /\ Follows(e, q, UpdateVote(e, t))
         /\ t >= e.rs.vote => UpdateVote(e, t).rs.vote = t
         /\ UpdateVote(e, t).rs.applyAcc = e.rs.applyAcc
<1> DEFINE d == q[Len(e.cmds)]
           io == IOId(t, NoLogId)
           c == [op |-> "SaveVote", vote |-> t]
<1>1. t \in Nat /\ t \in Vote /\ t > 0
  <2>1. t \in Vote
    BY Commits
  <2> QED BY <2>1, Logs DEF Term
<1>2. /\ d \in Disk /\ d.base \in Nat /\ d.io \in LogIO /\ d.log \in [Nat -> Nat] /\ Solid(d.log, d.base)
      /\ e.rs.vote \in Nat /\ e.rs.vote \in Vote /\ e.rs.applyAcc.index \in Nat
  BY Facts
<1>3. e = [rs |-> e.rs, cmds |-> e.cmds] /\ DOMAIN e.rs = RsFields /\ Accepted(e.rs, d)
      /\ e.rs.logAcc = d.io /\ e.rs.vote = d.io.vote
  BY DEF EngineOK, Accepted
<1>4. io \in LogIO /\ io.vote = t /\ io.id.index = 0
  BY <1>1, IOs, Commits
<1> HIDE DEF d
<1>5. CASE t > e.rs.vote
  <2> DEFINE e1 == [e EXCEPT !.rs.vote = t]
             r == [[e.rs EXCEPT !.vote = t] EXCEPT !.logAcc = io]
             x == [log |-> d.log, base |-> d.base, io |-> io]
  <2>1. e1.rs = [e.rs EXCEPT !.vote = t] /\ e1.cmds = e.cmds /\ e1.rs.logAcc = d.io
    BY <1>3 DEF RsFields
  <2>2. IOLt(d.io, io)
    BY <1>3, <1>4, <1>5 DEF IOLt
  <2>3. AcceptLogIO(e1, io) = [rs |-> r, cmds |-> e.cmds]
    BY <1>3, <2>1, <2>2 DEF AcceptLogIO
  <2>4. UpdateVote(e, t) = [rs |-> r, cmds |-> Append(e.cmds, c)]
    <3>1. UpdateVote(e, t) = Push(AcceptLogIO(e1, io), c)
      BY <1>5 DEF UpdateVote
    <3> HIDE DEF e1, r, io, c
    <3> QED BY <2>3, <3>1, PushIs
  <2>5. /\ DOMAIN r = RsFields /\ r.vote = t /\ r.logAcc = io
        /\ r.logSub = e.rs.logSub /\ r.applySub = e.rs.applySub /\ r.snapFlushed = e.rs.snapFlushed
        /\ r.applyAcc = e.rs.applyAcc /\ r.ids = e.rs.ids /\ r.snap = e.rs.snap
        /\ r.clusterCommitted = e.rs.clusterCommitted /\ r.triedAt = e.rs.triedAt /\ r.purged = e.rs.purged
    BY <1>3 DEF RsFields
  <2> HIDE DEF e1, r, io
  <2>6. x \in Disk /\ x.log = d.log /\ x.base = d.base /\ x.io = io
    BY <1>2, <1>4 DEF Disk
  <2> HIDE DEF x
  <2>7. Accepted(r, x)
    <3>1. Upto(e.rs.vote) \subseteq Upto(t)
      BY <1>1, <1>2, <1>5, ChosenIds
    <3> QED BY <1>3, <1>4, <2>5, <2>6, <3>1 DEF Accepted
  <2>8. Kept(x)
    BY <1>2, <1>4, <2>6 DEF Kept, Matches
  <2>9. c.op = "SaveVote" /\ c.vote = t
    OBVIOUS
  <2>10. Link(c, d, x)
    BY <1>3, <1>5, <2>6, <2>9 DEF Link, Same, io
  <2>11. DueLast(c, e.cmds, q, e.rs.applySub.index)
    BY <2>9 DEF DueLast
  <2>12. IOLe(d.io, x.io) /\ d.base <= x.base
    BY <1>2, <1>3, <1>4, <1>5, <2>6 DEF IOLe
  <2>13. Solid(x.log, x.base)
    BY <1>2, <2>6
  <2> HIDE DEF c
  <2>14. e.rs.applyAcc.index <= r.applyAcc.index
    BY <1>2, <2>5
  <2>15. Follows(e, q, [rs |-> r, cmds |-> Append(e.cmds, c)])
    BY <2>5, <2>6, <2>7, <2>8, <2>9, <2>10, <2>11, <2>12, <2>13, <2>14, Pushing DEF d
  <2> QED BY <2>4, <2>5, <2>15
<1>6. CASE ~ (t > e.rs.vote)
  <2>1. UpdateVote(e, t) = e
    BY <1>6 DEF UpdateVote
  <2> QED BY <1>1, <1>2, <1>6, <2>1, Nothing
<1> QED BY <1>5, <1>6

\* Two states of the engine that differ in their log ids and memberships only.
Alike(r, s) ==
  /\ DOMAIN r = RsFields
  /\ r.logAcc = s.logAcc /\ r.logSub = s.logSub /\ r.vote = s.vote
  /\ r.applyAcc = s.applyAcc /\ r.applySub = s.applySub /\ r.clusterCommitted = s.clusterCommitted
  /\ r.snap = s.snap /\ r.snapFlushed = s.snapFlushed /\ r.triedAt = s.triedAt /\ r.purged = s.purged

\* The state of the engine of a truncated log.
LEMMA TruncateIs ==
  ASSUME NEW e, e = [rs |-> e.rs, cmds |-> e.cmds], DOMAIN e.rs = RsFields, Bounded(e.rs.ids),
         NEW since \in Nat, since \in DOMAIN e.rs.ids
  PROVE  \E r : /\ TruncateLogs(e, since) =
                     [rs |-> r, cmds |-> Append(e.cmds, [op |-> "TruncateLog", since |-> since])]
                /\ r.ids = [i \in {j \in DOMAIN e.rs.ids : j < since} |-> e.rs.ids[i]]
                /\ Alike(r, e.rs)
<1> DEFINE c == [op |-> "TruncateLog", since |-> since]
           cut == Restrict(e.rs.ids, {i \in DOMAIN e.rs.ids : i < since})
           r1 == [e.rs EXCEPT !.ids = cut]
           r2 == TruncateMembership(r1, since)
           e1 == [e EXCEPT !.rs = r2]
<1>1. TruncateLogs(e, since) = Push(e1, c)
  BY Zenon DEF TruncateLogs
<1>2. r1.ids = cut /\ Alike(r1, e.rs)
  BY DEF RsFields, Alike
<1>3. cut = [i \in {j \in DOMAIN e.rs.ids : j < since} |-> e.rs.ids[i]]
  BY DEF Restrict
<1> HIDE DEF r1, cut
<1>4. r2.ids = cut /\ Alike(r2, e.rs)
  BY <1>2 DEF TruncateMembership, RsFields, Alike
<1> HIDE DEF r2
<1>5. e1 = [rs |-> r2, cmds |-> e.cmds]
  OBVIOUS
<1> HIDE DEF e1
<1>6. Push(e1, c) = [rs |-> r2, cmds |-> Append(e.cmds, c)]
  BY <1>5, PushIs
<1> QED BY <1>1, <1>3, <1>4, <1>6

\* Truncating the log above what is applied and what is accepted.
LEMMA TruncateKeeps ==
  ASSUME setting \in Settings, NEW e, NEW q, EngineOK(e, q), NEW since \in Nat,
         e.rs.applySub.index <= e.rs.applyAcc.index,  e.rs.applySub.index \in Nat,
         e.rs.applyAcc.index < since, e.rs.logAcc.id.index < since
  PROVE  LET f == TruncateLogs(e, since)
         IN /\ Follows(e, q, f)
            /\ f.rs.logAcc = e.rs.logAcc /\ f.rs.vote = e.rs.vote
            /\ f.rs.applyAcc = e.rs.applyAcc /\ f.rs.applySub = e.rs.applySub
            /\ \A i \in Nat : i >= since => i \notin DOMAIN f.rs.ids
            /\ \A i \in Nat : i < since => /\ i \in DOMAIN f.rs.ids <=> i \in DOMAIN e.rs.ids
                                           /\ i \in DOMAIN f.rs.ids => f.rs.ids[i] = e.rs.ids[i]
<1> DEFINE d == q[Len(e.cmds)]
           c == [op |-> "TruncateLog", since |-> since]
<1>1. /\ d \in Disk /\ d.base \in Nat /\ d.io \in LogIO /\ d.log \in [Nat -> Nat] /\ Solid(d.log, d.base)
      /\ Kept(d) /\ e.rs.applyAcc.index \in Nat /\ e.rs.logAcc.id.index \in Nat
  BY Facts
<1>2. e = [rs |-> e.rs, cmds |-> e.cmds] /\ DOMAIN e.rs = RsFields /\ Accepted(e.rs, d)
      /\ e.rs.logAcc = d.io /\ e.rs.vote = d.io.vote /\ d.base <= e.rs.applyAcc.index /\ Bounded(e.rs.ids)
      /\ Agrees(e.rs.ids, d.log, d.base)
  BY DEF EngineOK, Accepted
<1> HIDE DEF d
<1>3. since > d.base
  BY <1>1, <1>2
<1>4. CASE since \in DOMAIN e.rs.ids
  <2>1. PICK r : /\ TruncateLogs(e, since) = [rs |-> r, cmds |-> Append(e.cmds, c)]
                 /\ r.ids = [i \in {j \in DOMAIN e.rs.ids : j < since} |-> e.rs.ids[i]]
                 /\ Alike(r, e.rs)
    BY <1>2, <1>4, TruncateIs
  <2>2. /\ DOMAIN r = RsFields
        /\ r.logAcc = e.rs.logAcc /\ r.vote = e.rs.vote /\ r.applyAcc = e.rs.applyAcc /\ r.applySub = e.rs.applySub
        /\ r.logSub = e.rs.logSub /\ r.snapFlushed = e.rs.snapFlushed /\ r.snap = e.rs.snap
        /\ r.clusterCommitted = e.rs.clusterCommitted /\ r.triedAt = e.rs.triedAt /\ r.purged = e.rs.purged
    BY <2>1 DEF Alike
  <2> DEFINE M == [i \in Nat |-> IF i < since THEN d.log[i] ELSE 0]
             x == [log |-> M, base |-> d.base, io |-> d.io]
  <2>3. M \in [Nat -> Nat] /\ \A i \in Nat : M[i] = IF i < since THEN d.log[i] ELSE 0
    BY <1>1
  <2> HIDE DEF M
  <2>4. x \in Disk /\ x.log = M /\ x.base = d.base /\ x.io = d.io
    BY <1>1, <2>3 DEF Disk
  <2> HIDE DEF x
  <2>5. Solid(x.log, x.base)
    <3>1. IsCut(M, d.log, d.base, since)
      BY <2>3 DEF IsCut
    <3>2. Solid(d.log, d.base) /\ d.base \in Nat
      BY <1>1
    <3>3. Solid(M, d.base)
      BY <2>3, <3>1, <3>2, Cut
    <3> QED BY <2>4, <3>3
  <2>6. Kept(x)
    <3>1. \A i \in Nat : i <= d.io.id.index => i < since
      BY <1>1, <1>2
    <3> QED BY <1>1, <2>3, <2>4, <3>1 DEF Kept, Matches
  <2>7. Bounded(r.ids)
    BY <1>2, <2>1 DEF Bounded
  <2>8. Agrees(r.ids, x.log, x.base)
    BY <1>1, <1>2, <2>1, <2>3, <2>4 DEF Agrees
  <2>9. ASSUME NEW i \in Nat, r.snap.index < i, i <= r.applyAcc.index
        PROVE  i \in DOMAIN r.ids /\ r.ids[i] = Chosen[i]
    <3>1. i \in DOMAIN e.rs.ids /\ e.rs.ids[i] = Chosen[i]
      BY <1>2, <2>2, <2>9 DEF Accepted
    <3>2. i < since
      BY <1>1, <2>2, <2>9
    <3> QED BY <2>1, <3>1, <3>2
  <2>10. Accepted(r, x)
    BY <1>2, <2>1, <2>2, <2>4, <2>7, <2>8, <2>9 DEF Accepted
  <2>11. c.op = "TruncateLog" /\ c.since = since
    OBVIOUS
  <2> HIDE DEF c
  <2>12. Link(c, d, x)
    BY <1>3, <2>3, <2>4, <2>11 DEF Link
  <2>13. DueLast(c, e.cmds, q, e.rs.applySub.index)
    <3>1. since > e.rs.applySub.index /\ since > d.io.id.index
      BY <1>1, <1>2
    <3> QED BY <2>11, <3>1 DEF DueLast, d
  <2>14. IOLe(d.io, x.io) /\ d.base <= x.base
    BY <1>1, <1>2, <2>4 DEF IOLe
  <2>15. Follows(e, q, [rs |-> r, cmds |-> Append(e.cmds, c)])
    <3>1. e.rs.applyAcc.index <= r.applyAcc.index
      BY <1>1, <2>2
    <3> QED BY <2>2, <2>4, <2>5, <2>6, <2>10, <2>11, <2>12, <2>13, <2>14, <3>1, Pushing DEF d
  <2>16. TruncateLogs(e, since).rs = r
    BY <2>1
  <2> QED BY <2>1, <2>2, <2>15, <2>16
<1>5. CASE since \notin DOMAIN e.rs.ids
  <2>1. TruncateLogs(e, since) = e
    BY <1>5 DEF TruncateLogs
  <2>2. d.log[since] = 0
    BY <1>2, <1>3, <1>5 DEF Agrees
  <2>3. ASSUME NEW i \in Nat, i >= since PROVE i \notin DOMAIN e.rs.ids
    <3>1. d.log[i] = 0
      BY <1>1, <1>3, <2>2, <2>3 DEF Solid, NoHole
    <3> QED BY <1>1, <1>2, <1>3, <2>3, <3>1 DEF Agrees
  <2> QED BY <2>1, <2>3, Nothing
<1> QED BY <1>4, <1>5

\* The log matches the leader's as far as its log ids are found.
LEMMA MatchesLeader ==
  ASSUME setting \in Settings, NEW e, NEW q, EngineOK(e, q), NEW t \in Term, e.rs.vote = t,
         NEW prev \in Nat, NEW k \in Nat, prev <= k, k <= Own(t),
         prev = 0 \/ HasLogId(e.rs, IdOf(t, prev)),
         \A i \in Nat : prev < i /\ i <= k => HasLogId(e.rs, IdOf(t, i))
  PROVE  Matches(q[Len(e.cmds)].log, t, q[Len(e.cmds)].base, k)
<1> DEFINE d == q[Len(e.cmds)]
<1>1. /\ d.base \in Nat /\ d.log \in [Nat -> Nat] /\ Solid(d.log, d.base)
      /\ e.rs.applyAcc.index \in Nat /\ e.rs.applyAcc.index <= Com(t) /\ e.rs.snap.index \in Nat
  BY Facts
<1>2. /\ Agrees(e.rs.ids, d.log, d.base) /\ e.rs.snap.index <= d.base
      /\ \A i \in Nat : e.rs.snap.index < i /\ i <= e.rs.applyAcc.index =>
           i \in DOMAIN e.rs.ids /\ e.rs.ids[i] = Chosen[i]
  BY DEF EngineOK, Accepted
<1>3. t \in Vote /\ Own(t) \in Nat /\ Com(t) \in Nat
  BY Commits
<1> HIDE DEF d
<1>4. ASSUME NEW i \in Nat, d.base < i, i <= e.rs.applyAcc.index
      PROVE  d.log[i] = LeaderLog[t][i]
  <2>1. e.rs.snap.index < i /\ i \in 1..Com(t)
    BY <1>1, <1>2, <1>3, <1>4
  <2>2. i \in DOMAIN e.rs.ids /\ e.rs.ids[i] = Chosen[i]
    BY <1>2, <1>4, <2>1
  <2>3. Chosen[i] = LeaderLog[t][i]
    BY <1>3, <2>1, Commits
  <2> QED BY <1>2, <1>4, <2>2, <2>3 DEF Agrees
<1>5. ASSUME NEW i \in Nat, d.base < i, i <= k, e.rs.applyAcc.index < i, HasLogId(e.rs, IdOf(t, i))
      PROVE  d.log[i] = LeaderLog[t][i]
  <2>1. i \in 0..Own(t)
    BY <1>3, <1>5
  <2>2. IdOf(t, i).index = i
    BY <1>3, <2>1, Order
  <2>3. IdOf(t, i).term = LeaderLog[t][i]
    BY <1>1, <1>5 DEF IdOf
  <2>4. i \in DOMAIN e.rs.ids /\ e.rs.ids[i] = LeaderLog[t][i]
    BY <1>1, <1>5, <2>2, <2>3 DEF HasLogId
  <2> QED BY <1>2, <1>5, <2>4 DEF Agrees
<1>6. ASSUME NEW i \in Nat, d.base < i, i <= k PROVE d.log[i] = LeaderLog[t][i]
  <2>1. CASE i <= e.rs.applyAcc.index
    BY <1>4, <1>6, <2>1
  <2>2. CASE prev < i /\ e.rs.applyAcc.index < i
    BY <1>5, <1>6, <2>2
  <2>3. CASE i <= prev /\ e.rs.applyAcc.index < i
    <3>1. prev # 0 /\ d.base < prev /\ e.rs.applyAcc.index < prev
      BY <1>1, <1>6, <2>3
    <3>2. d.log[prev] = LeaderLog[t][prev]
      BY <1>5, <3>1
    <3>3. prev \in 1..Own(t)
      BY <1>3, <3>1
    <3>4. Matches(d.log, t, d.base, prev)
      BY <1>1, <3>1, <3>2, <3>3 DEF Solid, Matching
    <3> QED BY <1>6, <2>3, <3>4 DEF Matches
  <2> QED BY <1>1, <1>6, <2>1, <2>2, <2>3
<1> QED BY <1>6 DEF Matches, d

\* A log id of the leader that is not found is later than what is accepted.
LEMMA NotFound ==
  ASSUME setting \in Settings, NEW e, NEW q, EngineOK(e, q), NEW t \in Term, e.rs.vote = t,
         NEW i \in 1..Own(t), ~ HasLogId(e.rs, IdOf(t, i))
  PROVE  e.rs.applyAcc.index < i /\ e.rs.logAcc.id.index < i
<1> DEFINE d == q[Len(e.cmds)]
<1>0. t \in Vote /\ Own(t) \in Nat /\ t \in Nat /\ t > 0 /\ i \in Nat
  BY Terms
<1>1. /\ d.base \in Nat /\ d.log \in [Nat -> Nat] /\ Kept(d)
      /\ e.rs.applyAcc.index \in Nat /\ e.rs.logAcc.id.index \in Nat
  BY Facts
<1>2. /\ Agrees(e.rs.ids, d.log, d.base) /\ e.rs.logAcc = d.io /\ d.io.vote = t /\ d.base <= e.rs.applyAcc.index
  BY DEF EngineOK, Accepted
<1> HIDE DEF d
<1>3. IdOf(t, i).index = i /\ IdOf(t, i).term = LeaderLog[t][i]
  BY <1>0, <1>1, Order DEF IdOf
<1>4. e.rs.applyAcc.index < i /\ ~ (i \in DOMAIN e.rs.ids /\ e.rs.ids[i] = LeaderLog[t][i])
  BY <1>0, <1>1, <1>3 DEF HasLogId
<1>5. d.base < i
  BY <1>0, <1>1, <1>2, <1>4
<1>6. LeaderLog[t][i] # 0
  BY Terms
<1>7. d.log[i] # LeaderLog[t][i]
  BY <1>0, <1>1, <1>2, <1>4, <1>5, <1>6 DEF Agrees
<1>8. ~ (i <= d.io.id.index)
  BY <1>0, <1>1, <1>2, <1>5, <1>7 DEF Kept, Matches
<1>9. e.rs.logAcc.id.index = d.io.id.index
  BY <1>2
<1>10. e.rs.logAcc.id.index < i
  <2> DEFINE x == e.rs.logAcc.id.index
  <2>1. x \in Nat /\ i \in Nat /\ ~ (i <= x)
    BY <1>0, <1>1, <1>8, <1>9
  <2> HIDE DEF x
  <2>2. x < i
    BY <2>1
  <2> QED BY <2>2 DEF x
<1> QED BY <1>4, <1>10

\* A set of numbers that is not empty has a least one.
LEMMA Least ==
  ASSUME NEW S \in SUBSET Nat, NEW x \in S
  PROVE  \E z \in S : \A y \in S : z <= y
<1>1. S # {}
  OBVIOUS
<1>2. PICK z \in S : \A y \in S : <<y, z>> \notin OpToRel(<, Nat)
  BY <1>1, NatLessThanWellFounded, WFMin, Zenon
<1>3. ASSUME NEW y \in S PROVE z <= y
  <2>1. y \in Nat /\ z \in Nat
    OBVIOUS
  <2>2. ~ (y < z)
    BY <1>2, <2>1, Zenon DEF OpToRel
  <2> QED BY <2>1, <2>2
<1> QED BY <1>3

\* Two states of the engine that differ in what they accept, too.
AlikeBut(r, s, io) ==
  /\ DOMAIN r = RsFields
  /\ r.logAcc = (IF IOLt(s.logAcc, io) THEN io ELSE s.logAcc) /\ r.logSub = s.logSub /\ r.vote = s.vote
  /\ r.applyAcc = s.applyAcc /\ r.applySub = s.applySub /\ r.clusterCommitted = s.clusterCommitted
  /\ r.snap = s.snap /\ r.snapFlushed = s.snapFlushed /\ r.triedAt = s.triedAt /\ r.purged = s.purged

\* What accepting an IO changes.
LEMMA AcceptIs ==
  ASSUME NEW e, e = [rs |-> e.rs, cmds |-> e.cmds], DOMAIN e.rs = RsFields, NEW io
  PROVE  LET f == AcceptLogIO(e, io)
         IN /\ f = [rs |-> f.rs, cmds |-> e.cmds] /\ f.cmds = e.cmds /\ f.rs.ids = e.rs.ids
            /\ AlikeBut(f.rs, e.rs, io)
            /\ ~ IOLt(e.rs.logAcc, io) => f = e
<1>1. CASE IOLt(e.rs.logAcc, io)
  <2> DEFINE r == [e.rs EXCEPT !.logAcc = io]
  <2>1. AcceptLogIO(e, io) = [rs |-> r, cmds |-> e.cmds]
    BY <1>1 DEF AcceptLogIO
  <2>2. AlikeBut(r, e.rs, io) /\ r.ids = e.rs.ids
    BY <1>1 DEF AlikeBut, RsFields
  <2> HIDE DEF r
  <2> QED BY <1>1, <2>1, <2>2
<1>2. CASE ~ IOLt(e.rs.logAcc, io)
  <2>1. AcceptLogIO(e, io) = e
    BY <1>2 DEF AcceptLogIO
  <2>2. AlikeBut(e.rs, e.rs, io)
    BY <1>2 DEF AlikeBut
  <2> QED BY <2>1, <2>2
<1> QED BY <1>1, <1>2

CutCmds(cs, ids, since) == IF since \in DOMAIN ids
                           THEN Append(cs, [op |-> "TruncateLog", since |-> since]) ELSE cs
CutIds(ids, since)      == IF since \in DOMAIN ids
                           THEN [i \in {j \in DOMAIN ids : j < since} |-> ids[i]] ELSE ids

\* What truncating changes, whether there is something to truncate or not.
LEMMA TruncateAlike ==
  ASSUME NEW e, e = [rs |-> e.rs, cmds |-> e.cmds], DOMAIN e.rs = RsFields, Bounded(e.rs.ids),
         NEW since \in Nat
  PROVE  LET f == TruncateLogs(e, since)
         IN /\ f = [rs |-> f.rs, cmds |-> f.cmds] /\ Alike(f.rs, e.rs)
            /\ f.cmds = CutCmds(e.cmds, e.rs.ids, since)
            /\ f.rs.ids = CutIds(e.rs.ids, since)
<1> USE DEF CutCmds, CutIds
<1>1. CASE since \in DOMAIN e.rs.ids
  <2> DEFINE cs == Append(e.cmds, [op |-> "TruncateLog", since |-> since])
             ids == [i \in {j \in DOMAIN e.rs.ids : j < since} |-> e.rs.ids[i]]
  <2>1. PICK r : TruncateLogs(e, since) = [rs |-> r, cmds |-> cs] /\ r.ids = ids /\ Alike(r, e.rs)
    BY <1>1, TruncateIs
  <2> HIDE DEF cs, ids
  <2>2. /\ TruncateLogs(e, since) = [rs |-> TruncateLogs(e, since).rs, cmds |-> TruncateLogs(e, since).cmds]
        /\ TruncateLogs(e, since).rs = r /\ TruncateLogs(e, since).cmds = cs
    BY <2>1
  <2> QED BY <1>1, <2>1, <2>2 DEF cs, ids
<1>2. CASE since \notin DOMAIN e.rs.ids
  <2>1. TruncateLogs(e, since) = e
    BY <1>2 DEF TruncateLogs
  <2>2. Alike(e.rs, e.rs)
    BY DEF Alike
  <2> QED BY <1>2, <2>1, <2>2
<1> QED BY <1>1, <1>2

\* Memberships are of no account here.
LEMMA MembershipsOnly ==
  ASSUME NEW r, DOMAIN r = RsFields
  PROVE  /\ \A ms : Alike(AppendMembership(r, ms), r) /\ AppendMembership(r, ms).ids = r.ids
         /\ \A id : Alike(CommitMembership(r, id), r) /\ CommitMembership(r, id).ids = r.ids
         /\ \A id : Alike(UpdateMembership(r, id), r) /\ UpdateMembership(r, id).ids = r.ids
<1>1. \A ms : Alike(AppendMembership(r, ms), r) /\ AppendMembership(r, ms).ids = r.ids
  BY DEF AppendMembership, Alike, RsFields
<1>2. \A id : Alike(CommitMembership(r, id), r) /\ CommitMembership(r, id).ids = r.ids
  BY DEF CommitMembership, Alike, RsFields
<1>3. \A id : Alike(UpdateMembership(r, id), r) /\ UpdateMembership(r, id).ids = r.ids
  BY DEF UpdateMembership, Alike, RsFields
<1> QED BY <1>1, <1>2, <1>3

(* FollowAppend in its parts: the log IO it accepts, the entries that are  *)
(* new, the first of them, and what it makes of the engine.                *)

AppendIO(t, prev, last)  == IOId(t, MaxId(IdOf(t, prev), IF last > prev THEN IdOf(t, last) ELSE NoLogId))
Fresh(r, t, prev, last)  == {i \in (prev + 1)..last : ~HasLogId(r, IdOf(t, i))}
Since(S)                 == CHOOSE i \in S : \A j \in S : i <= j
NewIds(ids, t, since, last) == [i \in DOMAIN ids \cup since..last |->
                                  IF i >= since THEN LeaderLog[t][i] ELSE ids[i]]
Batch(t, since, last)    == [op |-> "AppendEntries", vote |-> t, base |-> since - 1,
                             es |-> SubSeq(LeaderLog[t], since, last)]
LastTwo(t, since, last)     == LastTwoMemberships([n \in 1..(last - since + 1) |-> IdOf(t, since + n - 1)])
Appended(e, t, since, last) ==
  Push([e EXCEPT !.rs = AppendMembership([e.rs EXCEPT !.ids = NewIds(e.rs.ids, t, since, last)],
                                         LastTwo(t, since, last))],
       Batch(t, since, last))

\* The three cases of an append.
LEMMA FollowAppendIs ==
  ASSUME NEW e, NEW t, NEW prev, NEW last
  PROVE  LET io    == AppendIO(t, prev, last)
             e1    == AcceptLogIO(e, io)
             fresh == Fresh(e1.rs, t, prev, last)
         IN /\ fresh = {} /\ ~ IOLt(e.rs.logAcc, io) => FollowAppend(e, t, prev, last) = e1
            /\ fresh = {} /\ IOLt(e.rs.logAcc, io) =>
                 FollowAppend(e, t, prev, last) =
                   Push(e1, [op |-> "UpdateIOProgress", when |-> e.rs.logAcc, io |-> io])
            /\ fresh # {} =>
                 FollowAppend(e, t, prev, last) =
                   Appended(TruncateLogs(e1, Since(fresh)), t, Since(fresh), last)
<1> DEFINE io    == AppendIO(t, prev, last)
           e1    == AcceptLogIO(e, io)
           fresh == Fresh(e1.rs, t, prev, last)
           since == Since(fresh)
           f     == Appended(TruncateLogs(e1, since), t, since, last)
           g     == Push(e1, [op |-> "UpdateIOProgress", when |-> e.rs.logAcc, io |-> io])
<1>1. FollowAppend(e, t, prev, last) = CASE fresh # {} -> f
                                        [] fresh = {} /\ IOLt(e.rs.logAcc, io) -> g
                                        [] OTHER -> e1
  BY Zenon DEF FollowAppend, AppendIO, Fresh, Since, Appended, NewIds, Batch, LastTwo
<1>2. /\ fresh = {} /\ ~ IOLt(e.rs.logAcc, io) => FollowAppend(e, t, prev, last) = e1
      /\ fresh = {} /\ IOLt(e.rs.logAcc, io) => FollowAppend(e, t, prev, last) = g
      /\ fresh # {} => FollowAppend(e, t, prev, last) = f
  <2> HIDE DEF io, e1, fresh, f, g
  <2> QED BY <1>1
<1> QED BY <1>2, Zenon

\* Entries of the leader, after a log id that is found, are accepted.
LEMMA FollowAppendKeeps ==
  ASSUME setting \in Settings, NEW e, NEW q, EngineOK(e, q), NEW t \in Term, e.rs.vote = t,
         e.rs.applySub.index <= e.rs.applyAcc.index, e.rs.applySub.index \in Nat,
         NEW prev \in Nat, NEW last \in Nat, prev <= last, last <= Own(t),
         prev = 0 \/ HasLogId(e.rs, IdOf(t, prev))
  PROVE  Follows(e, q, FollowAppend(e, t, prev, last)) /\ FollowAppend(e, t, prev, last).rs.vote = t
<1> DEFINE io    == AppendIO(t, prev, last)
           e1    == AcceptLogIO(e, io)
           fresh == Fresh(e1.rs, t, prev, last)
           d     == q[Len(e.cmds)]
<1>0. t \in Vote /\ Own(t) \in Nat /\ t \in Nat /\ t > 0
  BY Terms
<1>1. /\ d \in Disk /\ d.base \in Nat /\ d.io \in LogIO /\ d.log \in [Nat -> Nat] /\ Solid(d.log, d.base)
      /\ e.rs.applyAcc.index \in Nat /\ e.rs.logAcc.id.index \in Nat
  BY Facts
<1>2. e = [rs |-> e.rs, cmds |-> e.cmds] /\ DOMAIN e.rs = RsFields /\ Accepted(e.rs, d)
      /\ e.rs.logAcc = d.io /\ d.io.vote = t /\ Bounded(e.rs.ids)
  BY DEF EngineOK, Accepted
<1>3. io \in LogIO /\ io.vote = t /\ io.id.index = last
  <2>1. prev \in 0..Own(t) /\ last \in 0..Own(t) /\ 0 \in 0..Own(t)
    BY <1>0
  <2>2. IdOf(t, 0) = NoLogId
    BY DEF IdOf
  <2>3. MaxId(IdOf(t, prev), IF last > prev THEN IdOf(t, last) ELSE NoLogId) = IdOf(t, last)
    <3>1. CASE last > prev
      <4>1. LogIdLt(IdOf(t, prev), IdOf(t, last))
        BY <1>0, <2>1, <3>1, Order
      <4> QED BY <3>1, <4>1 DEF MaxId
    <3>2. CASE last = prev
      <4>1. ~ LogIdLt(IdOf(t, prev), IdOf(t, 0))
        BY <1>0, <2>1, Order
      <4> QED BY <2>2, <3>2, <4>1 DEF MaxId
    <3> QED BY <3>1, <3>2
  <2>4. io = IOId(t, IdOf(t, last))
    BY <2>3 DEF AppendIO
  <2> HIDE DEF io
  <2> QED BY <1>0, <2>1, <2>4, IOs
<1> HIDE DEF io, d
<1>4. /\ e1 = [rs |-> e1.rs, cmds |-> e.cmds] /\ e1.cmds = e.cmds /\ e1.rs.ids = e.rs.ids
      /\ AlikeBut(e1.rs, e.rs, io) /\ (~ IOLt(e.rs.logAcc, io) => e1 = e)
  BY <1>2, AcceptIs
<1> HIDE DEF e1
<1>5. \A i : HasLogId(e1.rs, IdOf(t, i)) <=> HasLogId(e.rs, IdOf(t, i))
  BY <1>4 DEF HasLogId, AlikeBut
<1>6. e1.rs.vote = t /\ DOMAIN e1.rs = RsFields /\ e1.rs.applyAcc = e.rs.applyAcc
  BY <1>4 DEF AlikeBut
<1>7. CASE fresh = {} /\ ~ IOLt(e.rs.logAcc, io)
  <2>1. FollowAppend(e, t, prev, last) = e1
    <3>1. fresh = {} /\ ~ IOLt(e.rs.logAcc, io) => FollowAppend(e, t, prev, last) = e1
      BY FollowAppendIs, ZenonT(40) DEF io, e1
    <3> QED BY <1>7, <3>1
  <2> QED BY <1>4, <1>6, <1>7, <2>1, Nothing
<1>8. CASE fresh = {} /\ IOLt(e.rs.logAcc, io)
  <2> DEFINE c == [op |-> "UpdateIOProgress", when |-> e.rs.logAcc, io |-> io]
             x == [log |-> d.log, base |-> d.base, io |-> io]
             cs == e.cmds
  <2>1. FollowAppend(e, t, prev, last) = Push(e1, c)
    <3>1. fresh = {} /\ IOLt(e.rs.logAcc, io) => FollowAppend(e, t, prev, last) = Push(e1, c)
      BY FollowAppendIs, Zenon DEF io, e1
    <3> QED BY <1>8, <3>1
  <2>2. c.op = "UpdateIOProgress" /\ c.io = io
    OBVIOUS
  <2> HIDE DEF c
  <2>3. FollowAppend(e, t, prev, last) = [rs |-> e1.rs, cmds |-> Append(e.cmds, c)]
    BY <1>4, <2>1, PushIs
  <2>4. x \in Disk /\ x.log = d.log /\ x.base = d.base /\ x.io = io
    BY <1>1, <1>3 DEF Disk
  <2> HIDE DEF x
  <2>5. Matches(d.log, t, d.base, last)
    <3>1. \A i \in Nat : prev < i /\ i <= last => HasLogId(e.rs, IdOf(t, i))
      BY <1>5, <1>8 DEF Fresh
    <3> QED BY <3>1, MatchesLeader DEF d
  <2>6. Kept(x)
    BY <1>3, <2>4, <2>5 DEF Kept
  <2>7. Accepted(e1.rs, x)
    BY <1>2, <1>3, <1>4, <1>6, <1>8, <2>4 DEF Accepted, AlikeBut
  <2>8. Link(c, d, x)
    BY <1>2, <1>3, <2>2, <2>4 DEF Link, Same
  <2>9. DueLast(c, e.cmds, q, e.rs.applySub.index)
    BY <2>2 DEF DueLast
  <2>10. IOLe(d.io, x.io) /\ d.base <= x.base
    BY <1>1, <1>2, <1>3, <1>8, <2>4, IOs DEF IOLe, IOLt
  <2>11. Solid(x.log, x.base)
    BY <1>1, <2>4
  <2>12. e1.rs.logSub = e.rs.logSub /\ e1.rs.applySub = e.rs.applySub /\ e1.rs.snapFlushed = e.rs.snapFlushed
         /\ e.rs.applyAcc.index <= e1.rs.applyAcc.index
    BY <1>1, <1>4, <1>6 DEF AlikeBut
  <2>13. Follows(e, q, [rs |-> e1.rs, cmds |-> Append(e.cmds, c)])
    BY <2>2, <2>4, <2>6, <2>7, <2>8, <2>9, <2>10, <2>11, <2>12, Pushing DEF d
  <2>14. FollowAppend(e, t, prev, last).rs = e1.rs
    BY <2>3
  <2> QED BY <1>6, <2>3, <2>13, <2>14
<1>9. CASE fresh # {}
  <2> DEFINE since == Since(fresh)
             e2  == TruncateLogs(e1, since)
             new == NewIds(e2.rs.ids, t, since, last)
             f   == TruncateLogs(e, since)
             c   == Batch(t, since, last)
             ms  == LastTwo(t, since, last)
  <2>1. FollowAppend(e, t, prev, last) =
          Push([e2 EXCEPT !.rs = AppendMembership([e2.rs EXCEPT !.ids = new], ms)], c)
    <3>1. fresh # {} => FollowAppend(e, t, prev, last) = Appended(e2, t, since, last)
      BY FollowAppendIs, ZenonT(40) DEF io, e1
    <3> QED BY <1>9, <3>1, Zenon DEF Appended
  <2>2. since \in fresh /\ \A j \in fresh : since <= j
    <3>1. fresh \in SUBSET Nat
      BY DEF Fresh
    <3>2. \E i \in fresh : \A j \in fresh : i <= j
      <4> HIDE DEF fresh
      <4> QED BY <1>9, <3>1, Least
    <3> QED BY <3>2 DEF Since
  <2> HIDE DEF since
  <2>3. /\ since \in Nat /\ since > prev /\ since <= last /\ since \in 1..Own(t)
        /\ ~ HasLogId(e.rs, IdOf(t, since))
        /\ \A i \in Nat : prev < i /\ i < since => HasLogId(e.rs, IdOf(t, i))
    BY <1>0, <1>5, <2>2 DEF Fresh
  <2> HIDE DEF fresh
  <2>4. e.rs.applyAcc.index < since /\ e.rs.logAcc.id.index < since
    BY <2>3, NotFound
  <2>5. /\ Follows(e, q, f) /\ f.rs.logAcc = e.rs.logAcc /\ f.rs.vote = t
        /\ f.rs.applyAcc = e.rs.applyAcc /\ f.rs.applySub = e.rs.applySub
        /\ \A i \in Nat : i >= since => i \notin DOMAIN f.rs.ids
        /\ \A i \in Nat : i < since => /\ i \in DOMAIN f.rs.ids <=> i \in DOMAIN e.rs.ids
                                       /\ i \in DOMAIN f.rs.ids => f.rs.ids[i] = e.rs.ids[i]
    BY <2>3, <2>4, TruncateKeeps
  <2>6. /\ e2 = [rs |-> e2.rs, cmds |-> f.cmds] /\ Alike(e2.rs, e1.rs) /\ Alike(f.rs, e.rs)
        /\ e2.cmds = f.cmds /\ e2.rs.ids = f.rs.ids
    <3>1. Bounded(e1.rs.ids)
      BY <1>2, <1>4
    <3>2. /\ e2 = [rs |-> e2.rs, cmds |-> e2.cmds] /\ Alike(e2.rs, e1.rs)
          /\ e2.cmds = CutCmds(e.cmds, e.rs.ids, since)
          /\ e2.rs.ids = CutIds(e.rs.ids, since)
      BY <1>4, <1>6, <2>3, <3>1, TruncateAlike
    <3>3. /\ Alike(f.rs, e.rs)
          /\ f.cmds = CutCmds(e.cmds, e.rs.ids, since)
          /\ f.rs.ids = CutIds(e.rs.ids, since)
      BY <1>2, <2>3, TruncateAlike
    <3> HIDE DEF e2, f
    <3> QED BY <3>2, <3>3
  <2>7. c.op = "AppendEntries" /\ c.vote = t /\ c.base = since - 1 /\ c.es = SubSeq(LeaderLog[t], since, last)
    BY DEF Batch
  <2> HIDE DEF e2, f, c, ms
  <2> DEFINE r == AppendMembership([e2.rs EXCEPT !.ids = new], ms)
  <2>8. Alike(r, e2.rs) /\ r.ids = new
    <3> DEFINE s == [e2.rs EXCEPT !.ids = new]
    <3>1. DOMAIN s = RsFields /\ s.ids = new /\ Alike(s, e2.rs)
      <4> HIDE DEF new
      <4> QED BY <2>6 DEF Alike, RsFields
    <3> HIDE DEF s, new
    <3>2. Alike(AppendMembership(s, ms), s) /\ AppendMembership(s, ms).ids = s.ids
      BY <3>1, MembershipsOnly
    <3>3. Alike(AppendMembership(s, ms), e2.rs) /\ AppendMembership(s, ms).ids = new
      BY <3>1, <3>2 DEF Alike
    <3> QED BY <3>3 DEF s
  <2>9. FollowAppend(e, t, prev, last) = [rs |-> r, cmds |-> Append(f.cmds, c)]
    <3>1. [e2 EXCEPT !.rs = r] = [rs |-> r, cmds |-> f.cmds]
      <4> HIDE DEF r
      <4> QED BY <2>6
    <3> HIDE DEF r
    <3>2. Push([e2 EXCEPT !.rs = r], c) = [rs |-> r, cmds |-> Append(f.cmds, c)]
      BY <3>1, PushIs
    <3>3. FollowAppend(e, t, prev, last) = Push([e2 EXCEPT !.rs = r], c)
      BY <2>1 DEF r
    <3> QED BY <3>2, <3>3
  <2> HIDE DEF r
  <2>10. new = [i \in DOMAIN f.rs.ids \cup since..last |->
                  IF i >= since THEN LeaderLog[t][i] ELSE f.rs.ids[i]]
    BY <2>6 DEF NewIds
  <2> HIDE DEF new
  <2>11. PICK k : EngineOK(f, k) /\ Grown(e, q, f, k)
    BY <2>5 DEF Follows
  <2> DEFINE m == k[Len(f.cmds)]
             M == [i \in Nat |-> IF i > since - 1 /\ i <= last THEN LeaderLog[t][i] ELSE m.log[i]]
             x == [log |-> M, base |-> m.base, io |-> io]
  <2>12. /\ m \in Disk /\ m.base \in Nat /\ m.io \in LogIO /\ m.log \in [Nat -> Nat] /\ Solid(m.log, m.base)
         /\ f.rs.applyAcc.index \in Nat /\ f.rs.logAcc.id.index \in Nat
    BY <2>11, Facts
  <2>13. /\ Accepted(f.rs, m) /\ f.rs.logAcc = m.io /\ m.io.vote = t /\ m.base <= f.rs.applyAcc.index
         /\ Bounded(f.rs.ids) /\ Agrees(f.rs.ids, m.log, m.base)
    BY <2>5, <2>11 DEF EngineOK, Accepted
  <2>14. Matches(m.log, t, m.base, since - 1)
    <3>1. \A i \in Nat : i < since => (HasLogId(e.rs, IdOf(t, i)) => HasLogId(f.rs, IdOf(t, i)))
      <4>1. SUFFICES ASSUME NEW i \in Nat, i < since, HasLogId(e.rs, IdOf(t, i)) PROVE HasLogId(f.rs, IdOf(t, i))
        OBVIOUS
      <4>2. IdOf(t, i).index = i
        BY <1>0, <2>3, <4>1, Order
      <4>3. i \in DOMAIN f.rs.ids <=> i \in DOMAIN e.rs.ids
        BY <2>5, <4>1
      <4>4. i \in DOMAIN f.rs.ids => f.rs.ids[i] = e.rs.ids[i]
        BY <2>5, <4>1
      <4> QED BY <2>5, <4>1, <4>2, <4>3, <4>4 DEF HasLogId
    <3>2. since - 1 \in Nat /\ prev <= since - 1 /\ since - 1 <= Own(t)
      BY <1>0, <2>3
    <3>3. prev = 0 \/ HasLogId(f.rs, IdOf(t, prev))
      BY <2>3, <3>1
    <3>4. \A i \in Nat : prev < i /\ i <= since - 1 => HasLogId(f.rs, IdOf(t, i))
      BY <2>3, <3>1
    <3> QED BY <2>5, <2>11, <3>2, <3>3, <3>4, MatchesLeader
  <2> HIDE DEF m
  <2>15. m.base < since
    BY <2>3, <2>4, <2>5, <2>12, <2>13
  <2>16. Ends(m.log, since - 1)
    BY <2>3, <2>5, <2>12, <2>13, <2>15 DEF Ends, Agrees
  <2>17. M \in [Nat -> Nat] /\ \A i \in Nat : M[i] = IF i > since - 1 /\ i <= last THEN LeaderLog[t][i] ELSE m.log[i]
    <3>1. \A i \in Nat : i > since - 1 /\ i <= last => LeaderLog[t][i] \in Nat
      BY <1>0, <2>3, Terms
    <3> QED BY <2>12, <3>1
  <2> HIDE DEF M
  <2>18. x \in Disk /\ x.log = M /\ x.base = m.base /\ x.io = io
    BY <1>3, <2>12, <2>17 DEF Disk
  <2> HIDE DEF x
  <2>19. Solid(x.log, x.base) /\ Matches(x.log, t, x.base, last)
    <3>1. IsPut(M, m.log, m.base, t, since - 1, last)
      BY <2>17 DEF IsPut
    <3>2. since - 1 \in Nat /\ since - 1 >= m.base /\ since - 1 < last
      BY <2>3, <2>12, <2>15
    <3>3. Solid(M, m.base) /\ Matches(M, t, m.base, last)
      BY <2>12, <2>14, <2>16, <2>17, <3>1, <3>2, Put
    <3> QED BY <2>18, <3>3
  <2>20. Kept(x)
    BY <1>3, <2>18, <2>19 DEF Kept
  <2>21. IOLt(e.rs.logAcc, io)
    BY <1>1, <1>2, <1>3, <2>3, <2>4, IOs DEF IOLe
  <2>22. /\ DOMAIN r = RsFields /\ r.ids = new /\ r.logAcc = io /\ r.vote = t
         /\ r.logSub = f.rs.logSub /\ r.applyAcc = f.rs.applyAcc /\ r.applySub = f.rs.applySub
         /\ r.clusterCommitted = f.rs.clusterCommitted /\ r.snap = f.rs.snap
         /\ r.snapFlushed = f.rs.snapFlushed /\ r.triedAt = f.rs.triedAt /\ r.purged = f.rs.purged
    BY <1>4, <1>6, <2>6, <2>8, <2>21 DEF Alike, AlikeBut
  <2>23. Bounded(r.ids)
    <3>1. PICK b \in Nat : \A i \in DOMAIN f.rs.ids : i <= b
      BY <2>13 DEF Bounded
    <3>2. DOMAIN r.ids = DOMAIN f.rs.ids \cup since..last
      BY <2>10, <2>22
    <3>3. DOMAIN f.rs.ids \subseteq Nat
      BY <2>13 DEF Bounded
    <3>4. DOMAIN r.ids \subseteq Nat
      BY <2>3, <3>2, <3>3
    <3>5. \A i \in DOMAIN r.ids : i <= b + last
      BY <2>3, <3>1, <3>2, <3>3
    <3>6. b + last \in Nat
      OBVIOUS
    <3>7. \E n \in Nat : \A i \in DOMAIN r.ids : i <= n
      BY <3>5, <3>6, Zenon
    <3> QED BY <3>4, <3>7 DEF Bounded
  <2>24. Agrees(r.ids, x.log, x.base)
    <3>1. ASSUME NEW i \in Nat, i > m.base
          PROVE  /\ i \in DOMAIN r.ids <=> M[i] # 0
                 /\ i \in DOMAIN r.ids => r.ids[i] = M[i]
      <4>1. CASE i >= since /\ i <= last
        <5>1. i \in DOMAIN r.ids /\ r.ids[i] = LeaderLog[t][i]
          BY <2>3, <2>10, <2>22, <4>1
        <5>2. M[i] = LeaderLog[t][i] /\ i \in 1..Own(t)
          BY <1>0, <2>3, <2>17, <4>1
        <5> QED BY <5>1, <5>2, Terms
      <4>2. CASE ~ (i >= since /\ i <= last)
        <5>1. M[i] = m.log[i]
          BY <2>3, <2>17, <4>2
        <5>2. i \in DOMAIN r.ids <=> i \in DOMAIN f.rs.ids
          BY <2>3, <2>10, <2>22, <4>2
        <5>3. i \in DOMAIN f.rs.ids => i < since
          BY <2>3, <2>5
        <5>4. i \in DOMAIN f.rs.ids => r.ids[i] = f.rs.ids[i]
          BY <2>3, <2>10, <2>22, <5>3
        <5> QED BY <2>13, <3>1, <5>1, <5>2, <5>4 DEF Agrees
      <4> QED BY <4>1, <4>2
    <3> QED BY <2>18, <3>1 DEF Agrees
  <2>25. ASSUME NEW i \in Nat, r.snap.index < i, i <= r.applyAcc.index
         PROVE  i \in DOMAIN r.ids /\ r.ids[i] = Chosen[i]
    <3>1. i \in DOMAIN f.rs.ids /\ f.rs.ids[i] = Chosen[i]
      BY <2>13, <2>22, <2>25 DEF Accepted
    <3>2. i < since
      BY <2>3, <2>4, <2>5, <2>12, <2>22, <2>25
    <3> QED BY <2>3, <2>10, <2>22, <3>1, <3>2
  <2>26. Accepted(r, x)
    <3>1. f.rs.vote = t
      BY <2>5
    <3> QED BY <1>3, <2>13, <2>18, <2>22, <2>23, <2>24, <2>25, <3>1 DEF Accepted
  <2>27. Link(c, m, x)
    <3>1. m.io.id.index < since
      BY <2>4, <2>5, <2>13
    <3>2. since - 1 \in Nat /\ since - 1 >= m.io.id.index /\ since - 1 < last /\ (since - 1) + 1 = since
      BY <2>3, <2>5, <2>12, <2>13, <3>1
    <3>3. \A i \in Nat : i > m.base => x.log[i] = IF i > since - 1 /\ i <= last
                                                   THEN LeaderLog[t][i] ELSE m.log[i]
      BY <2>17, <2>18
    <3> QED BY <1>3, <2>7, <2>13, <2>18, <3>2, <3>3 DEF Link
  <2>28. DueLast(c, f.cmds, k, f.rs.applySub.index)
    BY <2>7 DEF DueLast
  <2>29. IOLe(m.io, x.io) /\ m.base <= x.base
    BY <1>3, <2>3, <2>4, <2>5, <2>12, <2>13, <2>18 DEF IOLe
  <2>30. f.rs.applyAcc.index <= r.applyAcc.index
    BY <2>12, <2>22
  <2>31. Follows(f, k, [rs |-> r, cmds |-> Append(f.cmds, c)])
    <3>1. Solid(x.log, x.base) /\ c.op # "InstallFullSnapshot"
      BY <2>7, <2>19
    <3> QED BY <2>11, <2>18, <2>20, <2>22, <2>26, <2>27, <2>28, <2>29, <2>30, <3>1, Pushing DEF m
  <2>32. Follows(e, q, [rs |-> r, cmds |-> Append(f.cmds, c)])
    BY <2>11, <2>31, Chained
  <2> QED BY <2>9, <2>22, <2>32
<1> QED BY <1>7, <1>8, <1>9

\* Every append request is answered, whatever it holds.
LEMMA EngineAppendKeeps ==
  ASSUME setting \in Settings, NEW e, NEW q, EngineOK(e, q), NEW t \in Term,
         e.rs.applySub.index <= e.rs.applyAcc.index, e.rs.applySub.index \in Nat,
         NEW prev \in 0..Own(t), NEW last \in prev..Own(t)
  PROVE  Follows(e, q, EngineAppend(e, t, prev, last))
<1> DEFINE e1 == UpdateVote(e, t)
<1>0. t \in Vote /\ t \in Nat /\ Own(t) \in Nat /\ e.rs.vote \in Nat
  <2>1. t \in Vote /\ t \in Nat /\ Own(t) \in Nat
    BY Terms
  <2>2. e.rs.vote \in Nat
    BY Facts
  <2> QED BY <2>1, <2>2
<1>1. CASE t < e.rs.vote
  <2> DEFINE a == TruncateLogs(e1, prev)
             b == FollowAppend(e1, t, prev, last)
  <2>1. EngineAppend(e, t, prev, last) =
          CASE t < e.rs.vote -> e
            [] t >= e.rs.vote /\ prev > 0 /\ ~HasLogId(e1.rs, IdOf(t, prev)) -> a
            [] OTHER -> b
    BY Zenon DEF EngineAppend
  <2> HIDE DEF a, b, e1
  <2>2. ~ (t >= e.rs.vote)
    BY <1>0, <1>1
  <2>3. EngineAppend(e, t, prev, last) = e
    BY <1>1, <2>1, <2>2
  <2> QED BY <2>3, Nothing
<1>2. CASE t >= e.rs.vote
  <2>1. PICK k : EngineOK(e1, k) /\ Grown(e, q, e1, k)
    BY UpdateVoteKeeps DEF Follows
  <2>2. e1.rs.vote = t /\ e1.rs.applyAcc = e.rs.applyAcc /\ e1.rs.applySub = e.rs.applySub
    BY <1>2, <2>1, UpdateVoteKeeps DEF Grown
  <2>3. prev \in Nat /\ last \in Nat /\ prev <= last /\ last <= Own(t) /\ (prev > 0 => prev \in 1..Own(t))
    BY <1>0
  <2>4. e1.rs.applySub.index <= e1.rs.applyAcc.index /\ e1.rs.applySub.index \in Nat
    BY <2>2
  <2>5. EngineAppend(e, t, prev, last) = IF prev > 0 /\ ~ HasLogId(e1.rs, IdOf(t, prev))
                                         THEN TruncateLogs(e1, prev) ELSE FollowAppend(e1, t, prev, last)
    <3> DEFINE a == TruncateLogs(e1, prev)
               b == FollowAppend(e1, t, prev, last)
    <3>1. EngineAppend(e, t, prev, last) =
            CASE t < e.rs.vote -> e
              [] t >= e.rs.vote /\ prev > 0 /\ ~HasLogId(e1.rs, IdOf(t, prev)) -> a
              [] OTHER -> b
      BY Zenon DEF EngineAppend
    <3> HIDE DEF a, b, e1
    <3>2. ~ (t < e.rs.vote)
      BY <1>0, <1>2
    <3>3. EngineAppend(e, t, prev, last) = IF prev > 0 /\ ~ HasLogId(e1.rs, IdOf(t, prev)) THEN a ELSE b
      BY <1>2, <3>1, <3>2
    <3> QED BY <3>3 DEF a, b
  <2> HIDE DEF e1
  <2>6. CASE prev > 0 /\ ~ HasLogId(e1.rs, IdOf(t, prev))
    <3>1. e1.rs.applyAcc.index < prev /\ e1.rs.logAcc.id.index < prev
      BY <2>1, <2>2, <2>3, <2>6, NotFound
    <3>2. Follows(e1, k, TruncateLogs(e1, prev))
      BY <2>1, <2>3, <2>4, <3>1, TruncateKeeps
    <3> QED BY <2>1, <2>5, <2>6, <3>2, Chained
  <2>7. CASE ~ (prev > 0 /\ ~ HasLogId(e1.rs, IdOf(t, prev)))
    <3>1. prev = 0 \/ HasLogId(e1.rs, IdOf(t, prev))
      BY <2>3, <2>7
    <3>2. Follows(e1, k, FollowAppend(e1, t, prev, last))
      BY <2>1, <2>2, <2>3, <2>4, <3>1, FollowAppendKeeps
    <3> QED BY <2>1, <2>5, <2>7, <3>2, Chained
  <2> QED BY <2>6, <2>7
<1> QED BY <1>0, <1>1, <1>2

\* A change of the engine's state that queues nothing.
LEMMA Updating ==
  ASSUME setting \in Settings, NEW e, NEW q, EngineOK(e, q), NEW r, Accepted(r, q[Len(e.cmds)]),
         r.logSub = e.rs.logSub, r.applySub = e.rs.applySub,
         e.rs.applyAcc.index <= r.applyAcc.index
  PROVE  /\ EngineOK([rs |-> r, cmds |-> e.cmds], q)
         /\ r.snapFlushed = e.rs.snapFlushed => Follows(e, q, [rs |-> r, cmds |-> e.cmds])
<1> DEFINE g == [rs |-> r, cmds |-> e.cmds]
<1>1. g.rs = r /\ g.cmds = e.cmds /\ g = [rs |-> g.rs, cmds |-> g.cmds]
  OBVIOUS
<1> HIDE DEF g
<1>2. EngineOK(g, q)
  BY <1>1 DEF EngineOK
<1>3. ASSUME r.snapFlushed = e.rs.snapFlushed PROVE Follows(e, q, g)
  <2>1. Grown(e, q, g, q)
    BY <1>1, <1>3 DEF Grown
  <2> QED BY <1>2, <2>1 DEF Follows
<1> QED BY <1>2, <1>3 DEF g

\* The leader's commit index is taken over as far as the log is the leader's.
LEMMA UpdateCommittedKeeps ==
  ASSUME setting \in Settings, NEW e, NEW q, EngineOK(e, q), NEW t \in Term, NEW commit \in 0..Com(t)
  PROVE  Follows(e, q, UpdateCommitted(e, IOId(t, IdOf(t, commit))))
<1> DEFINE d     == q[Len(e.cmds)]
           io    == IOId(t, IdOf(t, commit))
           cc    == IF IOLt(e.rs.clusterCommitted, io) THEN io ELSE e.rs.clusterCommitted
           local == IF e.rs.logAcc.vote >= cc.vote THEN MinId(e.rs.logAcc.id, cc.id) ELSE NoLogId
           e1    == [e EXCEPT !.rs.clusterCommitted = cc]
<1>0. t \in Vote /\ t \in Nat /\ Own(t) \in Nat /\ Com(t) \in Nat /\ commit \in 0..Own(t)
  <2>1. t \in Vote /\ t \in Nat /\ Own(t) \in Nat
    BY Terms
  <2>2. Com(t) \in 0..Own(t)
    BY <2>1, Commits
  <2> QED BY <2>1, <2>2
<1>1. /\ d.base \in Nat /\ d.log \in [Nat -> Nat] /\ Kept(d)
      /\ e.rs.vote \in Vote /\ e.rs.vote \in Nat /\ e.rs.logAcc.vote = e.rs.vote
      /\ e.rs.logAcc.id.index \in Nat
      /\ e.rs.logAcc.id = IdOf(e.rs.vote, e.rs.logAcc.id.index)
      /\ e.rs.logAcc.id.index \in 0..Own(e.rs.vote)
      /\ e.rs.applyAcc.index \in Nat /\ e.rs.applyAcc \in Upto(MaxTerm) /\ e.rs.snap.index \in Nat
  BY Facts
<1>2. e = [rs |-> e.rs, cmds |-> e.cmds] /\ DOMAIN e.rs = RsFields /\ Accepted(e.rs, d)
      /\ e.rs.logAcc = d.io /\ d.io.vote = e.rs.vote /\ Agrees(e.rs.ids, d.log, d.base)
      /\ e.rs.snap.index <= d.base /\ d.base <= e.rs.applyAcc.index
      /\ e.rs.clusterCommitted.vote \in Vote
      /\ e.rs.clusterCommitted.id \in Upto(e.rs.clusterCommitted.vote)
  BY DEF EngineOK, Accepted
<1> HIDE DEF d
<1>3. io.vote = t /\ io.id \in Upto(t)
  BY <1>0, IOs, Order, ChosenIds
<1> HIDE DEF io
<1>4. cc.vote \in Vote /\ cc.id \in Upto(cc.vote)
  BY <1>0, <1>2, <1>3
<1> HIDE DEF cc
<1>5. local \in Upto(e.rs.vote) /\ local.index <= e.rs.logAcc.id.index
  <2>1. CASE e.rs.logAcc.vote >= cc.vote
    <3>1. cc.id \in Upto(e.rs.vote) /\ Com(e.rs.vote) \in 0..Own(e.rs.vote) /\ Own(e.rs.vote) \in Nat
      <4>1. cc.vote <= e.rs.vote /\ Com(e.rs.vote) \in 0..Own(e.rs.vote) /\ Own(e.rs.vote) \in Nat
        BY <1>1, <1>4, <2>1, Commits
      <4>2. Upto(cc.vote) \subseteq Upto(e.rs.vote)
        BY <1>1, <1>4, <4>1, ChosenIds
      <4> QED BY <1>4, <4>1, <4>2
    <3>2. /\ cc.id.index \in 0..Com(e.rs.vote) /\ cc.id = IdOf(e.rs.vote, cc.id.index)
          /\ cc.id.index \in 0..Own(e.rs.vote)
      BY <1>1, <3>1, ChosenIds
    <3>3. LogIdLt(e.rs.logAcc.id, cc.id) <=> e.rs.logAcc.id.index < cc.id.index
      BY <1>1, <3>2, Order
    <3>4. local = IF LogIdLt(e.rs.logAcc.id, cc.id) THEN e.rs.logAcc.id ELSE cc.id
      BY <2>1 DEF MinId
    <3> HIDE DEF local
    <3>5. CASE e.rs.logAcc.id.index < cc.id.index
      <4>1. e.rs.logAcc.id.index \in 0..Com(e.rs.vote)
        BY <1>1, <3>1, <3>2, <3>5
      <4>2. e.rs.logAcc.id = ChosenId(e.rs.logAcc.id.index)
        BY <1>1, <4>1, Order
      <4>3. local = e.rs.logAcc.id
        BY <3>3, <3>4, <3>5
      <4>4. e.rs.logAcc.id \in Upto(e.rs.vote)
        BY <1>1, <4>1, <4>2, ChosenIds
      <4> QED BY <1>1, <4>3, <4>4
    <3>6. CASE ~ (e.rs.logAcc.id.index < cc.id.index)
      <4>1. local = cc.id
        BY <3>3, <3>4, <3>6
      <4>2. cc.id.index <= e.rs.logAcc.id.index
        BY <1>1, <3>1, <3>2, <3>6
      <4> QED BY <3>1, <4>1, <4>2
    <3> QED BY <3>5, <3>6
  <2>2. CASE ~ (e.rs.logAcc.vote >= cc.vote)
    <3>1. local = NoLogId /\ NoLogId \in Upto(e.rs.vote) /\ NoLogId.index = 0
      BY <1>1, <2>2, ChosenIds, IOs
    <3> QED BY <1>1, <3>1
  <2> QED BY <2>1, <2>2
<1> HIDE DEF local
<1>6. /\ Upto(e.rs.vote) \subseteq Upto(MaxTerm) /\ local.index \in 0..Com(e.rs.vote) /\ Com(e.rs.vote) \in Nat
      /\ local.index \in Nat
  <2>1. Upto(e.rs.vote) \subseteq Upto(MaxTerm) /\ local.index \in 0..Com(e.rs.vote)
    BY <1>1, <1>5, ChosenIds
  <2>2. Com(e.rs.vote) \in 0..Own(e.rs.vote) /\ Own(e.rs.vote) \in Nat
    BY <1>1, Commits
  <2> QED BY <2>1, <2>2
<1>7. LogIdLt(e.rs.applyAcc, local) <=> e.rs.applyAcc.index < local.index
  BY <1>1, <1>5, <1>6, ChosenIds
<1> DEFINE r1 == [e.rs EXCEPT !.clusterCommitted = cc]
           r2 == CommitMembership([r1 EXCEPT !.applyAcc = local], local)
<1>8. e1 = [rs |-> r1, cmds |-> e.cmds] /\ e1.rs = r1
  BY <1>2
<1>9. /\ DOMAIN r1 = RsFields /\ r1.logAcc = e.rs.logAcc /\ r1.logSub = e.rs.logSub /\ r1.vote = e.rs.vote
      /\ r1.applyAcc = e.rs.applyAcc /\ r1.applySub = e.rs.applySub /\ r1.clusterCommitted = cc
      /\ r1.snap = e.rs.snap /\ r1.snapFlushed = e.rs.snapFlushed /\ r1.triedAt = e.rs.triedAt
      /\ r1.purged = e.rs.purged /\ r1.ids = e.rs.ids
  BY <1>2 DEF RsFields
<1> HIDE DEF r1
<1>10. CASE LogIdLt(e.rs.applyAcc, local)
  <2> DEFINE s == [r1 EXCEPT !.applyAcc = local]
  <2>1. UpdateCommitted(e, io) = [rs |-> r2, cmds |-> e.cmds]
    <3>1. UpdateCommitted(e, io) = [e1 EXCEPT !.rs = CommitMembership([e1.rs EXCEPT !.applyAcc = local], local)]
      BY <1>10, Zenon DEF UpdateCommitted, cc, local
    <3> HIDE DEF r2
    <3>2. UpdateCommitted(e, io) = [e1 EXCEPT !.rs = r2]
      BY <1>8, <3>1 DEF r2
    <3> HIDE DEF e1
    <3> QED BY <1>8, <3>2
  <2>2. /\ DOMAIN s = RsFields /\ s.logAcc = e.rs.logAcc /\ s.logSub = e.rs.logSub /\ s.vote = e.rs.vote
        /\ s.applyAcc = local /\ s.applySub = e.rs.applySub /\ s.clusterCommitted = cc
        /\ s.snap = e.rs.snap /\ s.snapFlushed = e.rs.snapFlushed /\ s.triedAt = e.rs.triedAt
        /\ s.purged = e.rs.purged /\ s.ids = e.rs.ids
    BY <1>9 DEF RsFields
  <2> HIDE DEF s
  <2>3. Alike(r2, s) /\ r2.ids = s.ids
    <3>1. Alike(CommitMembership(s, local), s) /\ CommitMembership(s, local).ids = s.ids
      BY <2>2, MembershipsOnly
    <3> QED BY <3>1 DEF s
  <2> HIDE DEF r2
  <2>4. /\ DOMAIN r2 = RsFields /\ r2.logAcc = e.rs.logAcc /\ r2.logSub = e.rs.logSub /\ r2.vote = e.rs.vote
        /\ r2.applyAcc = local /\ r2.applySub = e.rs.applySub /\ r2.clusterCommitted = cc
        /\ r2.snap = e.rs.snap /\ r2.snapFlushed = e.rs.snapFlushed /\ r2.triedAt = e.rs.triedAt
        /\ r2.purged = e.rs.purged /\ r2.ids = e.rs.ids
    BY <2>2, <2>3 DEF Alike
  <2>5. e.rs.applyAcc.index < local.index
    BY <1>7, <1>10
  <2>6. ASSUME NEW i \in Nat, e.rs.snap.index < i, i <= local.index
        PROVE  i \in DOMAIN e.rs.ids /\ e.rs.ids[i] = Chosen[i]
    <3>1. CASE i <= e.rs.applyAcc.index
      BY <1>2, <2>6, <3>1 DEF Accepted
    <3>2. CASE i > e.rs.applyAcc.index
      <4>1. i > d.base /\ i \in 1..Com(e.rs.vote) /\ i <= e.rs.logAcc.id.index /\ e.rs.vote \in Term
        <5>1. i > d.base /\ i \in 1..Com(e.rs.vote) /\ i <= e.rs.logAcc.id.index
          BY <1>1, <1>2, <1>5, <1>6, <2>6, <3>2
        <5> QED BY <1>1, <5>1, Commits
      <4>2. d.log[i] = LeaderLog[e.rs.vote][i]
        <5>1. e.rs.vote > 0
          BY <4>1, Terms
        <5>2. Matches(d.log, e.rs.vote, d.base, e.rs.logAcc.id.index)
          BY <1>1, <1>2, <5>1 DEF Kept
        <5> QED BY <4>1, <5>2 DEF Matches
      <4>3. Chosen[i] = LeaderLog[e.rs.vote][i]
        BY <1>1, <4>1, Commits
      <4>5. i \in 1..Own(e.rs.vote)
        <5>1. Com(e.rs.vote) \in 0..Own(e.rs.vote) /\ Own(e.rs.vote) \in Nat
          BY <1>1, Commits
        <5> QED BY <4>1, <5>1
      <4>4. LeaderLog[e.rs.vote][i] # 0
        BY <4>1, <4>5, Terms
      <4> QED BY <1>2, <4>1, <4>2, <4>3, <4>4 DEF Agrees
    <3> QED BY <1>1, <3>1, <3>2
  <2>7. Accepted(r2, d)
    <3>1. d.base <= local.index
      BY <1>1, <1>2, <1>6, <2>5
    <3> QED BY <1>2, <1>4, <1>5, <2>4, <2>6, <3>1 DEF Accepted
  <2>8. e.rs.applyAcc.index <= r2.applyAcc.index
    BY <1>1, <1>6, <2>4, <2>5
  <2>9. Follows(e, q, [rs |-> r2, cmds |-> e.cmds])
    BY <2>4, <2>7, <2>8, Updating DEF d
  <2> QED BY <2>1, <2>9 DEF io
<1>11. CASE ~ LogIdLt(e.rs.applyAcc, local)
  <2>1. UpdateCommitted(e, io) = e1
    BY <1>11, Zenon DEF UpdateCommitted, cc, local
  <2>2. Accepted(r1, d)
    BY <1>2, <1>4, <1>9 DEF Accepted
  <2>3. e.rs.applyAcc.index <= r1.applyAcc.index
    BY <1>1, <1>9
  <2>4. Follows(e, q, [rs |-> r1, cmds |-> e.cmds])
    BY <1>9, <2>2, <2>3, Updating DEF d
  <2> QED BY <1>8, <2>1, <2>4 DEF io
<1> QED BY <1>10, <1>11

\* What an append request makes of the engine.
LEMMA RequestKeeps ==
  ASSUME setting \in Settings, NEW e, NEW q, EngineOK(e, q), NEW t \in Term,
         e.rs.applySub.index <= e.rs.applyAcc.index, e.rs.applySub.index \in Nat,
         NEW prev \in 0..Own(t), NEW last \in prev..Own(t), NEW commit \in 0..Com(t)
  PROVE  Follows(e, q, UpdateCommitted(EngineAppend(e, t, prev, last), IOId(t, IdOf(t, commit))))
<1> DEFINE f == EngineAppend(e, t, prev, last)
<1>1. PICK k : EngineOK(f, k) /\ Grown(e, q, f, k)
  BY EngineAppendKeeps DEF Follows
<1> HIDE DEF f
<1>2. Follows(f, k, UpdateCommitted(f, IOId(t, IdOf(t, commit))))
  BY <1>1, UpdateCommittedKeeps
<1>3. Follows(e, q, UpdateCommitted(f, IOId(t, IdOf(t, commit))))
  BY <1>1, <1>2, Chained
<1> QED BY <1>3 DEF f

\* The last log id.
LEMMA LastIs ==
  ASSUME NEW r, Bounded(r.ids)
  PROVE  LastId(r).index \in Nat /\ \A j \in DOMAIN r.ids : j <= LastId(r).index
<1>1. CASE DOMAIN r.ids = {}
  BY <1>1 DEF LastId, NoLogId
<1>2. CASE DOMAIN r.ids # {}
  <2> DEFINE D == DOMAIN r.ids
             S == {b \in Nat : \A i \in D : i <= b}
  <2>1. D \in SUBSET Nat /\ D # {}
    BY <1>2 DEF Bounded
  <2>2. \E b \in Nat : b \in S
    BY DEF Bounded
  <2> HIDE DEF D
  <2>3. PICK z \in S : \A y \in S : z <= y
    <3> HIDE DEF S
    <3>1. S \in SUBSET Nat
      BY DEF S
    <3> QED BY <2>2, <3>1, Least
  <2>4. z \in D
    <3>1. SUFFICES ASSUME z \notin D PROVE FALSE
      OBVIOUS
    <3>2. \A i \in D : i <= z /\ i # z /\ i \in Nat /\ z \in Nat
      BY <2>1, <2>3, <3>1
    <3>3. PICK i \in D : TRUE
      BY <2>1
    <3>4. z - 1 \in Nat /\ \A j \in D : j <= z - 1
      BY <3>2, <3>3
    <3>5. z - 1 \in S
      BY <3>4
    <3> QED BY <2>3, <3>5
  <2>5. z \in D /\ \A j \in D : j <= z
    BY <2>3, <2>4
  <2> DEFINE w == CHOOSE i \in D : \A j \in D : j <= i
  <2>6. w \in D /\ \A j \in D : j <= w
    <3> HIDE DEF S
    <3> QED BY <2>5, Zenon
  <2> HIDE DEF w
  <2>7. LastId(r) = [term |-> r.ids[w], index |-> w]
    BY <1>2, Zenon DEF LastId, w, D
  <2>8. LastId(r).index = w
    BY <2>7
  <2> QED BY <2>1, <2>6, <2>8 DEF D
<1> QED BY <1>1, <1>2

\* The log ids after a purge.
LEMMA PurgeIdsIs ==
  ASSUME NEW r, DOMAIN r = RsFields, Bounded(r.ids), NEW upto, upto.index \in Nat
  PROVE  LET s == PurgeIds(r, upto)
         IN /\ Bounded(s.ids) /\ s.purged = upto.index /\ DOMAIN s = RsFields
            /\ \A i \in Nat : i > upto.index => /\ i \in DOMAIN s.ids <=> i \in DOMAIN r.ids
                                                /\ i \in DOMAIN s.ids => s.ids[i] = r.ids[i]
            /\ s.logAcc = r.logAcc /\ s.logSub = r.logSub /\ s.vote = r.vote
            /\ s.applyAcc = r.applyAcc /\ s.applySub = r.applySub /\ s.clusterCommitted = r.clusterCommitted
            /\ s.snap = r.snap /\ s.snapFlushed = r.snapFlushed /\ s.triedAt = r.triedAt
<1> DEFINE all == IF upto.index > LastId(r).index
                  THEN [i \in {upto.index} |-> upto.term]
                  ELSE Restrict(r.ids, {i \in DOMAIN r.ids : i >= upto.index})
           s == [r EXCEPT !.purged = upto.index, !.ids = all]
<1>1. /\ Bounded(all)
      /\ \A i \in Nat : i > upto.index => /\ i \in DOMAIN all <=> i \in DOMAIN r.ids
                                          /\ i \in DOMAIN all => all[i] = r.ids[i]
  <2>1. LastId(r).index \in Nat /\ \A j \in DOMAIN r.ids : j <= LastId(r).index
    BY LastIs
  <2>2. DOMAIN r.ids \subseteq Nat
    BY DEF Bounded
  <2>3. CASE upto.index > LastId(r).index
    <3>1. all = [i \in {upto.index} |-> upto.term]
      BY <2>3
    <3>2. DOMAIN all = {upto.index}
      BY <3>1
    <3> HIDE DEF all
    <3>3. Bounded(all)
      BY <3>2 DEF Bounded
    <3>4. \A i \in Nat : i > upto.index => i \notin DOMAIN all /\ i \notin DOMAIN r.ids
      BY <2>1, <2>3, <3>2
    <3> QED BY <3>3, <3>4
  <2>4. CASE ~ (upto.index > LastId(r).index)
    <3>1. all = [i \in {j \in DOMAIN r.ids : j >= upto.index} |-> r.ids[i]]
      <4>1. all = Restrict(r.ids, {i \in DOMAIN r.ids : i >= upto.index})
        BY <2>4
      <4> HIDE DEF all
      <4> QED BY <4>1 DEF Restrict
    <3> HIDE DEF all
    <3>2. Bounded(all)
      BY <3>1 DEF Bounded
    <3> QED BY <2>2, <3>1, <3>2
  <2> QED BY <2>3, <2>4
<1>2. PurgeIds(r, upto) = s
  BY Zenon DEF PurgeIds
<1> HIDE DEF all
<1>3. /\ s.ids = all /\ s.purged = upto.index /\ DOMAIN s = RsFields
      /\ s.logAcc = r.logAcc /\ s.logSub = r.logSub /\ s.vote = r.vote
      /\ s.applyAcc = r.applyAcc /\ s.applySub = r.applySub /\ s.clusterCommitted = r.clusterCommitted
      /\ s.snap = r.snap /\ s.snapFlushed = r.snapFlushed /\ s.triedAt = r.triedAt
  BY DEF RsFields
<1> HIDE DEF s
<1> QED BY <1>1, <1>2, <1>3

\* What a message changes in the node.
LEMMA MessageKeeps ==
  ASSUME setting \in Settings, NEW d, NEW r, NEW cs, NEW sq, NEW b, NEW s, NEW bs, NEW ns,
         Good(d, r, cs, sq, b, s, bs, ns), NEW f,
         \A q : Running(q, d, r, cs, sq) => Follows([rs |-> r, cmds |-> cs], q, f)
  PROVE  Good(d, f.rs, f.cmds, sq, b, s, bs, ns)
<1> DEFINE e == [rs |-> r, cmds |-> cs]
<1>1. PICK q : Running(q, d, r, cs, sq)
  BY DEF Good
<1>2. PICK k : EngineOK(f, k) /\ Grown(e, q, f, k)
  BY <1>1 DEF Follows
<1>3. e.rs = r /\ e.cmds = cs
  OBVIOUS
<1> HIDE DEF e
<1>4. /\ k[0] = q[0] /\ (cs # <<>> => f.cmds # <<>> /\ Head(f.cmds) = Head(cs))
      /\ f.rs.logSub = r.logSub /\ f.rs.applySub = r.applySub /\ f.rs.snapFlushed = r.snapFlushed
      /\ r.applyAcc.index <= f.rs.applyAcc.index
  BY <1>2, <1>3 DEF Grown
<1>5. /\ r.applyAcc.index \in Nat /\ f.rs.applyAcc.index \in Nat
  <2>1. EngineOK(e, q)
    BY <1>1 DEF Running, e
  <2> QED BY <1>2, <1>3, <2>1, Facts
<1>6. Running(k, d, f.rs, f.cmds, sq)
  <2>1. EngineOK([rs |-> f.rs, cmds |-> f.cmds], k)
    BY <1>2 DEF EngineOK
  <2>2. Sent(k, d, f.cmds, sq)
    BY <1>1, <1>4 DEF Running, Sent
  <2> QED BY <1>1, <1>4, <2>1, <2>2 DEF Running
<1>7. Working(d, f.rs, b, s, bs, ns)
  <2>1. r.applySub \in Upto(r.logSub.vote) /\ r.applySub.index <= r.applyAcc.index /\ Working(d, r, b, s, bs, ns)
    BY DEF Good, Working
  <2>2. r.applySub.index \in Nat
    <3>1. r.logSub.vote \in Vote
      <4>1. EngineOK(e, q) /\ q[0].io = r.logSub
        BY <1>1 DEF Running, e
      <4>2. q \in [0..Len(e.cmds) -> Disk] /\ Len(e.cmds) \in Nat
        BY <4>1, Facts DEF EngineOK, Loose
      <4>3. q[0].io \in LogIO
        BY <4>2 DEF Disk
      <4> QED BY <4>1, <4>3, IOs
    <3> QED BY <2>1, <3>1, ChosenIds, Commits
  <2>3. f.rs.applySub.index <= f.rs.applyAcc.index
    BY <1>4, <1>5, <2>1, <2>2
  <2> QED BY <1>4, <2>1, <2>3 DEF Working
<1>8. \E p : Chain(p, d, f.rs, sq, b, s)
  BY <1>4 DEF Good, Chain
<1> QED BY <1>6, <1>7, <1>8 DEF Good

(* EngineInstall once the vote is accepted.                                *)

InstallOp(t, snap) == [op |-> "InstallFullSnapshot", snap |-> snap, io |-> IOId(t, snap.snap)]
PurgeOp(id)        == [op |-> "PurgeLog", upto |-> id]
Conflict(ids, id)  == id.index \in DOMAIN ids /\ ids[id.index] # id.term
Installed(e1, t, snap) ==
  LET id == snap.snap
      e2 == [e1 EXCEPT !.rs.snap = id]
      e3 == IF Conflict(e2.rs.ids, id) THEN TruncateLogs(e2, e2.rs.applyAcc.index + 1) ELSE e2
      e4 == AcceptLogIO(e3, IOId(t, id))
      e5 == Push([e4 EXCEPT !.rs = UpdateMembership([e4.rs EXCEPT !.applyAcc = id], snap.mem)],
                 InstallOp(t, snap))
  IN Push([e5 EXCEPT !.rs = PurgeIds(e5.rs, id)], PurgeOp(id))

InstallCmds(e, id) == IF Conflict(e.rs.ids, id)
                      THEN CutCmds(e.cmds, e.rs.ids, e.rs.applyAcc.index + 1) ELSE e.cmds
InstallIds(e, id)  == IF Conflict(e.rs.ids, id)
                      THEN CutIds(e.rs.ids, e.rs.applyAcc.index + 1) ELSE e.rs.ids

\* The state r an install leaves, and its queue.
InstalledTo(e, t, snap, r) ==
  /\ Installed(e, t, snap) =
       [rs |-> r, cmds |-> Append(Append(InstallCmds(e, snap.snap), InstallOp(t, snap)),
                                  PurgeOp(snap.snap))]
  /\ DOMAIN r = RsFields /\ Bounded(r.ids) /\ r.purged = snap.snap.index
  /\ \A i \in Nat : i > snap.snap.index =>
       /\ i \in DOMAIN r.ids <=> i \in DOMAIN InstallIds(e, snap.snap)
       /\ i \in DOMAIN r.ids => r.ids[i] = InstallIds(e, snap.snap)[i]
  /\ r.logAcc = (IF IOLt(e.rs.logAcc, IOId(t, snap.snap)) THEN IOId(t, snap.snap) ELSE e.rs.logAcc)
  /\ r.logSub = e.rs.logSub /\ r.vote = e.rs.vote /\ r.applyAcc = snap.snap
  /\ r.applySub = e.rs.applySub /\ r.clusterCommitted = e.rs.clusterCommitted
  /\ r.snap = snap.snap /\ r.snapFlushed = e.rs.snapFlushed /\ r.triedAt = e.rs.triedAt

\* The parts of an install.
LEMMA InstallIs ==
  ASSUME NEW e, NEW t, NEW snap
  PROVE  LET e1 == UpdateVote(e, t)
         IN EngineInstall(e, t, snap) = IF InstallNeeded(e1.rs, snap.snap) THEN Installed(e1, t, snap) ELSE e1
BY Zenon DEF EngineInstall, Installed, InstallOp, PurgeOp, Conflict

\* What an install makes of the engine.
LEMMA InstalledIs ==
  ASSUME NEW e, e = [rs |-> e.rs, cmds |-> e.cmds], DOMAIN e.rs = RsFields, Bounded(e.rs.ids),
         e.rs.applyAcc.index \in Nat, NEW t, NEW snap, snap.snap.index \in Nat
  PROVE  \E r : InstalledTo(e, t, snap, r)
<1> DEFINE id  == snap.snap
           con == Conflict(e.rs.ids, id)
           since == e.rs.applyAcc.index + 1
           C   == InstallCmds(e, id)
           I   == InstallIds(e, id)
           r2  == [e.rs EXCEPT !.snap = id]
           e2  == [e EXCEPT !.rs.snap = id]
           e3  == IF Conflict(e2.rs.ids, id) THEN TruncateLogs(e2, e2.rs.applyAcc.index + 1) ELSE e2
           io  == IOId(t, id)
           e4  == AcceptLogIO(e3, io)
           r5  == UpdateMembership([e4.rs EXCEPT !.applyAcc = id], snap.mem)
           e5  == Push([e4 EXCEPT !.rs = r5], InstallOp(t, snap))
           r6  == PurgeIds(e5.rs, id)
<1>1. Installed(e, t, snap) = Push([e5 EXCEPT !.rs = r6], PurgeOp(id))
  BY Zenon DEF Installed
<1>2. e2 = [rs |-> r2, cmds |-> e.cmds] /\ e2.rs = r2 /\ e2.cmds = e.cmds
  OBVIOUS
<1>3. /\ DOMAIN r2 = RsFields /\ r2.logAcc = e.rs.logAcc /\ r2.logSub = e.rs.logSub /\ r2.vote = e.rs.vote
      /\ r2.applyAcc = e.rs.applyAcc /\ r2.applySub = e.rs.applySub /\ r2.clusterCommitted = e.rs.clusterCommitted
      /\ r2.snap = id /\ r2.snapFlushed = e.rs.snapFlushed /\ r2.triedAt = e.rs.triedAt /\ r2.purged = e.rs.purged
      /\ r2.ids = e.rs.ids
  BY DEF RsFields
<1> HIDE DEF r2, e2
<1>4. since \in Nat /\ e2.rs.applyAcc.index + 1 = since /\ (Conflict(e2.rs.ids, id) <=> con)
  BY <1>2, <1>3
<1>5. e3 = [rs |-> e3.rs, cmds |-> C] /\ e3.cmds = C /\ e3.rs.ids = I /\ Alike(e3.rs, r2)
  <2>1. CASE con
    <3>1. e3 = TruncateLogs(e2, since)
      BY <1>4, <2>1
    <3>2. C = CutCmds(e.cmds, e.rs.ids, since) /\ I = CutIds(e.rs.ids, since)
      BY <2>1, Zenon DEF InstallCmds, InstallIds
    <3> HIDE DEF C, I, e3, con, since
    <3>3. LET g == TruncateLogs(e2, since)
          IN /\ g = [rs |-> g.rs, cmds |-> g.cmds] /\ Alike(g.rs, e2.rs)
             /\ g.cmds = CutCmds(e2.cmds, e2.rs.ids, since)
             /\ g.rs.ids = CutIds(e2.rs.ids, since)
      BY <1>2, <1>3, <1>4, TruncateAlike
    <3>4. e3 = [rs |-> e3.rs, cmds |-> e3.cmds] /\ Alike(e3.rs, e2.rs)
          /\ e3.cmds = CutCmds(e2.cmds, e2.rs.ids, since) /\ e3.rs.ids = CutIds(e2.rs.ids, since)
      BY <3>1, <3>3, Zenon
    <3> QED BY <1>2, <1>3, <3>2, <3>4
  <2>2. CASE ~ con
    <3>1. e3 = e2 /\ C = e.cmds /\ I = e.rs.ids
      BY <1>4, <2>2 DEF InstallCmds, InstallIds
    <3>2. Alike(r2, r2)
      BY <1>3 DEF Alike
    <3> HIDE DEF C, I, e3
    <3> QED BY <1>2, <1>3, <3>1, <3>2
  <2> QED BY <2>1, <2>2
<1> HIDE DEF e3, C, con, since
<1>6. Bounded(I)
  BY DEF InstallIds, CutIds, Bounded
<1> HIDE DEF I, io
<1>7. /\ e4 = [rs |-> e4.rs, cmds |-> C] /\ e4.rs.ids = I /\ AlikeBut(e4.rs, e3.rs, io) /\ e4.cmds = C
  <2>1. DOMAIN e3.rs = RsFields /\ e3 = [rs |-> e3.rs, cmds |-> e3.cmds]
    BY <1>5 DEF Alike
  <2> QED BY <1>5, <2>1, AcceptIs
<1> HIDE DEF e4
<1> DEFINE s == [e4.rs EXCEPT !.applyAcc = id]
<1>8. /\ DOMAIN s = RsFields /\ s.logAcc = (IF IOLt(e.rs.logAcc, io) THEN io ELSE e.rs.logAcc)
      /\ s.logSub = e.rs.logSub /\ s.vote = e.rs.vote
      /\ s.applyAcc = id /\ s.applySub = e.rs.applySub /\ s.clusterCommitted = e.rs.clusterCommitted
      /\ s.snap = id /\ s.snapFlushed = e.rs.snapFlushed /\ s.triedAt = e.rs.triedAt
      /\ s.ids = I
  <2>1. /\ e4.rs.logAcc = (IF IOLt(e.rs.logAcc, io) THEN io ELSE e.rs.logAcc) /\ DOMAIN e4.rs = RsFields
        /\ e4.rs.logSub = e.rs.logSub /\ e4.rs.vote = e.rs.vote /\ e4.rs.applySub = e.rs.applySub
        /\ e4.rs.clusterCommitted = e.rs.clusterCommitted /\ e4.rs.snap = id
        /\ e4.rs.snapFlushed = e.rs.snapFlushed /\ e4.rs.triedAt = e.rs.triedAt /\ e4.rs.ids = I
    BY <1>3, <1>5, <1>7 DEF Alike, AlikeBut
  <2> QED BY <2>1 DEF RsFields
<1> HIDE DEF s
<1>9. Alike(r5, s) /\ r5.ids = s.ids
  <2>1. Alike(UpdateMembership(s, snap.mem), s) /\ UpdateMembership(s, snap.mem).ids = s.ids
    BY <1>8, MembershipsOnly
  <2> QED BY <2>1 DEF s
<1> HIDE DEF r5
<1>10. e5 = [rs |-> r5, cmds |-> Append(C, InstallOp(t, snap))] /\ e5.rs = r5
  <2>1. [e4 EXCEPT !.rs = r5] = [rs |-> r5, cmds |-> C]
    BY <1>7
  <2>2. Push([rs |-> r5, cmds |-> C], InstallOp(t, snap)) = [rs |-> r5, cmds |-> Append(C, InstallOp(t, snap))]
    BY PushIs
  <2> QED BY <2>1, <2>2
<1> HIDE DEF e5
<1>11. Push([e5 EXCEPT !.rs = r6], PurgeOp(id)) =
         [rs |-> r6, cmds |-> Append(Append(C, InstallOp(t, snap)), PurgeOp(id))]
  <2> HIDE DEF r6
  <2>1. [e5 EXCEPT !.rs = r6] = [rs |-> r6, cmds |-> Append(C, InstallOp(t, snap))]
    BY <1>10
  <2>2. Push([rs |-> r6, cmds |-> Append(C, InstallOp(t, snap))], PurgeOp(id)) =
          [rs |-> r6, cmds |-> Append(Append(C, InstallOp(t, snap)), PurgeOp(id))]
    BY PushIs
  <2> QED BY <2>1, <2>2
<1>12. DOMAIN r5 = RsFields /\ Bounded(r5.ids)
  BY <1>6, <1>8, <1>9 DEF Alike
<1>13. /\ DOMAIN r6 = RsFields /\ Bounded(r6.ids) /\ r6.purged = id.index
       /\ \A i \in Nat : i > id.index => /\ i \in DOMAIN r6.ids <=> i \in DOMAIN r5.ids
                                         /\ i \in DOMAIN r6.ids => r6.ids[i] = r5.ids[i]
       /\ r6.logAcc = r5.logAcc /\ r6.logSub = r5.logSub /\ r6.vote = r5.vote
       /\ r6.applyAcc = r5.applyAcc /\ r6.applySub = r5.applySub /\ r6.clusterCommitted = r5.clusterCommitted
       /\ r6.snap = r5.snap /\ r6.snapFlushed = r5.snapFlushed /\ r6.triedAt = r5.triedAt
  <2> DEFINE g == PurgeIds(r5, id)
  <2>1. r6 = g
    BY <1>10
  <2>2. /\ DOMAIN g = RsFields /\ Bounded(g.ids) /\ g.purged = id.index
        /\ \A i \in Nat : i > id.index => /\ i \in DOMAIN g.ids <=> i \in DOMAIN r5.ids
                                          /\ i \in DOMAIN g.ids => g.ids[i] = r5.ids[i]
        /\ g.logAcc = r5.logAcc /\ g.logSub = r5.logSub /\ g.vote = r5.vote
        /\ g.applyAcc = r5.applyAcc /\ g.applySub = r5.applySub /\ g.clusterCommitted = r5.clusterCommitted
        /\ g.snap = r5.snap /\ g.snapFlushed = r5.snapFlushed /\ g.triedAt = r5.triedAt
    BY <1>12, PurgeIdsIs
  <2> HIDE DEF g, r6
  <2> QED BY <2>1, <2>2
<1> HIDE DEF r6
<1>14. /\ r6.logAcc = (IF IOLt(e.rs.logAcc, io) THEN io ELSE e.rs.logAcc)
       /\ r6.logSub = e.rs.logSub /\ r6.vote = e.rs.vote
       /\ r6.applyAcc = id /\ r6.applySub = e.rs.applySub /\ r6.clusterCommitted = e.rs.clusterCommitted
       /\ r6.snap = id /\ r6.snapFlushed = e.rs.snapFlushed /\ r6.triedAt = e.rs.triedAt
       /\ r5.ids = I
  BY <1>8, <1>9, <1>13 DEF Alike
<1>15. Installed(e, t, snap) = [rs |-> r6, cmds |-> Append(Append(C, InstallOp(t, snap)), PurgeOp(id))]
  BY <1>1, <1>11
<1> HIDE DEF id
<1>16. /\ DOMAIN r6 = RsFields /\ Bounded(r6.ids) /\ r6.purged = id.index
       /\ \A i \in Nat : i > id.index => /\ i \in DOMAIN r6.ids <=> i \in DOMAIN I
                                         /\ i \in DOMAIN r6.ids => r6.ids[i] = I[i]
  BY <1>13, <1>14
<1> QED BY <1>14, <1>15, <1>16, Zenon DEF io, C, I, id, InstalledTo

\* The head of a queue that grows.
LEMMA Heads ==
  ASSUME NEW cs, IsSeq(cs), NEW c
  PROVE  Append(cs, c) # <<>> /\ (cs # <<>> => Head(Append(cs, c)) = Head(cs))
<1>1. /\ Len(cs) \in Nat /\ IsSeq(Append(cs, c)) /\ Len(Append(cs, c)) = Len(cs) + 1
      /\ \A n \in 1..Len(cs) : Append(cs, c)[n] = cs[n]
  BY Seqs
<1>2. Append(cs, c) # <<>>
  <2>1. Len(Append(cs, c)) # 0 /\ Len(<<>>) = 0
    BY <1>1, Seqs
  <2> QED BY <2>1, Zenon
<1>3. Head(Append(cs, c)) = Append(cs, c)[1]
  BY <1>1, <1>2, Seqs
<1>4. cs # <<>> => 1 \in 1..Len(cs) /\ Head(cs) = cs[1]
  BY Seqs
<1> QED BY <1>1, <1>2, <1>3, <1>4

\* Where snapshots arrive, purges ahead wait for an earlier one only.
LEMMA NothingWaits ==
  ASSUME setting \in Settings, setting.installs # "none", NEW cs, NEW q, NEW sub, Loose(cs, q, sub),
         \A n \in 1..Len(cs) : cs[n].op # "UpdateIOProgress",
         NEW top \in Nat, q[Len(cs)].base < top
  PROVE  Unblocked(cs, q, Len(cs) + 1, top)
<1>1. q \in [0..Len(cs) -> Disk] /\ IsSeq(cs)
  BY DEF Loose
<1>2. Len(cs) \in Nat
  BY <1>1, Seqs
<1>3. ASSUME NEW m \in 1..Len(cs), cs[m].op = "PurgeLog" PROVE q[m - 1].io.id.index < top
  <2>1. m - 1 \in 0..Len(cs) /\ Len(cs) \in 0..Len(cs) /\ m - 1 <= Len(cs)
    BY <1>2
  <2>2. q[m - 1] \in Disk /\ q[Len(cs)] \in Disk
    BY <1>1, <2>1
  <2>3. q[m - 1].base \in Nat /\ q[m - 1].io \in LogIO /\ q[Len(cs)].base \in Nat
    BY <2>2 DEF Disk
  <2>4. q[m - 1].io.id.index \in Nat
    BY <2>3, IOs DEF LogIO
  <2>5. q[m - 1].base <= q[Len(cs)].base
    BY <2>1 DEF Loose
  <2>6. Link(cs[m], q[m - 1], q[m])
    BY DEF Loose
  <2>7. cs[m].upto.index \in 0..q[m - 1].base /\ q[m - 1].io.id.index <= cs[m].upto.index
    BY <1>3, <2>6 DEF Link
  <2> QED BY <2>3, <2>4, <2>5, <2>7
<1>4. \A m \in 1..((Len(cs) + 1) - 1) : m \in 1..Len(cs)
  BY <1>2
<1> QED BY <1>3, <1>4 DEF Unblocked

\* What accepting a vote queues and accepts.
LEMMA UpdateVoteIs ==
  ASSUME NEW e, e = [rs |-> e.rs, cmds |-> e.cmds], DOMAIN e.rs = RsFields, NEW t
  PROVE  LET f == UpdateVote(e, t)
             io == IOId(t, NoLogId)
         IN /\ ~ (t > e.rs.vote) => f = e
            /\ t > e.rs.vote =>
                 /\ f.cmds = Append(e.cmds, [op |-> "SaveVote", vote |-> t])
                 /\ f.rs.logAcc = IF IOLt(e.rs.logAcc, io) THEN io ELSE e.rs.logAcc
<1>1. ASSUME t > e.rs.vote
      PROVE  LET f == UpdateVote(e, t)
                 io == IOId(t, NoLogId)
             IN /\ f.cmds = Append(e.cmds, [op |-> "SaveVote", vote |-> t])
                /\ f.rs.logAcc = IF IOLt(e.rs.logAcc, io) THEN io ELSE e.rs.logAcc
  <2> DEFINE g == [e EXCEPT !.rs.vote = t]
             io == IOId(t, NoLogId)
             h == AcceptLogIO(g, io)
             c == [op |-> "SaveVote", vote |-> t]
  <2>1. g = [rs |-> g.rs, cmds |-> g.cmds] /\ g.cmds = e.cmds /\ g.rs.logAcc = e.rs.logAcc /\ DOMAIN g.rs = RsFields
    BY DEF RsFields
  <2>2. UpdateVote(e, t) = Push(h, c)
    BY <1>1 DEF UpdateVote
  <2> HIDE DEF g, c, io
  <2>3. h = [rs |-> h.rs, cmds |-> e.cmds] /\ AlikeBut(h.rs, g.rs, io)
    BY <2>1, AcceptIs
  <2> HIDE DEF h
  <2>4. UpdateVote(e, t) = [rs |-> h.rs, cmds |-> Append(e.cmds, c)]
    BY <2>2, <2>3, PushIs
  <2>5. h.rs.logAcc = IF IOLt(e.rs.logAcc, io) THEN io ELSE e.rs.logAcc
    BY <2>1, <2>3 DEF AlikeBut
  <2> QED BY <2>4, <2>5 DEF c, io
<1>2. ~ (t > e.rs.vote) => UpdateVote(e, t) = e
  BY DEF UpdateVote
<1> QED BY <1>1, <1>2

\* The queue before the install itself: an entry in conflict is truncated.
LEMMA Conflicting ==
  ASSUME setting \in Settings, setting.installs # "none", NEW e, NEW q, EngineOK(e, q), NEW id,
         id.index \in Nat, e.rs.applyAcc.index < id.index,
         e.rs.applySub.index <= e.rs.applyAcc.index, e.rs.applySub.index \in Nat,
         \A n \in 1..Len(e.cmds) : e.cmds[n].op # "UpdateIOProgress"
  PROVE  LET C == InstallCmds(e, id)
             d == q[Len(e.cmds)]
         IN \E f : /\ Loose(C, f, e.rs.applySub.index) /\ f[0] = q[0]
                   /\ f[Len(C)].io = d.io /\ f[Len(C)].base = d.base
                   /\ Agrees(InstallIds(e, id), f[Len(C)].log, d.base)
                   /\ \A n \in 1..Len(C) : C[n].op # "UpdateIOProgress"
                   /\ C # <<>> => C[Len(C)].op # "InstallFullSnapshot"
                   /\ e.cmds # <<>> => C # <<>> /\ Head(C) = Head(e.cmds)
<1> DEFINE cs == e.cmds
           d == q[Len(cs)]
           C == InstallCmds(e, id)
           since == e.rs.applyAcc.index + 1
           sub == e.rs.applySub.index
<1>1. /\ Len(cs) \in Nat /\ IsSeq(cs) /\ d \in Disk /\ d.base \in Nat /\ d.io \in LogIO /\ d.log \in [Nat -> Nat]
      /\ Solid(d.log, d.base) /\ Kept(d) /\ e.rs.applyAcc.index \in Nat
  BY Facts
<1>2. /\ Loose(cs, q, sub) /\ Closed(cs, q) /\ Agrees(e.rs.ids, d.log, d.base) /\ d.base <= e.rs.applyAcc.index
  BY DEF EngineOK, Accepted
<1>3. CASE Conflict(e.rs.ids, id) /\ since \in DOMAIN e.rs.ids
  <2> DEFINE c == [op |-> "TruncateLog", since |-> since]
             M == [i \in Nat |-> IF i < since THEN d.log[i] ELSE 0]
             x == [log |-> M, base |-> d.base, io |-> d.io]
  <2>1. C = Append(cs, c) /\ InstallIds(e, id) = [i \in {j \in DOMAIN e.rs.ids : j < since} |-> e.rs.ids[i]]
    BY <1>3 DEF InstallCmds, InstallIds, CutCmds, CutIds
  <2>2. c.op = "TruncateLog" /\ c.since = since
    OBVIOUS
  <2>3. since \in Nat /\ d.base < since /\ sub < since
    <3> DEFINE z == e.rs.applyAcc.index
               b == d.base
    <3>1. z \in Nat /\ b \in Nat /\ b <= z
      BY <1>1, <1>2
    <3>2. sub \in Nat /\ sub <= z
      OBVIOUS
    <3>3. since = z + 1
      OBVIOUS
    <3> HIDE DEF z, b, sub, since
    <3>4. since \in Nat /\ b < since /\ sub < since
      BY <3>1, <3>2, <3>3
    <3> QED BY <3>4 DEF b
  <2> HIDE DEF c, since, C, d, cs, sub
  <2>4. M \in [Nat -> Nat] /\ \A i \in Nat : M[i] = IF i < since THEN d.log[i] ELSE 0
    BY <1>1
  <2> HIDE DEF M
  <2>5. x \in Disk /\ x.log = M /\ x.base = d.base /\ x.io = d.io
    BY <1>1, <2>4 DEF Disk
  <2> HIDE DEF x
  <2>6. Solid(x.log, x.base)
    <3>1. IsCut(M, d.log, d.base, since)
      BY <2>4 DEF IsCut
    <3>2. Solid(M, d.base)
      BY <1>1, <2>3, <2>4, <3>1, Cut
    <3> QED BY <2>5, <3>2
  <2>7. Link(c, d, x)
    BY <2>2, <2>3, <2>4, <2>5 DEF Link
  <2>8. DueLast(c, cs, q, sub)
    <3>1. Unblocked(cs, q, Len(cs) + 1, since)
      BY <1>2, <2>3, NothingWaits DEF cs, d
    <3> QED BY <2>2, <2>3, <3>1 DEF DueLast
  <2>9. IOLe(d.io, x.io) /\ d.base <= x.base
    <3>1. d.io.vote \in Nat /\ d.io.id.index \in Nat
      BY <1>1, IOs DEF LogIO
    <3>2. IOLe(d.io, d.io)
      BY <3>1 DEF IOLe
    <3>3. d.base \in Nat
      BY <1>1
    <3>4. d.base <= x.base
      BY <2>5, <3>3
    <3> QED BY <2>5, <3>2, <3>4
  <2>10. PICK f : Loose(Append(cs, c), f, sub) /\ f[Len(cs) + 1] = x /\ \A n \in 0..Len(cs) : f[n] = q[n]
    <3>1. Kept(d) \/ c.op = "InstallFullSnapshot"
      BY <1>1
    <3>2. cs # <<>> => cs[Len(cs)].op # "InstallFullSnapshot"
                       \/ (c.op = "PurgeLog" /\ c.upto = cs[Len(cs)].snap.snap)
      BY <1>2 DEF Closed
    <3> QED BY <1>2, <2>5, <2>6, <2>7, <2>8, <2>9, <3>1, <3>2, Extend DEF d
  <2>11. /\ Len(C) = Len(cs) + 1 /\ C[Len(C)] = c /\ \A n \in 1..Len(cs) : C[n] = cs[n]
         /\ C # <<>> /\ (cs # <<>> => Head(C) = Head(cs))
    <3>1. IsSeq(cs)
      BY <1>1
    <3>2. Len(Append(cs, c)) = Len(cs) + 1 /\ Append(cs, c)[Len(cs) + 1] = c
          /\ \A n \in 1..Len(cs) : Append(cs, c)[n] = cs[n]
      BY <3>1, Seqs
    <3>3. Append(cs, c) # <<>> /\ (cs # <<>> => Head(Append(cs, c)) = Head(cs))
      BY <3>1, Heads
    <3>4. C = Append(cs, c)
      BY <2>1
    <3> QED BY <3>2, <3>3, <3>4
  <2>12. \A n \in 1..Len(C) : C[n].op # "UpdateIOProgress"
    <3>1. \A n \in 1..Len(cs) : cs[n].op # "UpdateIOProgress"
      BY DEF cs
    <3>2. \A n \in 1..Len(C) : n \in 1..Len(cs) \/ n = Len(C)
      BY <1>1, <2>11
    <3> QED BY <2>2, <2>11, <3>1, <3>2
  <2>13. Agrees(InstallIds(e, id), x.log, d.base)
    BY <1>2, <2>1, <2>3, <2>4, <2>5 DEF Agrees
  <2>14. f[0] = q[0] /\ f[Len(C)] = x /\ Loose(C, f, sub)
    BY <1>1, <2>1, <2>10, <2>11
  <2> QED BY <2>2, <2>5, <2>11, <2>12, <2>13, <2>14 DEF C, d, cs, sub
<1>4. CASE ~ (Conflict(e.rs.ids, id) /\ since \in DOMAIN e.rs.ids)
  <2>1. C = cs /\ InstallIds(e, id) = e.rs.ids
    BY <1>4 DEF InstallCmds, InstallIds, CutCmds, CutIds
  <2>2. cs # <<>> => cs[Len(cs)].op # "InstallFullSnapshot"
    BY <1>2 DEF Closed
  <2> HIDE DEF C
  <2> QED BY <1>2, <2>1, <2>2 DEF C
<1> QED BY <1>3, <1>4

\* A snapshot of the leader is installed over a log that ends before it or
\* in conflict with it.
LEMMA InstalledKeeps ==
  ASSUME setting \in Settings, setting.installs # "none", NEW e, NEW q, EngineOK(e, q), NEW t \in Term,
         e.rs.vote = t, NEW i \in 1..Com(t), NEW snap, snap.snap = IdOf(t, i),
         e.rs.applySub.index <= e.rs.applyAcc.index, e.rs.applySub.index \in Nat,
         e.rs.applyAcc.index < i, e.rs.logAcc.id.index <= i,
         \A n \in 1..Len(e.cmds) : e.cmds[n].op # "UpdateIOProgress"
  PROVE  Follows(e, q, Installed(e, t, snap))
<1> DEFINE id  == snap.snap
           io  == IOId(t, id)
           C   == InstallCmds(e, id)
           d   == q[Len(e.cmds)]
           sub == e.rs.applySub.index
           ins == InstallOp(t, snap)
           pur == PurgeOp(id)
<1>0. t \in Vote /\ t \in Nat /\ t > 0 /\ Own(t) \in Nat /\ Com(t) \in 0..Own(t) /\ i \in Nat
      /\ i \in 0..Own(t) /\ i \in 0..Com(t)
  <2>1. t \in Vote /\ t \in Nat /\ t > 0 /\ Own(t) \in Nat
    BY Terms
  <2>2. Com(t) \in 0..Own(t)
    BY <2>1, Commits
  <2> QED BY <2>1, <2>2
<1>1. /\ d \in Disk /\ d.base \in Nat /\ d.io \in LogIO /\ d.log \in [Nat -> Nat] /\ Solid(d.log, d.base)
      /\ e.rs.applyAcc.index \in Nat /\ e.rs.logAcc.id.index \in Nat /\ e.rs.snap.index \in Nat
  BY Facts
<1>2. e = [rs |-> e.rs, cmds |-> e.cmds] /\ DOMAIN e.rs = RsFields /\ Accepted(e.rs, d)
      /\ e.rs.logAcc = d.io /\ d.io.vote = t /\ d.base <= e.rs.applyAcc.index /\ Bounded(e.rs.ids)
  BY DEF EngineOK, Accepted
<1>3. id.index = i /\ id \in Upto(t) /\ id = ChosenId(i)
  <2>1. id = ChosenId(i)
    BY <1>0, Order
  <2> HIDE DEF id
  <2> QED BY <1>0, <2>1, ChosenIds
<1>4. io \in LogIO /\ io.vote = t /\ io.id = id
  BY <1>0, IOs
<1>5. io.id.index = i
  BY <1>3, <1>4
<1>6. PICK r : /\ Installed(e, t, snap) = [rs |-> r, cmds |-> Append(Append(C, ins), pur)]
               /\ DOMAIN r = RsFields /\ Bounded(r.ids) /\ r.purged = id.index
               /\ \A j \in Nat : j > id.index =>
                     /\ j \in DOMAIN r.ids <=> j \in DOMAIN InstallIds(e, id)
                     /\ j \in DOMAIN r.ids => r.ids[j] = InstallIds(e, id)[j]
               /\ r.logAcc = (IF IOLt(e.rs.logAcc, io) THEN io ELSE e.rs.logAcc)
               /\ r.logSub = e.rs.logSub /\ r.vote = e.rs.vote /\ r.applyAcc = id
               /\ r.applySub = e.rs.applySub /\ r.clusterCommitted = e.rs.clusterCommitted
               /\ r.snap = id /\ r.snapFlushed = e.rs.snapFlushed /\ r.triedAt = e.rs.triedAt
  <2>1. snap.snap.index \in Nat
    BY <1>0, <1>3
  <2>2. e = [rs |-> e.rs, cmds |-> e.cmds] /\ DOMAIN e.rs = RsFields /\ Bounded(e.rs.ids)
        /\ e.rs.applyAcc.index \in Nat
    BY <1>1, <1>2
  <2>3. \E r : InstalledTo(e, t, snap, r)
    BY <2>1, <2>2, InstalledIs
  <2> QED BY <2>3 DEF InstalledTo
<1>7. PICK f : /\ Loose(C, f, sub) /\ f[0] = q[0]
               /\ f[Len(C)].io = d.io /\ f[Len(C)].base = d.base
               /\ Agrees(InstallIds(e, id), f[Len(C)].log, d.base)
               /\ \A n \in 1..Len(C) : C[n].op # "UpdateIOProgress"
               /\ C # <<>> => C[Len(C)].op # "InstallFullSnapshot"
               /\ e.cmds # <<>> => C # <<>> /\ Head(C) = Head(e.cmds)
  <2>1. id.index \in Nat /\ e.rs.applyAcc.index < id.index
    BY <1>0, <1>3
  <2> QED BY <2>1, Conflicting
<1>8. ins.op = "InstallFullSnapshot" /\ ins.snap = snap /\ ins.io = io /\ pur.op = "PurgeLog" /\ pur.upto = id
  BY DEF InstallOp, PurgeOp
<1>9. r.logAcc = io
  <2>1. IOLt(e.rs.logAcc, io) \/ e.rs.logAcc = io
    <3>1. e.rs.logAcc \in LogIO /\ IOLe(e.rs.logAcc, io)
      BY <1>1, <1>2, <1>4, <1>5 DEF IOLe
    <3> QED BY <1>4, <3>1, IOs
  <2> QED BY <1>6, <2>1
<1> HIDE DEF id, io, C, d, sub, ins, pur
<1> DEFINE N == Len(C)
           m == f[N]
           x == [log |-> m.log, base |-> i, io |-> io]
<1>10. /\ N \in Nat /\ IsSeq(C) /\ m \in Disk /\ m.base \in Nat /\ m.log \in [Nat -> Nat] /\ Solid(m.log, m.base)
       /\ m.io = d.io /\ m.base = d.base /\ m.io \in LogIO
  <2>1. IsSeq(C) /\ f \in [0..N -> Disk]
    BY <1>7 DEF Loose
  <2>2. N \in Nat /\ N \in 0..N
    BY <2>1, Seqs
  <2>3. Solid(m.log, m.base)
    BY <1>7, <2>2 DEF Loose
  <2>4. m \in Disk
    BY <2>1, <2>2
  <2> QED BY <1>7, <2>1, <2>2, <2>3, <2>4 DEF Disk
<1> HIDE DEF m
<1>11. x \in Disk /\ x.log = m.log /\ x.base = i /\ x.io = io
  BY <1>0, <1>4, <1>10 DEF Disk
<1> HIDE DEF x
<1>12. m.base < i /\ m.io.vote = t /\ m.io.id.index <= i
  <2>1. d.base < i
    <3> DEFINE y == e.rs.applyAcc.index
               z == d.base
    <3>1. y \in Nat /\ z \in Nat /\ z <= y /\ y < i /\ i \in Nat
      BY <1>0, <1>1, <1>2
    <3> HIDE DEF y, z
    <3>2. z < i
      BY <3>1
    <3> QED BY <3>2 DEF z
  <2>2. d.io.id.index <= i
    BY <1>2
  <2> QED BY <1>2, <1>10, <2>1, <2>2
<1>13. Solid(x.log, x.base)
  <2>1. Same(m.log, m.log, i) /\ m.base <= i
    BY <1>0, <1>10, <1>12 DEF Same
  <2>2. Solid(m.log, i)
    BY <1>0, <1>10, <2>1, Above
  <2> QED BY <1>11, <2>2
<1>14. Link(ins, m, x)
  <2>1. Same(x.log, m.log, x.base)
    BY <1>11 DEF Same
  <2>2. ins.snap.snap = id /\ ins.snap.snap.index = i
    BY <1>3, <1>8 DEF id
  <2> QED BY <1>3, <1>4, <1>8, <1>11, <1>12, <2>1, <2>2 DEF Link
<1>15. DueLast(ins, C, f, sub)
  <2>1. ins.snap.snap.index = i
    BY <1>3, <1>8 DEF id
  <2>2. Unblocked(C, f, Len(C) + 1, i)
    BY <1>0, <1>7, <1>12, NothingWaits DEF m
  <2>3. sub < i
    <3> DEFINE y == e.rs.applyAcc.index
    <3>1. sub <= y /\ y < i /\ y \in Nat /\ sub \in Nat
      BY <1>1 DEF sub
    <3> HIDE DEF y
    <3> QED BY <1>0, <3>1
  <2> QED BY <1>8, <2>1, <2>2, <2>3 DEF DueLast
<1>16. IOLe(m.io, x.io) /\ m.base <= x.base
  <2>1. IOLe(m.io, io)
    BY <1>4, <1>5, <1>12 DEF IOLe
  <2>2. m.base \in Nat /\ m.base < i /\ i \in Nat
    BY <1>0, <1>10, <1>12
  <2>3. m.base <= i
    BY <2>2
  <2> QED BY <1>11, <2>1, <2>3
<1>17. PICK g : Loose(Append(C, ins), g, sub) /\ g[N + 1] = x /\ \A n \in 0..N : g[n] = f[n]
  <2>1. Kept(m) \/ ins.op = "InstallFullSnapshot"
    BY <1>8
  <2>2. C # <<>> => C[Len(C)].op # "InstallFullSnapshot"
                    \/ (ins.op = "PurgeLog" /\ ins.upto = C[Len(C)].snap.snap)
    BY <1>7, Zenon
  <2>3. Loose(C, f, sub)
    BY <1>7
  <2> QED BY <1>11, <1>13, <1>14, <1>15, <1>16, <2>1, <2>2, <2>3, Extend DEF m
<1>18. /\ IsSeq(Append(C, ins)) /\ Len(Append(C, ins)) = N + 1 /\ Append(C, ins)[N + 1] = ins
       /\ Append(C, ins) # <<>> /\ (C # <<>> => Head(Append(C, ins)) = Head(C))
  <2>1. IsSeq(C)
    BY <1>10
  <2>2. IsSeq(Append(C, ins)) /\ Len(Append(C, ins)) = N + 1 /\ Append(C, ins)[N + 1] = ins
    BY <2>1, Seqs
  <2>3. Append(C, ins) # <<>> /\ (C # <<>> => Head(Append(C, ins)) = Head(C))
    BY <2>1, Heads
  <2> QED BY <2>2, <2>3
<1> DEFINE D == Append(C, ins)
<1> HIDE DEF D
<1>19. Len(D) = N + 1 /\ D[N + 1] = ins /\ D # <<>> /\ (C # <<>> => Head(D) = Head(C)) /\ IsSeq(D)
  BY <1>18 DEF D
<1>20. Link(pur, x, x)
  <2>1. Same(x.log, x.log, x.base)
    BY DEF Same
  <2>2. pur.upto.index \in 0..x.base
    BY <1>0, <1>3, <1>8, <1>11
  <2>3. pur.upto \in Upto(x.io.vote) /\ x.io.id.index <= pur.upto.index
    BY <1>0, <1>3, <1>4, <1>5, <1>8, <1>11
  <2> QED BY <1>8, <2>1, <2>2, <2>3 DEF Link
<1>21. DueLast(pur, D, g, sub)
  BY <1>8 DEF DueLast
<1>22. Kept(x)
  BY <1>0, <1>4, <1>5, <1>11 DEF Kept, Matches
<1>23. PICK h : Loose(Append(D, pur), h, sub) /\ h[Len(D) + 1] = x /\ \A n \in 0..Len(D) : h[n] = g[n]
  <2>1. g[Len(D)] = x
    BY <1>17, <1>19
  <2>2. D # <<>> => D[Len(D)].op # "InstallFullSnapshot"
                    \/ (pur.op = "PurgeLog" /\ pur.upto = D[Len(D)].snap.snap)
    BY <1>8, <1>19 DEF id
  <2>3. IOLe(x.io, x.io) /\ x.base <= x.base
    <3>1. IOLe(io, io)
      BY <1>0, <1>4, <1>5 DEF IOLe
    <3> QED BY <1>0, <1>11, <3>1
  <2>4. Loose(D, g, sub)
    BY <1>17 DEF D
  <2>5. /\ Link(pur, g[Len(D)], x) /\ IOLe(g[Len(D)].io, x.io) /\ g[Len(D)].base <= x.base /\ Kept(g[Len(D)])
    BY <1>20, <1>22, <2>1, <2>3
  <2> QED BY <1>11, <1>13, <1>21, <2>2, <2>4, <2>5, Extend
<1>24. /\ Len(Append(D, pur)) = Len(D) + 1 /\ Append(D, pur)[Len(D) + 1] = pur
       /\ Append(D, pur) # <<>> /\ (D # <<>> => Head(Append(D, pur)) = Head(D)) /\ Len(D) \in Nat
  BY <1>19, Seqs, Heads
<1> DEFINE E == Append(D, pur)
           w == [rs |-> r, cmds |-> E]
<1>25. /\ Len(E) = Len(D) + 1 /\ E[Len(E)] = pur /\ E # <<>> /\ Head(E) = Head(D) /\ Loose(E, h, sub)
       /\ h[Len(E)] = x /\ h[0] = q[0]
  <2>1. h[0] = g[0]
    BY <1>23, <1>24
  <2>2. g[0] = f[0]
    BY <1>10, <1>17
  <2> QED BY <1>7, <1>19, <1>23, <1>24, <2>1, <2>2
<1> HIDE DEF E
<1>26. w.rs = r /\ w.cmds = E /\ w = [rs |-> w.rs, cmds |-> w.cmds] /\ Installed(e, t, snap) = w
  <2>1. Installed(e, t, snap) = [rs |-> r, cmds |-> E]
    BY <1>6 DEF E, D
  <2> QED BY <2>1
<1> HIDE DEF w
<1>27. Accepted(r, x)
  <2>1. Agrees(r.ids, x.log, x.base)
    <3>1. \A j \in Nat : j > i => j > d.base
      BY <1>0, <1>10, <1>12
    <3> QED BY <1>3, <1>6, <1>7, <1>11, <3>1 DEF Agrees, m
  <2>2. /\ r.logAcc = x.io /\ r.vote = x.io.vote /\ r.applyAcc \in Upto(r.vote) /\ x.base <= r.applyAcc.index
        /\ r.snap \in Upto(r.vote) /\ r.snap.index <= x.base /\ r.purged \in 0..r.snap.index /\ r.snap.index = x.base
    BY <1>0, <1>3, <1>4, <1>6, <1>9, <1>11
  <2>3. \A j \in Nat : r.snap.index < j /\ j <= r.applyAcc.index => j \in DOMAIN r.ids /\ r.ids[j] = Chosen[j]
    BY <1>0, <1>3, <1>6
  <2>4. e.rs.clusterCommitted.vote \in Vote /\ e.rs.clusterCommitted.id \in Upto(e.rs.clusterCommitted.vote)
        /\ e.rs.triedAt.index \in Nat
    BY <1>2 DEF Accepted
  <2> QED BY <1>6, <2>1, <2>2, <2>3, <2>4 DEF Accepted
<1>28. Closed(E, h)
  BY <1>8, <1>22, <1>25 DEF Closed
<1>29. EngineOK(w, h)
  <2>1. Loose(w.cmds, h, w.rs.applySub.index)
    BY <1>6, <1>25, <1>26 DEF sub
  <2>2. Closed(w.cmds, h) /\ Accepted(w.rs, h[Len(w.cmds)]) /\ w = [rs |-> w.rs, cmds |-> w.cmds]
    BY <1>25, <1>26, <1>27, <1>28
  <2> QED BY <2>1, <2>2, Zenon DEF EngineOK
<1>30. Grown(e, q, w, h)
  <2>1. e.rs.applyAcc.index <= w.rs.applyAcc.index
    <3> DEFINE y == e.rs.applyAcc.index
    <3>1. w.rs.applyAcc.index = i
      BY <1>3, <1>6, <1>26
    <3>2. y \in Nat /\ y < i
      BY <1>1
    <3> HIDE DEF y
    <3>3. y <= i
      BY <1>0, <3>2
    <3> QED BY <3>1, <3>3 DEF y
  <2>2. e.cmds # <<>> => w.cmds # <<>> /\ Head(w.cmds) = Head(e.cmds)
    BY <1>7, <1>19, <1>25, <1>26
  <2> QED BY <1>6, <1>25, <1>26, <2>1, <2>2 DEF Grown
<1> QED BY <1>26, <1>29, <1>30 DEF Follows

\* What a request to install a snapshot makes of the engine.
LEMMA EngineInstallKeeps ==
  ASSUME setting \in Settings, setting.installs # "none", NEW e, NEW q, EngineOK(e, q), NEW t \in Term,
         t >= e.rs.vote, NEW i \in 1..Com(t), NEW snap, snap.snap = IdOf(t, i),
         e.rs.applySub.index <= e.rs.applyAcc.index, e.rs.applySub.index \in Nat,
         ~ IOLt(IOId(t, IdOf(t, i)), e.rs.logAcc),
         \A n \in 1..Len(e.cmds) : e.cmds[n].op # "UpdateIOProgress"
  PROVE  Follows(e, q, EngineInstall(e, t, snap))
<1> DEFINE f  == UpdateVote(e, t)
           io == IOId(t, IdOf(t, i))
           no == IOId(t, NoLogId)
<1>0. t \in Vote /\ t \in Nat /\ Own(t) \in Nat /\ Com(t) \in 0..Own(t) /\ i \in 0..Own(t) /\ i \in 0..Com(t)
      /\ i \in Nat /\ MaxTerm \in Vote /\ t <= MaxTerm
  <2>1. t \in Vote /\ t \in Nat /\ t > 0 /\ Own(t) \in Nat
    BY Terms
  <2>2. Com(t) \in 0..Own(t)
    BY <2>1, Commits
  <2>3. MaxTerm \in Vote /\ t <= MaxTerm
    BY Commits DEF Term
  <2> QED BY <2>1, <2>2, <2>3
<1>1. PICK k : EngineOK(f, k) /\ Grown(e, q, f, k)
  BY UpdateVoteKeeps DEF Follows
<1>2. f.rs.vote = t /\ f.rs.applyAcc = e.rs.applyAcc
  BY UpdateVoteKeeps
<1>3. EngineInstall(e, t, snap) = IF InstallNeeded(f.rs, snap.snap) THEN Installed(f, t, snap) ELSE f
  BY InstallIs
<1>4. /\ e.rs.vote \in Nat /\ e.rs.vote \in Vote /\ e.rs.logAcc \in LogIO /\ e.rs.logAcc.vote = e.rs.vote
      /\ e.rs.applyAcc.index \in Nat /\ e.rs.applyAcc \in Upto(MaxTerm) /\ e.rs.logAcc.id.index \in Nat
      /\ IsSeq(e.cmds) /\ Len(e.cmds) \in Nat
  BY Facts
<1>5. io \in LogIO /\ io.vote = t /\ io.id.index = i /\ no \in LogIO /\ no.vote = t /\ no.id.index = 0
  BY <1>0, IOs
<1>6. e = [rs |-> e.rs, cmds |-> e.cmds] /\ DOMAIN e.rs = RsFields
  BY DEF EngineOK, Accepted
<1>7. /\ ~ (t > e.rs.vote) => f = e
      /\ t > e.rs.vote => /\ f.cmds = Append(e.cmds, [op |-> "SaveVote", vote |-> t])
                          /\ f.rs.logAcc = IF IOLt(e.rs.logAcc, no) THEN no ELSE e.rs.logAcc
  BY <1>6, UpdateVoteIs
<1> HIDE DEF f, io, no
<1>8. f.rs.logAcc.id.index <= i
  <2>1. CASE t > e.rs.vote
    <3>1. IOLt(e.rs.logAcc, no)
      BY <1>4, <1>5, <2>1 DEF IOLt
    <3> QED BY <1>0, <1>5, <1>7, <2>1, <3>1
  <2>2. CASE ~ (t > e.rs.vote)
    <3>1. e.rs.logAcc.vote = t
      BY <1>0, <1>4, <2>2
    <3>2. IOLe(e.rs.logAcc, io)
      BY <1>4, <1>5, IOs DEF io
    <3>3. e.rs.logAcc.id.index <= i
      BY <1>0, <1>5, <3>1, <3>2 DEF IOLe
    <3> QED BY <1>7, <2>2, <3>3
  <2> QED BY <2>1, <2>2
<1>9. \A n \in 1..Len(f.cmds) : f.cmds[n].op # "UpdateIOProgress"
  <2>1. CASE t > e.rs.vote
    <3> DEFINE c == [op |-> "SaveVote", vote |-> t]
    <3>1. c.op = "SaveVote"
      OBVIOUS
    <3>2. f.cmds = Append(e.cmds, c)
      BY <1>7, <2>1
    <3> HIDE DEF c
    <3>3. Len(f.cmds) = Len(e.cmds) + 1 /\ f.cmds[Len(e.cmds) + 1] = c
          /\ \A n \in 1..Len(e.cmds) : f.cmds[n] = e.cmds[n]
      BY <1>4, <3>2, Seqs
    <3>4. \A n \in 1..Len(f.cmds) : n \in 1..Len(e.cmds) \/ n = Len(e.cmds) + 1
      BY <1>4, <3>3
    <3> QED BY <3>1, <3>3, <3>4
  <2>2. CASE ~ (t > e.rs.vote)
    BY <1>7, <2>2
  <2> QED BY <2>1, <2>2
<1>10. CASE InstallNeeded(f.rs, snap.snap)
  <2>1. e.rs.applyAcc.index < i
    <3>1. LogIdLt(e.rs.applyAcc, IdOf(t, i))
      BY <1>2, <1>10 DEF InstallNeeded
    <3>2. IdOf(t, i) = ChosenId(i)
      BY <1>0, Order
    <3>3. IdOf(t, i) \in Upto(MaxTerm) /\ IdOf(t, i).index = i
      BY <1>0, <3>2, ChosenIds
    <3> QED BY <1>4, <3>1, <3>3, ChosenIds
  <2>2. f.rs.applySub = e.rs.applySub
    BY <1>1 DEF Grown
  <2>3. Follows(f, k, Installed(f, t, snap))
    BY <1>1, <1>2, <1>8, <1>9, <2>1, <2>2, InstalledKeeps
  <2>4. Follows(e, q, Installed(f, t, snap))
    BY <1>1, <2>3, Chained
  <2> QED BY <1>3, <1>10, <2>4
<1>11. CASE ~ InstallNeeded(f.rs, snap.snap)
  BY <1>1, <1>3, <1>11 DEF Follows
<1> QED BY <1>10, <1>11

(* The messages, and the rest of what RaftCore does to the engine.         *)

\* Facts about a node that runs.
LEMMA Runs ==
  ASSUME setting \in Settings, NEW d, NEW r, NEW cs, NEW sq, NEW b, NEW s, NEW bs, NEW ns,
         Good(d, r, cs, sq, b, s, bs, ns)
  PROVE  /\ r.applySub.index \in Nat /\ r.applySub \in Upto(MaxTerm) /\ r.applySub.index <= r.applyAcc.index
         /\ r.logSub \in LogIO /\ DOMAIN r = RsFields /\ r.snap.index \in Nat /\ r.snap \in Upto(MaxTerm)
         /\ s.applied.index \in Nat /\ d.vote = r.logSub.vote
         /\ r.applyAcc.index \in Nat /\ r.applyAcc.index <= Com(MaxTerm) /\ r.applyAcc \in Upto(MaxTerm)
         /\ IsSeq(cs) /\ IsSeq(sq) /\ IsSeq(b) /\ IsSeq(bs) /\ IsSeq(ns)
<1> DEFINE e == [rs |-> r, cmds |-> cs]
<1>1. PICK q : Running(q, d, r, cs, sq)
  BY DEF Good
<1>2. e.rs = r /\ e.cmds = cs
  OBVIOUS
<1>3. EngineOK(e, q) /\ q[0].io = r.logSub /\ d.vote = r.logSub.vote
  BY <1>1 DEF Running
<1> HIDE DEF e
<1>4. Working(d, r, b, s, bs, ns)
  BY DEF Good
<1>5. /\ Len(cs) \in Nat /\ IsSeq(cs) /\ r.vote \in Vote
      /\ r.applyAcc.index \in Nat /\ r.applyAcc.index <= Com(r.vote) /\ r.applyAcc \in Upto(MaxTerm)
      /\ r.snap.index \in Nat /\ r.snap \in Upto(MaxTerm)
  BY <1>2, <1>3, Facts
<1>6. q \in [0..Len(cs) -> Disk] /\ DOMAIN r = RsFields
  BY <1>2, <1>3 DEF EngineOK, Loose, Accepted
<1>7. q[0] \in Disk
  BY <1>5, <1>6
<1>8. r.logSub \in LogIO /\ r.logSub.vote \in Vote /\ q[0].base \in Nat
  BY <1>3, <1>7, IOs DEF Disk
<1>9. r.applySub.index \in Nat /\ r.applySub \in Upto(MaxTerm) /\ r.applySub.index <= r.applyAcc.index
  <2>1. r.applySub \in Upto(r.logSub.vote) /\ r.applySub.index <= r.applyAcc.index
    BY <1>4 DEF Working
  <2>2. r.applySub.index \in 0..Com(r.logSub.vote) /\ r.applySub \in Upto(MaxTerm)
    BY <1>8, <2>1, ChosenIds
  <2> QED BY <1>8, <2>1, <2>2, Commits
<1>10. r.applyAcc.index <= Com(MaxTerm)
  BY <1>5, ChosenIds, Commits
<1>11. s.applied.index \in Nat
  <2>1. s.applied \in Upto(MaxTerm)
    BY <1>4 DEF Working
  <2>2. s.applied.index \in 0..Com(MaxTerm)
    BY <2>1, ChosenIds, Commits
  <2> QED BY <2>2, Commits
<1>12. IsSeq(sq)
  BY DEF Good, Chain
<1>13. IsSeq(b) /\ IsSeq(bs) /\ IsSeq(ns)
  BY <1>4 DEF Working
<1> QED BY <1>3, <1>5, <1>6, <1>8, <1>9, <1>10, <1>11, <1>12, <1>13

\* The snapshot and the vote of a database.
LEMMA Stored ==
  ASSUME setting \in Settings, NEW d, Durable(d)
  PROVE  /\ d.vote \in Vote /\ d.vote \in Nat /\ d.snap \in Upto(MaxTerm) /\ d.snap.index \in Nat
         /\ d.snap = ChosenId(d.snap.index) /\ d.snap.index <= Com(d.vote) /\ d.purged.index \in Nat
         /\ d.snap.index \in 0..Com(MaxTerm)
<1>1. d.vote \in Vote /\ d.snap \in Upto(d.vote) /\ d.purged.index \in 0..d.snap.index
  BY DEF Durable
<1>2. d.vote \in Nat /\ Com(d.vote) \in Nat /\ MaxTerm \in Vote
  BY <1>1, Commits
<1>3. d.snap.index \in 0..Com(d.vote) /\ d.snap \in Upto(MaxTerm) /\ d.snap = ChosenId(d.snap.index)
  BY <1>1, ChosenIds
<1>4. d.snap.index \in 0..Com(MaxTerm)
  BY <1>2, <1>3, ChosenIds
<1> QED BY <1>1, <1>2, <1>3, <1>4

\* The first disk of a queue that is running is at or past the snapshot.
LEMMA AtSnapshot ==
  ASSUME setting \in Settings, NEW q, NEW d, NEW r, NEW cs, NEW sq, Durable(d), Running(q, d, r, cs, sq)
  PROVE  /\ \A n \in 0..Len(cs) : q[n].base \in Nat /\ d.snap.index <= q[n].base
         /\ Len(cs) \in Nat /\ q[0] \in Disk
<1> DEFINE e == [rs |-> r, cmds |-> cs]
<1>1. EngineOK(e, q) /\ e.cmds = cs
  BY DEF Running
<1> HIDE DEF e
<1>2. Loose(cs, q, e.rs.applySub.index) /\ Len(cs) \in Nat
  BY <1>1, Facts DEF EngineOK
<1>3. q \in [0..Len(cs) -> Disk] /\ \A n \in 0..Len(cs) : 0 <= n => q[0].base <= q[n].base
  BY <1>2 DEF Loose
<1>4. \A n \in 0..Len(cs) : q[n].base \in Nat
  BY <1>3 DEF Disk
<1>5. d.snap.index <= q[0].base
  <2>1. d.snap.index \in Nat /\ q[0].base \in Nat
    BY <1>2, <1>4, Stored
  <2>2. d.snap.index < q[0].base \/ d.snap.index = q[0].base
    BY DEF Running, Sent
  <2> QED BY <2>1, <2>2
<1>6. d.snap.index \in Nat
  BY Stored
<1> QED BY <1>2, <1>3, <1>4, <1>5, <1>6

\* The engine takes note of a flush, of a snapshot that was built or of an
\* attempt to build one.
LEMMA Noted ==
  ASSUME setting \in Settings, NEW d, NEW r, NEW cs, NEW sq, NEW b, NEW s, NEW bs, NEW ns,
         Durable(d), Good(d, r, cs, sq, b, s, bs, ns), NEW g, DOMAIN g = RsFields,
         g.logAcc = r.logAcc, g.logSub = r.logSub, g.clusterCommitted = r.clusterCommitted,
         g.applyAcc = r.applyAcc, g.applySub = r.applySub, g.vote = r.vote, g.purged = r.purged,
         g.ids = r.ids, g.triedAt.index \in Nat,
         g.snapFlushed \in Upto(MaxTerm), g.snapFlushed.index <= d.snap.index,
         \/ g.snap = r.snap
         \/ /\ setting.installs = "none" /\ g.snap \in Upto(MaxTerm)
            /\ r.snap.index <= g.snap.index /\ g.snap.index <= d.snap.index
  PROVE  Good(d, g, cs, sq, b, s, bs, ns)
<1> DEFINE e == [rs |-> r, cmds |-> cs]
           h == [rs |-> g, cmds |-> cs]
<1>1. PICK q : Running(q, d, r, cs, sq)
  BY DEF Good
<1> DEFINE x == q[Len(cs)]
<1>2. e.rs = r /\ e.cmds = cs /\ h.rs = g /\ h.cmds = cs /\ h = [rs |-> h.rs, cmds |-> h.cmds] /\ EngineOK(e, q)
  BY <1>1 DEF Running
<1> HIDE DEF e, h
<1>3. Loose(cs, q, r.applySub.index) /\ Closed(cs, q) /\ Accepted(r, x)
  BY <1>2 DEF EngineOK
<1>4. Len(cs) \in Nat /\ x.base \in Nat /\ d.snap.index <= x.base /\ d.snap.index \in Nat
  BY <1>1, AtSnapshot, Stored
<1>5. /\ r.vote \in Vote /\ r.snap.index \in Nat /\ r.applyAcc.index \in Nat /\ r.applyAcc.index <= Com(r.vote)
  BY <1>2, Facts
<1> HIDE DEF x
<1>6. Accepted(g, x)
  <2>1. CASE g.snap = r.snap
    BY <1>3, <2>1 DEF Accepted
  <2>2. CASE /\ setting.installs = "none" /\ g.snap \in Upto(MaxTerm)
             /\ r.snap.index <= g.snap.index /\ g.snap.index <= d.snap.index
    <3>1. g.snap = ChosenId(g.snap.index) /\ g.snap.index \in Nat
      <4>1. g.snap.index \in 0..Com(MaxTerm) /\ g.snap = ChosenId(g.snap.index)
        BY <2>2, ChosenIds, Commits
      <4> QED BY <4>1
    <3>2. x.base <= r.applyAcc.index
      BY <1>3 DEF Accepted
    <3>3. g.snap.index <= x.base
      BY <1>4, <2>2, <3>1
    <3>4. g.snap.index <= Com(r.vote) /\ Com(r.vote) \in Nat
      BY <1>4, <1>5, <3>1, <3>2, <3>3, Commits
    <3>5. g.snap \in Upto(r.vote)
      BY <1>5, <3>1, <3>4, ChosenIds
    <3>6. \A i \in Nat : g.snap.index < i => r.snap.index < i
      BY <1>5, <2>2, <3>1
    <3>7. r.purged \in 0..g.snap.index
      <4>1. r.purged \in 0..r.snap.index
        BY <1>3 DEF Accepted
      <4> QED BY <1>5, <2>2, <3>1, <4>1
    <3> QED BY <1>3, <2>2, <3>3, <3>5, <3>6, <3>7 DEF Accepted
  <2> QED BY <2>1, <2>2
<1>7. EngineOK(h, q)
  BY <1>2, <1>3, <1>6 DEF EngineOK, x
<1>8. Running(q, d, g, cs, sq)
  BY <1>1, <1>7 DEF Running, h
<1>9. Working(d, g, b, s, bs, ns)
  BY DEF Good, Working
<1>10. \E p : Chain(p, d, g, sq, b, s)
  BY DEF Good, Chain
<1> QED BY <1>8, <1>9, <1>10 DEF Good

\* A notification is taken.
LEMMA Taken ==
  ASSUME setting \in Settings, NEW d, NEW r, NEW cs, NEW sq, NEW b, NEW s, NEW bs, NEW ns,
         Good(d, r, cs, sq, b, s, bs, ns), ns # <<>>
  PROVE  /\ Good(d, r, cs, sq, b, s, bs, Tail(ns))
         /\ Head(ns).op \in {"BuildSnapshotDone", "InstallSnapshotDone"} =>
              /\ Head(ns).id \in Upto(MaxTerm) /\ Head(ns).id.index \in Nat /\ Head(ns).id.index <= d.snap.index
              /\ Head(ns).op = "BuildSnapshotDone" => setting.installs = "none"
<1>1. Working(d, r, b, s, bs, ns) /\ IsSeq(ns)
  BY DEF Good, Working
<1>2. IsSeq(Tail(ns)) /\ Len(ns) >= 1 /\ Len(Tail(ns)) = Len(ns) - 1 /\ Head(ns) = ns[1] /\ Len(ns) \in Nat
      /\ \A n \in 1..(Len(ns) - 1) : Tail(ns)[n] = ns[n + 1]
  BY <1>1, Seqs
<1>3. \A n \in 1..Len(Tail(ns)) : n + 1 \in 1..Len(ns) /\ Tail(ns)[n] = ns[n + 1]
  BY <1>2
<1>4. Working(d, r, b, s, bs, Tail(ns))
  BY <1>1, <1>2, <1>3 DEF Working
<1>5. 1 \in 1..Len(ns)
  BY <1>2
<1>6. Head(ns).op \in {"BuildSnapshotDone", "InstallSnapshotDone"} =>
              /\ Head(ns).id \in Upto(MaxTerm) /\ Head(ns).id.index <= d.snap.index
              /\ Head(ns).op = "BuildSnapshotDone" => setting.installs = "none"
  BY <1>1, <1>2, <1>5 DEF Working
<1>7. \A id \in Upto(MaxTerm) : id.index \in Nat
  BY ChosenIds, Commits
<1> QED BY <1>4, <1>6, <1>7 DEF Good

\* The policy purges up to Keep entries before the snapshot.
LEMMA PolicyPurgeKeeps ==
  ASSUME setting \in Settings, setting.installs = "none", NEW e, NEW q, EngineOK(e, q)
  PROVE  Follows(e, q, PolicyPurge(e))
<1> DEFINE end  == e.rs.snap.index - Keep
           upto == [term |-> e.rs.ids[end], index |-> end]
           c    == [op |-> "PurgeLog", upto |-> upto]
           r    == PurgeIds(e.rs, upto)
           d    == q[Len(e.cmds)]
<1>1. /\ d \in Disk /\ d.base \in Nat /\ d.io \in LogIO /\ Solid(d.log, d.base) /\ Kept(d)
      /\ e.rs.snap.index \in Nat /\ e.rs.applyAcc.index \in Nat
  BY Facts
<1>2. e = [rs |-> e.rs, cmds |-> e.cmds] /\ DOMAIN e.rs = RsFields /\ Accepted(e.rs, d) /\ Bounded(e.rs.ids)
  BY DEF EngineOK, Accepted
<1>3. CASE ~ (e.rs.purged + 1 <= end)
  <2>1. PolicyPurge(e) = e
    BY <1>3 DEF PolicyPurge
  <2> QED BY <2>1, Nothing
<1>4. CASE e.rs.purged + 1 <= end
  <2>1. PolicyPurge(e) = Push([e EXCEPT !.rs = r], c)
    BY <1>4 DEF PolicyPurge
  <2>2. end \in Nat /\ end <= e.rs.snap.index /\ end <= d.base
    <3>1. e.rs.purged \in 0..e.rs.snap.index /\ e.rs.snap.index <= d.base
      BY <1>2 DEF Accepted
    <3> QED BY <1>1, <1>4, <3>1, KeepAssumption, SMTT(30)
  <2>3. upto.index = end /\ c.op = "PurgeLog" /\ c.upto = upto
    OBVIOUS
  <2> HIDE DEF end, upto, c, d
  <2>4. /\ Bounded(r.ids) /\ r.purged = end /\ DOMAIN r = RsFields
        /\ \A i \in Nat : i > end => /\ i \in DOMAIN r.ids <=> i \in DOMAIN e.rs.ids
                                     /\ i \in DOMAIN r.ids => r.ids[i] = e.rs.ids[i]
        /\ r.logAcc = e.rs.logAcc /\ r.logSub = e.rs.logSub /\ r.vote = e.rs.vote
        /\ r.applyAcc = e.rs.applyAcc /\ r.applySub = e.rs.applySub /\ r.clusterCommitted = e.rs.clusterCommitted
        /\ r.snap = e.rs.snap /\ r.snapFlushed = e.rs.snapFlushed /\ r.triedAt = e.rs.triedAt
    BY <1>2, <2>2, <2>3, PurgeIdsIs
  <2>5. PolicyPurge(e) = [rs |-> r, cmds |-> Append(e.cmds, c)]
    <3> HIDE DEF r
    <3>1. [e EXCEPT !.rs = r] = [rs |-> r, cmds |-> e.cmds]
      BY <1>2
    <3> QED BY <2>1, <3>1, PushIs
  <2> HIDE DEF r
  <2>6. Accepted(r, d)
    <3>1. \A i \in Nat : i > d.base => i > end
      BY <1>1, <2>2
    <3>2. \A i \in Nat : e.rs.snap.index < i => i > end
      BY <1>1, <2>2
    <3>3. Agrees(r.ids, d.log, d.base)
      BY <1>2, <2>4, <3>1 DEF Accepted, Agrees
    <3>4. \A i \in Nat : r.snap.index < i /\ i <= r.applyAcc.index =>
            i \in DOMAIN r.ids /\ r.ids[i] = Chosen[i]
      BY <1>2, <2>4, <3>2 DEF Accepted
    <3>5. r.purged \in 0..r.snap.index
      BY <1>1, <2>2, <2>4
    <3> QED BY <1>2, <2>4, <3>3, <3>4, <3>5 DEF Accepted
  <2>7. Link(c, d, d)
    <3>1. c.upto.index \in 0..d.base
      BY <1>1, <2>2, <2>3
    <3> QED BY <2>3, <3>1 DEF Link, Same
  <2>8. DueLast(c, e.cmds, q, e.rs.applySub.index) /\ c.op # "InstallFullSnapshot"
    BY <2>3 DEF DueLast
  <2>9. IOLe(d.io, d.io) /\ d.base <= d.base
    <3>1. d.io.vote \in Nat /\ d.io.id.index \in Nat
      BY <1>1 DEF LogIO, Vote
    <3> QED BY <1>1, <3>1 DEF IOLe
  <2>10. e.rs.applyAcc.index <= r.applyAcc.index
    BY <1>1, <2>4
  <2>11. Follows(e, q, [rs |-> r, cmds |-> Append(e.cmds, c)])
    BY <1>1, <2>4, <2>6, <2>7, <2>8, <2>9, <2>10, Pushing DEF d
  <2> QED BY <2>5, <2>11
<1> QED BY <1>3, <1>4

\* A snapshot that was built is taken note of, and its logs purged.
LEMMA BuildingSnapshotDoneKeeps ==
  ASSUME setting \in Settings, setting.installs = "none",
         NEW d, NEW r, NEW cs, NEW sq, NEW b, NEW s, NEW bs, NEW ns,
         Durable(d), Good(d, r, cs, sq, b, s, bs, ns),
         NEW id \in Upto(MaxTerm), id.index <= d.snap.index
  PROVE  LET f == BuildingSnapshotDone([rs |-> r, cmds |-> cs], id)
         IN Good(d, f.rs, f.cmds, sq, b, s, bs, ns)
<1> DEFINE e  == [rs |-> r, cmds |-> cs]
           g1 == [r EXCEPT !.building = FALSE, !.snapFlushed = MaxId(r.snapFlushed, id)]
           g2 == [g1 EXCEPT !.snap = id]
           e1 == [rs |-> g1, cmds |-> cs]
           e2 == [rs |-> g2, cmds |-> cs]
<1>1. DOMAIN r = RsFields /\ r.snap.index \in Nat /\ r.snap \in Upto(MaxTerm)
  BY Runs
<1>2. r.snapFlushed \in Upto(MaxTerm) /\ r.snapFlushed.index <= d.snap.index /\ r.triedAt.index \in Nat
  <2>1. r.triedAt.index \in Nat
    BY DEF Good, Running, EngineOK, Accepted
  <2> QED BY <2>1 DEF Good, Working
<1>3. MaxId(r.snapFlushed, id) \in Upto(MaxTerm) /\ MaxId(r.snapFlushed, id).index <= d.snap.index
  BY <1>2 DEF MaxId
<1>4. BuildingSnapshotDone(e, id) = IF LogIdLt(r.snap, id) THEN PolicyPurge(e2) ELSE e1
  <2> DEFINE x1 == [e EXCEPT !.rs.building = FALSE, !.rs.snapFlushed = MaxId(@, id)]
             x2 == [x1 EXCEPT !.rs.snap = id]
  <2>1. BuildingSnapshotDone(e, id) = IF LogIdLt(e.rs.snap, id) THEN PolicyPurge(x2) ELSE x1
    BY Zenon DEF BuildingSnapshotDone
  <2>2. x1 = e1
    <3> DEFINE y == [e EXCEPT !.rs.building = FALSE]
               h == [r EXCEPT !.building = FALSE]
    <3>1. x1 = [y EXCEPT !.rs.snapFlushed = MaxId(y.rs.snapFlushed, id)]
      BY Zenon
    <3>2. y = [rs |-> h, cmds |-> cs] /\ y.rs = h
      <4>1. e = [rs |-> r, cmds |-> cs] /\ e.rs = r
        OBVIOUS
      <4>2. [e.rs EXCEPT !.building = FALSE] = h
        BY <4>1
      <4>3. y = [e EXCEPT !.rs = [e.rs EXCEPT !.building = FALSE]]
        BY Zenon
      <4> HIDE DEF h, y, x1, x2, e, g1, g2, e1, e2
      <4>4. y = [e EXCEPT !.rs = h]
        BY <4>2, <4>3
      <4> QED BY <4>1, <4>4
    <3>3. h.snapFlushed = r.snapFlushed
      BY <1>1 DEF RsFields
    <3>4. [h EXCEPT !.snapFlushed = MaxId(r.snapFlushed, id)] = g1
      BY <1>1 DEF RsFields
    <3> HIDE DEF y, h, x1, g1
    <3> QED BY <3>1, <3>2, <3>3, <3>4
  <2>3. x2 = e2
    <3> HIDE DEF x1, g1
    <3> QED BY <2>2
  <2>4. e.rs.snap = r.snap
    OBVIOUS
  <2> HIDE DEF x1, x2, e, e1, e2
  <2> QED BY <2>1, <2>2, <2>3, <2>4
<1>5. /\ DOMAIN g1 = RsFields /\ g1.snapFlushed = MaxId(r.snapFlushed, id) /\ g1.snap = r.snap
      /\ g1.logAcc = r.logAcc /\ g1.logSub = r.logSub /\ g1.clusterCommitted = r.clusterCommitted
      /\ g1.applyAcc = r.applyAcc /\ g1.applySub = r.applySub /\ g1.vote = r.vote /\ g1.purged = r.purged
      /\ g1.ids = r.ids /\ g1.triedAt = r.triedAt
  BY <1>1 DEF RsFields
<1> HIDE DEF g1
<1>6. /\ DOMAIN g2 = RsFields /\ g2.snapFlushed = MaxId(r.snapFlushed, id) /\ g2.snap = id
      /\ g2.logAcc = r.logAcc /\ g2.logSub = r.logSub /\ g2.clusterCommitted = r.clusterCommitted
      /\ g2.applyAcc = r.applyAcc /\ g2.applySub = r.applySub /\ g2.vote = r.vote /\ g2.purged = r.purged
      /\ g2.ids = r.ids /\ g2.triedAt = r.triedAt
  BY <1>5 DEF RsFields
<1> HIDE DEF g2
<1>7. CASE ~ LogIdLt(r.snap, id)
  <2>1. Good(d, g1, cs, sq, b, s, bs, ns)
    BY <1>2, <1>3, <1>5, Noted
  <2> QED BY <1>4, <1>7, <2>1
<1>8. CASE LogIdLt(r.snap, id)
  <2>1. r.snap.index < id.index /\ id.index \in Nat
    BY <1>1, <1>8, ChosenIds, Commits
  <2>2. r.snap.index <= id.index
    BY <1>1, <2>1
  <2>3. Good(d, g2, cs, sq, b, s, bs, ns)
    BY <1>2, <1>3, <1>6, <2>2, Noted
  <2>4. \A q : Running(q, d, g2, cs, sq) => Follows(e2, q, PolicyPurge(e2))
    BY PolicyPurgeKeeps DEF Running
  <2> DEFINE f == PolicyPurge(e2)
  <2> HIDE DEF f
  <2>5. Good(d, f.rs, f.cmds, sq, b, s, bs, ns)
    BY <2>3, <2>4, MessageKeeps DEF f
  <2> QED BY <1>4, <1>8, <2>5 DEF f
<1> QED BY <1>7, <1>8

\* A build is queued by the policy only where no snapshots are sent.
LEMMA TriggerKeeps ==
  ASSUME SnapshotsSeparate, setting \in Settings,
         NEW d, NEW r, NEW cs, NEW sq, NEW b, NEW s, NEW bs, NEW ns,
         Durable(d), Good(d, r, cs, sq, b, s, bs, ns),
         r.applyAcc.index >= MaxId(r.triedAt, r.snap).index + setting.threshold
  PROVE  LET f == QueueBuild([[rs |-> r, cmds |-> cs] EXCEPT !.rs.triedAt = r.applyAcc])
         IN Good(d, f.rs, f.cmds, sq, b, s, bs, ns)
<1> DEFINE e  == [rs |-> r, cmds |-> cs]
           g1 == [r EXCEPT !.triedAt = r.applyAcc]
           g2 == [g1 EXCEPT !.building = TRUE]
           e1 == [rs |-> g1, cmds |-> cs]
           c  == [op |-> "BuildSnapshot"]
<1>1. DOMAIN r = RsFields /\ r.snap.index \in Nat /\ r.applyAcc.index \in Nat /\ r.applyAcc.index <= Com(MaxTerm)
  BY Runs
<1>2. r.snapFlushed \in Upto(MaxTerm) /\ r.snapFlushed.index <= d.snap.index /\ r.triedAt.index \in Nat
  <2>1. r.triedAt.index \in Nat
    BY DEF Good, Running, EngineOK, Accepted
  <2> QED BY <2>1 DEF Good, Working
<1>3. setting.installs = "none"
  <2> SUFFICES ASSUME setting.installs # "none" PROVE FALSE
    OBVIOUS
  <2>1. setting.threshold > setting.committed[Len(setting.committed)]
    BY Zenon DEF SnapshotsSeparate
  <2>2. Len(setting.committed) = MaxTerm
    BY RaftAssumption, Zenon DEF MaxTerm, LeaderLog
  <2>3. Com(MaxTerm) = setting.committed[MaxTerm] /\ Com(MaxTerm) \in Nat
    BY Logs, Commits DEF Com, Committed
  <2>4. setting.threshold \in Nat
    BY Logs
  <2>5. MaxId(r.triedAt, r.snap).index \in Nat
    BY <1>1, <1>2 DEF MaxId
  <2> DEFINE x == MaxId(r.triedAt, r.snap).index
             y == setting.threshold
             z == Com(MaxTerm)
             w == r.applyAcc.index
  <2>6. x \in Nat /\ y \in Nat /\ z \in Nat /\ w \in Nat /\ w >= x + y /\ w <= z /\ y > z
    BY <1>1, <2>1, <2>2, <2>3, <2>4, <2>5
  <2> HIDE DEF x, y, z, w
  <2> QED BY <2>6
<1>4. [e EXCEPT !.rs.triedAt = r.applyAcc] = e1
  OBVIOUS
<1>5. /\ DOMAIN g1 = RsFields /\ g1.snapFlushed = r.snapFlushed /\ g1.snap = r.snap
      /\ g1.logAcc = r.logAcc /\ g1.logSub = r.logSub /\ g1.clusterCommitted = r.clusterCommitted
      /\ g1.applyAcc = r.applyAcc /\ g1.applySub = r.applySub /\ g1.vote = r.vote /\ g1.purged = r.purged
      /\ g1.ids = r.ids /\ g1.triedAt = r.applyAcc
  BY <1>1 DEF RsFields
<1>6. QueueBuild(e1) = IF g1.building THEN e1 ELSE [rs |-> g2, cmds |-> Append(cs, c)]
  <2>1. QueueBuild(e1) = IF e1.rs.building THEN e1 ELSE Push([e1 EXCEPT !.rs.building = TRUE], c)
    BY DEF QueueBuild
  <2>2. e1.rs = g1 /\ [e1 EXCEPT !.rs.building = TRUE] = [rs |-> g2, cmds |-> cs]
    OBVIOUS
  <2> HIDE DEF e1, g1, g2, c
  <2> QED BY <2>1, <2>2, PushIs
<1>7. c.op = "BuildSnapshot"
  OBVIOUS
<1> HIDE DEF g1, c
<1>8. /\ DOMAIN g2 = RsFields /\ g2.snapFlushed = r.snapFlushed /\ g2.snap = r.snap
      /\ g2.logAcc = r.logAcc /\ g2.logSub = r.logSub /\ g2.clusterCommitted = r.clusterCommitted
      /\ g2.applyAcc = r.applyAcc /\ g2.applySub = r.applySub /\ g2.vote = r.vote /\ g2.purged = r.purged
      /\ g2.ids = r.ids /\ g2.triedAt = r.applyAcc
  BY <1>5 DEF RsFields
<1> HIDE DEF g2
<1>9. Good(d, g1, cs, sq, b, s, bs, ns)
  BY <1>1, <1>2, <1>5, Noted
<1>10. ASSUME NEW q, Running(q, d, g1, cs, sq)
       PROVE  Follows(e1, q, [rs |-> g2, cmds |-> Append(cs, c)])
  <2> DEFINE x == q[Len(cs)]
  <2>1. EngineOK(e1, q) /\ e1.cmds = cs /\ e1.rs = g1
    BY <1>10 DEF Running
  <2> HIDE DEF e1
  <2>2. x \in Disk /\ x.base \in Nat /\ x.io \in LogIO /\ Solid(x.log, x.base) /\ Kept(x)
        /\ g1.applyAcc.index \in Nat /\ Accepted(g1, x)
    BY <2>1, Facts DEF EngineOK
  <2> HIDE DEF x
  <2>3. Link(c, x, x) /\ DueLast(c, cs, q, g1.applySub.index) /\ c.op # "InstallFullSnapshot"
    BY <1>3, <1>7 DEF Link, Same, DueLast
  <2>4. IOLe(x.io, x.io) /\ x.base <= x.base
    <3>1. x.io.vote \in Nat /\ x.io.id.index \in Nat
      BY <2>2 DEF LogIO, Vote
    <3> QED BY <2>2, <3>1 DEF IOLe
  <2>5. Accepted(g2, x)
    BY <1>1, <1>5, <1>8, <2>2 DEF Accepted
  <2>6. g1.applyAcc.index <= g2.applyAcc.index
    BY <1>1, <1>5, <1>8
  <2> QED BY <1>5, <1>8, <2>1, <2>2, <2>3, <2>4, <2>5, <2>6, Pushing DEF x
<1>11. CASE g1.building
  BY <1>4, <1>6, <1>9, <1>11
<1>12. CASE ~ g1.building
  <2> DEFINE f == [rs |-> g2, cmds |-> Append(cs, c)]
  <2>1. f.rs = g2 /\ f.cmds = Append(cs, c)
    OBVIOUS
  <2> HIDE DEF f
  <2>2. \A q : Running(q, d, g1, cs, sq) => Follows(e1, q, f)
    BY <1>10 DEF f
  <2>3. Good(d, f.rs, f.cmds, sq, b, s, bs, ns)
    BY <1>9, <2>2, MessageKeeps
  <2> QED BY <1>4, <1>6, <1>12, <2>3 DEF f
<1> QED BY <1>11, <1>12

(* RaftCore runs the commands.                                             *)

\* A command that may run is not held up by an install.
LEMMA NotSent ==
  ASSUME setting \in Settings, NEW d, NEW r, NEW cs, NEW sq, NEW q, Running(q, d, r, cs, sq),
         r.snapFlushed \in Upto(MaxTerm), r.snapFlushed.index <= d.snap.index, Durable(d),
         cs # <<>>, Head(cs).op = "PurgeLog" => ~ LogIdLt(r.snapFlushed, Head(cs).upto)
  PROVE  /\ ~ \E m \in 1..Len(sq) : sq[m].op = "InstallFullSnapshot"
         /\ d.snap.index = q[0].base
<1>1. SUFFICES ASSUME \E m \in 1..Len(sq) : sq[m].op = "InstallFullSnapshot" PROVE FALSE
  BY DEF Running, Sent
<1> DEFINE x == q[0].base
<1>2. Head(cs).op = "PurgeLog" /\ Head(cs).upto = ChosenId(x) /\ d.snap.index < x
  BY <1>1 DEF Running, Sent
<1>3. x \in Nat /\ d.snap.index \in Nat /\ r.snapFlushed.index \in Nat
  <2>1. x \in Nat
    BY AtSnapshot
  <2>2. r.snapFlushed.index \in 0..Com(MaxTerm)
    BY ChosenIds, Commits
  <2> QED BY <2>1, <2>2, Stored
<1>4. x \in 0..Com(MaxTerm)
  <2>1. x <= r.applySub.index
    BY DEF Running
  <2> DEFINE e == [rs |-> r, cmds |-> cs]
  <2>2. EngineOK(e, q) /\ e.rs = r /\ e.cmds = cs
    BY DEF Running
  <2> HIDE DEF e
  <2>3. r.applyAcc.index \in Nat /\ r.applyAcc \in Upto(MaxTerm) /\ Len(cs) \in Nat
    BY <2>2, Facts
  <2>4. q[Len(cs)].base <= r.applyAcc.index
    BY <2>2 DEF EngineOK, Accepted
  <2>5. q[0].base <= q[Len(cs)].base
    <3>1. 0 \in 0..Len(cs) /\ Len(cs) \in 0..Len(cs) /\ 0 <= Len(cs)
      BY <2>3
    <3> QED BY <2>2, <3>1 DEF EngineOK, Loose
  <2>6. r.applyAcc.index \in 0..Com(MaxTerm)
    BY <2>3, ChosenIds, Commits
  <2>7. q[Len(cs)].base \in Nat
    BY <2>3, AtSnapshot
  <2>8. Com(MaxTerm) \in Nat
    BY Commits
  <2> QED BY <1>3, <2>4, <2>5, <2>6, <2>7, <2>8
<1>5. ChosenId(x) \in Upto(MaxTerm) /\ ChosenId(x).index = x
  BY <1>4, ChosenIds, Commits
<1>6. LogIdLt(r.snapFlushed, ChosenId(x))
  <2>1. r.snapFlushed.index < x
    BY <1>2, <1>3
  <2> QED BY <1>5, <2>1, ChosenIds
<1> QED BY <1>2, <1>6

\* The first command of a queue.
Starts(d, r, cs, q) ==
  /\ Link(Head(cs), q[0], q[1]) /\ Due(cs, q, 1, r.applySub.index)
  /\ q[0] \in Disk /\ q[1] \in Disk /\ d.snap.index = q[0].base

\* What it does to the database and the engine.
Does(x, g, d, r, q) ==
  /\ Agrees(x.log, q[1].log, q[1].base)
  /\ g.logSub = q[1].io /\ x.vote = q[1].io.vote
  /\ x.purged.index \in 0..x.snap.index
  /\ \A i \in Nat : d.snap.index < i /\ i <= r.applySub.index
                    /\ i \in DOMAIN d.log /\ d.log[i] = Chosen[i] =>
       i \in DOMAIN x.log /\ x.log[i] = Chosen[i]
Submitted(g, r) ==
  /\ DOMAIN g = RsFields
  /\ g.logAcc = r.logAcc /\ g.clusterCommitted = r.clusterCommitted
  /\ g.applyAcc = r.applyAcc /\ g.applySub = r.applySub /\ g.snapFlushed = r.snapFlushed
  /\ g.vote = r.vote /\ g.purged = r.purged /\ g.ids = r.ids /\ g.snap = r.snap /\ g.triedAt = r.triedAt

\* A command other than an install is run: x is the database and g the state
\* of the engine after it.
LEMMA RunKeeps ==
  ASSUME setting \in Settings, NEW d, NEW r, NEW cs, NEW sq, NEW b, NEW s, NEW bs, NEW ns,
         Durable(d), Good(d, r, cs, sq, b, s, bs, ns),
         cs # <<>>, Head(cs).op # "InstallFullSnapshot",
         Head(cs).op = "PurgeLog" => ~ LogIdLt(r.snapFlushed, Head(cs).upto),
         NEW x, DOMAIN x = DbFields, Bounded(x.log), x.snap = d.snap,
         NEW g, Submitted(g, r),
         \A q : Running(q, d, r, cs, sq) /\ Starts(d, r, cs, q) => Does(x, g, d, r, q)
  PROVE  Durable(x) /\ Good(x, g, Tail(cs), sq, b, s, bs, ns)
<1> DEFINE e == [rs |-> r, cmds |-> cs]
           h == [rs |-> g, cmds |-> Tail(cs)]
           N == Len(cs)
<1>1. PICK q : Running(q, d, r, cs, sq)
  BY DEF Good
<1>2. PICK p : Chain(p, d, r, sq, b, s)
  BY DEF Good
<1>3. Working(d, r, b, s, bs, ns)
  BY DEF Good
<1>4. e.rs = r /\ e.cmds = cs /\ h.rs = g /\ h.cmds = Tail(cs) /\ h = [rs |-> h.rs, cmds |-> h.cmds] /\ EngineOK(e, q)
  BY <1>1 DEF Running
<1> HIDE DEF e, h
<1>5. Loose(cs, q, r.applySub.index) /\ Closed(cs, q) /\ Accepted(r, q[N])
  BY <1>4 DEF EngineOK
<1>6. IsSeq(cs) /\ N \in Nat /\ N >= 1 /\ Head(cs) = cs[1] /\ Len(Tail(cs)) = N - 1
  <2>1. IsSeq(cs)
    BY <1>5 DEF Loose
  <2> QED BY <2>1, Seqs
<1>7. Link(Head(cs), q[0], q[1]) /\ Due(cs, q, 1, r.applySub.index) /\ q[0] \in Disk /\ q[1] \in Disk
  <2>1. 1 \in 1..N /\ 1 \in 0..N /\ 0 \in 0..N /\ 1 - 1 = 0
    BY <1>6
  <2> QED BY <1>5, <1>6, <2>1 DEF Loose
<1>8. d.snap.index = q[0].base /\ ~ \E m \in 1..Len(sq) : sq[m].op = "InstallFullSnapshot"
  <2>1. r.snapFlushed \in Upto(MaxTerm) /\ r.snapFlushed.index <= d.snap.index
    BY <1>3 DEF Working
  <2> QED BY <1>1, <2>1, NotSent
<1>9. /\ Agrees(x.log, q[1].log, q[1].base)
      /\ g.logSub = q[1].io /\ x.vote = q[1].io.vote
      /\ x.purged.index \in 0..x.snap.index
      /\ \A i \in Nat : d.snap.index < i /\ i <= r.applySub.index
                                  /\ i \in DOMAIN d.log /\ d.log[i] = Chosen[i] =>
                     i \in DOMAIN x.log /\ x.log[i] = Chosen[i]
  <2>1. Starts(d, r, cs, q)
    BY <1>7, <1>8 DEF Starts
  <2> QED BY <1>1, <2>1 DEF Does
<1>0. /\ DOMAIN g = RsFields
      /\ g.logAcc = r.logAcc /\ g.clusterCommitted = r.clusterCommitted
      /\ g.applyAcc = r.applyAcc /\ g.applySub = r.applySub /\ g.snapFlushed = r.snapFlushed
      /\ g.vote = r.vote /\ g.purged = r.purged /\ g.ids = r.ids /\ g.snap = r.snap /\ g.triedAt = r.triedAt
  BY DEF Submitted
<1>10. q[1].base = q[0].base
  BY <1>7 DEF Link
<1>11. q[0].io = r.logSub /\ d.vote = r.logSub.vote /\ q[0].base <= r.applySub.index
  BY <1>1 DEF Running
<1>12. x.vote \in Vote /\ d.vote \in Vote /\ d.vote <= x.vote
  <2>1. IOLe(q[0].io, q[1].io)
    <3>1. 1 \in 0..N /\ 0 \in 0..N /\ 0 <= 1
      BY <1>6
    <3> QED BY <1>5, <3>1 DEF Loose
  <2>2. q[0].io \in LogIO /\ q[1].io \in LogIO
    BY <1>7 DEF Disk
  <2>3. q[0].io.vote \in Vote /\ q[1].io.vote \in Vote /\ q[0].io.vote \in Nat /\ q[1].io.vote \in Nat
    BY <2>2, IOs
  <2> QED BY <1>9, <1>11, <2>1, <2>3 DEF IOLe
<1>13. Durable(x)
  <2>1. x.snap \in Upto(x.vote)
    BY <1>12, ChosenIds DEF Durable
  <2>2. Solid(q[1].log, q[1].base)
    <3>1. 1 \in 0..N
      BY <1>6
    <3> QED BY <1>5, <3>1 DEF Loose
  <2>3. q[1].base = x.snap.index
    BY <1>8, <1>10
  <2> QED BY <1>9, <1>12, <2>1, <2>2, <2>3 DEF Durable
<1>14. PICK f : /\ Loose(Tail(cs), f, r.applySub.index) /\ (Closed(cs, q) => Closed(Tail(cs), f))
                /\ f[0] = q[1] /\ f[Len(Tail(cs))] = q[N]
  BY <1>5, Shift
<1>15. Running(f, x, g, Tail(cs), sq)
  <2>1. Accepted(g, q[N])
    BY <1>0, <1>5 DEF Accepted
  <2>2. EngineOK(h, f)
    BY <1>0, <1>4, <1>5, <1>14, <2>1 DEF EngineOK
  <2>3. Sent(f, x, Tail(cs), sq)
    BY <1>8, <1>10, <1>14 DEF Sent
  <2> QED BY <1>0, <1>9, <1>10, <1>11, <1>14, <2>2, <2>3 DEF Running, h
<1>16. Working(x, g, b, s, bs, ns)
  <2>1. g.applySub \in Upto(g.logSub.vote)
    <3>1. r.applySub \in Upto(d.vote)
      BY <1>3, <1>11 DEF Working
    <3> QED BY <1>0, <1>9, <1>12, <3>1, ChosenIds
  <2> QED BY <1>0, <1>3, <2>1 DEF Working
<1>17. Chain(p, x, g, sq, b, s)
  <2>1. p \in [0..Len(sq) -> Nat] /\ Len(sq) \in Nat
    BY <1>2, Seqs DEF Chain
  <2>2. d.snap.index <= p[0] /\ d.snap.index \in Nat
    <3>1. d.snap.index <= s.applied.index /\ p[0] = s.applied.index + Len(b) /\ IsSeq(b)
      BY <1>2, <1>3 DEF Working, Chain
    <3>2. Len(b) \in Nat /\ s.applied.index \in Nat /\ d.snap.index \in Nat
      BY <3>1, Seqs, Runs, Stored
    <3> QED BY <3>1, <3>2
  <2>3. ASSUME NEW m \in 1..Len(sq), NEW i \in Nat, p[m - 1] < i, i <= p[m]
        PROVE  d.snap.index < i /\ i <= r.applySub.index
    <3>1. m - 1 \in 0..Len(sq) /\ m \in 0..Len(sq) /\ Len(sq) \in 0..Len(sq) /\ 0 \in 0..Len(sq) /\ 0 <= m - 1 /\ m <= Len(sq)
      BY <2>1
    <3>2. p[0] <= p[m - 1] /\ p[m] <= p[Len(sq)] /\ p[Len(sq)] = r.applySub.index
      BY <1>2, <3>1 DEF Chain
    <3>3. p[0] \in Nat /\ p[m - 1] \in Nat /\ p[m] \in Nat /\ p[Len(sq)] \in Nat
      BY <2>1, <3>1
    <3> QED BY <2>2, <2>3, <3>2, <3>3
  <2>4. ASSUME NEW m \in 1..Len(sq), sq[m].op = "Apply", NEW i \in Nat, p[m - 1] < i, i <= p[m]
        PROVE  i \in DOMAIN x.log /\ x.log[i] = Chosen[i]
    <3>1. i \in DOMAIN d.log /\ d.log[i] = Chosen[i]
      BY <1>2, <2>4 DEF Chain, Carries
    <3> QED BY <1>9, <2>3, <2>4, <3>1
  <2>5. \A m \in 1..Len(sq) : Carries(sq[m], d, p[m - 1], p[m])
    BY <1>2 DEF Chain
  <2>6. \A m \in 1..Len(sq) : Carries(sq[m], x, p[m - 1], p[m])
    BY <2>4, <2>5 DEF Carries
  <2> QED BY <1>0, <1>2, <2>6 DEF Chain
<1> QED BY <1>13, <1>15, <1>16, <1>17 DEF Good

\* The state of the engine when a log IO is submitted.
LEMMA SubmittedIs ==
  ASSUME NEW r, DOMAIN r = RsFields, NEW io
  PROVE  Submitted([r EXCEPT !.logSub = io], r) /\ [r EXCEPT !.logSub = io].logSub = io /\ Submitted(r, r)
<1>1. Submitted([r EXCEPT !.logSub = io], r)
  BY DEF Submitted, RsFields
<1>2. [r EXCEPT !.logSub = io].logSub = io
  BY DEF RsFields
<1> QED BY <1>1, <1>2 DEF Submitted

\* A vote is saved.
LEMMA SaveVoteKeeps ==
  ASSUME setting \in Settings, NEW d, NEW r, NEW cs, NEW sq, NEW b, NEW s, NEW bs, NEW ns,
         Durable(d), Good(d, r, cs, sq, b, s, bs, ns), cs # <<>>, Head(cs).op = "SaveVote"
  PROVE  LET x == PutVote(d, Head(cs).vote)
             g == [r EXCEPT !.logSub = IOId(Head(cs).vote, NoLogId)]
         IN Durable(x) /\ Good(x, g, Tail(cs), sq, b, s, bs, ns)
<1> DEFINE v == Head(cs).vote
           x == PutVote(d, v)
           g == [r EXCEPT !.logSub = IOId(v, NoLogId)]
<1>1. DOMAIN d = DbFields /\ Bounded(d.log) /\ d.purged.index \in 0..d.snap.index
  BY DEF Durable
<1>2. x.log = d.log /\ x.snap = d.snap /\ x.vote = v /\ x.purged = d.purged /\ DOMAIN x = DbFields
  BY <1>1 DEF PutVote, DbFields
<1>3. Submitted(g, r) /\ g.logSub = IOId(v, NoLogId)
  BY Runs, SubmittedIs
<1> HIDE DEF x, g
<1>4. ASSUME NEW q, Running(q, d, r, cs, sq), Starts(d, r, cs, q) PROVE Does(x, g, d, r, q)
  <2>1. q[1].io = IOId(v, NoLogId) /\ q[1].base = q[0].base /\ Same(q[1].log, q[0].log, q[0].base)
    BY <1>4 DEF Starts, Link
  <2>2. Agrees(d.log, q[0].log, q[0].base)
    BY <1>4 DEF Running
  <2>3. Agrees(x.log, q[1].log, q[1].base)
    BY <1>2, <2>1, <2>2 DEF Agrees, Same
  <2>4. q[1].io.vote = v
    BY <2>1 DEF IOId
  <2> QED BY <1>1, <1>2, <1>3, <2>1, <2>3, <2>4 DEF Does
<1> QED BY <1>1, <1>2, <1>3, <1>4, RunKeeps DEF x, g

\* The log is truncated.
LEMMA TruncateLogKeeps ==
  ASSUME setting \in Settings, NEW d, NEW r, NEW cs, NEW sq, NEW b, NEW s, NEW bs, NEW ns,
         Durable(d), Good(d, r, cs, sq, b, s, bs, ns), cs # <<>>, Head(cs).op = "TruncateLog"
  PROVE  LET x == DeleteFrom(d, Head(cs).since)
         IN Durable(x) /\ Good(x, r, Tail(cs), sq, b, s, bs, ns)
<1> DEFINE since == Head(cs).since
           x == DeleteFrom(d, since)
<1>1. DOMAIN d = DbFields /\ Bounded(d.log) /\ d.purged.index \in 0..d.snap.index
  BY DEF Durable
<1>2. x.log = [i \in {j \in DOMAIN d.log : j < since} |-> d.log[i]] /\ x.snap = d.snap
      /\ x.vote = d.vote /\ x.purged = d.purged /\ DOMAIN x = DbFields
  BY <1>1 DEF DeleteFrom, DbFields, Restrict
<1>3. Submitted(r, r)
  BY Runs, SubmittedIs
<1> HIDE DEF x
<1>4. Bounded(x.log)
  BY <1>1, <1>2 DEF Bounded
<1>5. ASSUME NEW q, Running(q, d, r, cs, sq), Starts(d, r, cs, q) PROVE Does(x, r, d, r, q)
  <2>1. /\ since \in Nat /\ q[1].io = q[0].io /\ q[1].base = q[0].base
        /\ \A i \in Nat : i > q[0].base => q[1].log[i] = IF i < since THEN q[0].log[i] ELSE 0
    BY <1>5 DEF Starts, Link
  <2>2. since > r.applySub.index /\ Head(cs) = cs[1]
    <3>1. Head(cs) = cs[1]
      BY Runs, Seqs
    <3> QED BY <1>5, <3>1 DEF Starts, Due
  <2>3. Agrees(d.log, q[0].log, q[0].base) /\ q[0].io = r.logSub /\ d.vote = r.logSub.vote
    BY <1>5 DEF Running
  <2>4. Agrees(x.log, q[1].log, q[1].base)
    BY <1>2, <2>1, <2>3 DEF Agrees
  <2>5. \A i \in Nat : i <= r.applySub.index => i < since
    BY <2>1, <2>2, Runs
  <2> QED BY <1>1, <1>2, <2>1, <2>3, <2>4, <2>5 DEF Does
<1> QED BY <1>2, <1>3, <1>4, <1>5, RunKeeps DEF x

\* Log IOs are marked as submitted when there is nothing to write.
LEMMA UpdateIOProgressKeeps ==
  ASSUME setting \in Settings, NEW d, NEW r, NEW cs, NEW sq, NEW b, NEW s, NEW bs, NEW ns,
         Durable(d), Good(d, r, cs, sq, b, s, bs, ns), cs # <<>>, Head(cs).op = "UpdateIOProgress"
  PROVE  Good(d, [r EXCEPT !.logSub = Head(cs).io], Tail(cs), sq, b, s, bs, ns)
<1> DEFINE io == Head(cs).io
           g == [r EXCEPT !.logSub = io]
<1>1. DOMAIN d = DbFields /\ Bounded(d.log) /\ d.purged.index \in 0..d.snap.index
  BY DEF Durable
<1>2. Submitted(g, r) /\ g.logSub = io
  BY Runs, SubmittedIs
<1> HIDE DEF g
<1>3. ASSUME NEW q, Running(q, d, r, cs, sq), Starts(d, r, cs, q) PROVE Does(d, g, d, r, q)
  <2>1. /\ io = q[1].io /\ q[1].base = q[0].base /\ Same(q[1].log, q[0].log, q[0].base)
        /\ q[1].io.vote = q[0].io.vote
    BY <1>3 DEF Starts, Link
  <2>2. Agrees(d.log, q[0].log, q[0].base) /\ q[0].io = r.logSub /\ d.vote = r.logSub.vote
    BY <1>3 DEF Running
  <2>3. Agrees(d.log, q[1].log, q[1].base)
    BY <2>1, <2>2 DEF Agrees, Same
  <2> QED BY <1>1, <1>2, <2>1, <2>2, <2>3 DEF Does
<1> QED BY <1>1, <1>2, <1>3, RunKeeps DEF g

\* Logs a snapshot has are purged.
LEMMA PurgeLogKeeps ==
  ASSUME setting \in Settings, NEW d, NEW r, NEW cs, NEW sq, NEW b, NEW s, NEW bs, NEW ns,
         Durable(d), Good(d, r, cs, sq, b, s, bs, ns), cs # <<>>, Head(cs).op = "PurgeLog",
         ~ LogIdLt(r.snapFlushed, Head(cs).upto)
  PROVE  LET x == PurgeRange(d, Head(cs).upto)
         IN Durable(x) /\ Good(x, r, Tail(cs), sq, b, s, bs, ns)
<1> DEFINE upto == Head(cs).upto
           x == PurgeRange(d, upto)
<1>1. DOMAIN d = DbFields /\ Bounded(d.log) /\ d.purged.index \in 0..d.snap.index
  BY DEF Durable
<1>2. x.log = [i \in {j \in DOMAIN d.log : j > upto.index} |-> d.log[i]] /\ x.snap = d.snap
      /\ x.vote = d.vote /\ x.purged = upto /\ DOMAIN x = DbFields
  BY <1>1 DEF PurgeRange, DeleteUpto, PutPurged, DbFields, Restrict
<1>3. Submitted(r, r)
  BY Runs, SubmittedIs
<1> HIDE DEF x
<1>4. Bounded(x.log)
  BY <1>1, <1>2 DEF Bounded
<1>5. ASSUME NEW q, Running(q, d, r, cs, sq), Starts(d, r, cs, q) PROVE Does(x, r, d, r, q)
  <2>1. /\ upto.index \in 0..q[0].base /\ q[1].io = q[0].io /\ q[1].base = q[0].base
        /\ Same(q[1].log, q[0].log, q[0].base) /\ d.snap.index = q[0].base
    BY <1>5 DEF Starts, Link
  <2>2. Agrees(d.log, q[0].log, q[0].base) /\ q[0].io = r.logSub /\ d.vote = r.logSub.vote
    BY <1>5 DEF Running
  <2>3. d.snap.index \in Nat
    BY Stored
  <2>4. \A i \in Nat : d.snap.index < i => i > upto.index
    BY <2>1, <2>3
  <2>5. Agrees(x.log, q[1].log, q[1].base)
    BY <1>2, <2>1, <2>2, <2>4 DEF Agrees, Same
  <2> QED BY <1>1, <1>2, <2>1, <2>2, <2>4, <2>5 DEF Does
<1> QED BY <1>2, <1>3, <1>4, <1>5, RunKeeps DEF x

\* Entries of the leader are written.
LEMMA AppendEntriesKeeps ==
  ASSUME setting \in Settings, NEW d, NEW r, NEW cs, NEW sq, NEW b, NEW s, NEW bs, NEW ns,
         Durable(d), Good(d, r, cs, sq, b, s, bs, ns), cs # <<>>, Head(cs).op = "AppendEntries"
  PROVE  LET c  == Head(cs)
             io == IOId(c.vote, [term |-> c.es[Len(c.es)], index |-> c.base + Len(c.es)])
             x  == PutEntries(d, c.base, c.es, Len(c.es))
             g  == [r EXCEPT !.logSub = io]
         IN Durable(x) /\ Good(x, g, Tail(cs), sq, b, s, bs, ns)
<1> DEFINE c  == Head(cs)
           n  == Len(c.es)
           io == IOId(c.vote, [term |-> c.es[n], index |-> c.base + n])
           x  == PutEntries(d, c.base, c.es, n)
           g  == [r EXCEPT !.logSub = io]
<1>1. DOMAIN d = DbFields /\ Bounded(d.log) /\ d.purged.index \in 0..d.snap.index
  BY DEF Durable
<1>2. x.log = [i \in DOMAIN d.log \cup (c.base + 1)..(c.base + n) |->
                 IF i \in (c.base + 1)..(c.base + n) THEN c.es[i - c.base] ELSE d.log[i]]
      /\ x.snap = d.snap /\ x.vote = d.vote /\ x.purged = d.purged /\ DOMAIN x = DbFields
  BY <1>1 DEF PutEntries, DbFields
<1>3. Submitted(g, r) /\ g.logSub = io
  BY Runs, SubmittedIs
<1> HIDE DEF x, g, io, n, c
<1>4. ASSUME NEW q, Running(q, d, r, cs, sq), Starts(d, r, cs, q)
      PROVE  /\ c.base \in Nat /\ n \in Nat /\ io = q[1].io
             /\ \A i \in (c.base + 1)..(c.base + n) :
                  c.es[i - c.base] = LeaderLog[c.vote][i]
             /\ c.vote = q[0].io.vote /\ c.vote = q[1].io.vote /\ c.vote \in Term /\ q[1].base = q[0].base
             /\ \A i \in Nat : i > q[0].base =>
                  q[1].log[i] = IF i > c.base /\ i <= c.base + n THEN LeaderLog[c.vote][i] ELSE q[0].log[i]
             /\ c.base + n <= Own(c.vote)
  <2> DEFINE v   == c.vote
             top == q[1].io.id.index
  <2>1. /\ v = q[0].io.vote /\ v \in Term /\ c.base \in Nat /\ c.base < top
        /\ c.es = SubSeq(LeaderLog[v], c.base + 1, top) /\ q[1].io.vote = v /\ q[1].base = q[0].base
        /\ \A i \in Nat : i > q[0].base => q[1].log[i] = IF i > c.base /\ i <= top
                                                        THEN LeaderLog[v][i] ELSE q[0].log[i]
        /\ q[1].io \in LogIO
    <3>1. Link(c, q[0], q[1]) /\ q[1] \in Disk /\ c.op = "AppendEntries"
      BY <1>4 DEF Starts, c
    <3> QED BY <3>1 DEF Link, Disk
  <2>2. top \in Nat /\ top <= Own(v) /\ q[1].io = IOId(v, IdOf(v, top)) /\ Own(v) \in Nat
    <3>1. top \in 0..Own(v) /\ q[1].io = IOId(v, IdOf(v, top))
      BY <2>1, IOs
    <3>2. Own(v) \in Nat
      BY <2>1, Terms
    <3> QED BY <3>1, <3>2
  <2>3. LeaderLog[v] \in Seq(Nat) /\ Len(LeaderLog[v]) = Own(v)
    BY <2>1, Logs, Commits, Terms
  <2> DEFINE Lg == LeaderLog[v]
  <2> HIDE DEF v, top, Lg
  <2>4. n = top - c.base /\ \A k \in 1..(top - c.base) : c.es[k] = Lg[c.base + k]
    <3>1. c.es = SubSeq(Lg, c.base + 1, top)
      BY <2>1 DEF Lg
    <3>2. Lg \in Seq(Nat) /\ top <= Len(Lg)
      BY <2>2, <2>3 DEF Lg
    <3> DEFINE lo == c.base
               es == c.es
    <3>3. lo \in Nat /\ lo < top /\ top \in Nat /\ es = SubSeq(Lg, lo + 1, top)
      BY <2>1, <2>2, <3>1
    <3> HIDE DEF lo, es
    <3>4. Len(es) = top - lo /\ \A k \in 1..(top - lo) : es[k] = Lg[lo + k]
      BY <3>2, <3>3
    <3> QED BY <3>4 DEF n, lo, es
  <2>5. n \in Nat /\ c.base + n = top /\ n >= 1
    BY <2>1, <2>2, <2>4
  <2>6. \A i \in (c.base + 1)..(c.base + n) : c.es[i - c.base] = Lg[i]
    <3>1. ASSUME NEW i \in (c.base + 1)..(c.base + n) PROVE c.es[i - c.base] = Lg[i]
      <4>1. i - c.base \in 1..(top - c.base) /\ c.base + (i - c.base) = i
        BY <2>1, <2>2, <2>4, <2>5
      <4> QED BY <2>4, <4>1
    <3> QED BY <3>1
  <2>7. io = IOId(v, IdOf(v, top))
    <3>1. c.es[n] = Lg[top]
      BY <2>1, <2>2, <2>4, <2>5
    <3>2. top # 0
      BY <2>1, <2>2
    <3>3. IdOf(v, top) = [term |-> Lg[top], index |-> top]
      BY <3>2 DEF IdOf, Lg
    <3>4. io = IOId(v, [term |-> c.es[n], index |-> c.base + n])
      BY DEF io, v
    <3> QED BY <2>5, <3>1, <3>3, <3>4
  <2> QED BY <2>1, <2>2, <2>5, <2>6, <2>7 DEF v, Lg
<1>5. PICK k : Running(k, d, r, cs, sq) /\ Starts(d, r, cs, k)
  <2>1. PICK k : Running(k, d, r, cs, sq)
    BY DEF Good
  <2> DEFINE e == [rs |-> r, cmds |-> cs]
  <2>2. EngineOK(e, k) /\ e.cmds = cs /\ e.rs = r
    BY <2>1 DEF Running
  <2> HIDE DEF e
  <2>3. Loose(cs, k, r.applySub.index) /\ IsSeq(cs)
    BY <2>2 DEF EngineOK, Loose
  <2>4. 1 \in 1..Len(cs) /\ 1 \in 0..Len(cs) /\ 0 \in 0..Len(cs) /\ 1 - 1 = 0 /\ Head(cs) = cs[1]
    BY <2>3, Seqs
  <2>5. Link(Head(cs), k[0], k[1]) /\ Due(cs, k, 1, r.applySub.index) /\ k[0] \in Disk /\ k[1] \in Disk
    BY <2>3, <2>4 DEF Loose
  <2>6. d.snap.index = k[0].base
    <3>1. r.snapFlushed \in Upto(MaxTerm) /\ r.snapFlushed.index <= d.snap.index
      BY DEF Good, Working
    <3> QED BY <2>1, <3>1, NotSent
  <2> QED BY <2>1, <2>5, <2>6 DEF Starts
<1>6. Bounded(x.log)
  <2>1. c.base \in Nat /\ n \in Nat
    BY <1>4, <1>5
  <2>2. PICK u \in Nat : \A i \in DOMAIN d.log : i <= u
    BY <1>1 DEF Bounded
  <2>3. DOMAIN x.log = DOMAIN d.log \cup (c.base + 1)..(c.base + n) /\ DOMAIN d.log \subseteq Nat
    BY <1>1, <1>2 DEF Bounded
  <2>4. \A i \in DOMAIN x.log : i \in Nat /\ i <= u + c.base + n
    BY <2>1, <2>2, <2>3
  <2>5. u + c.base + n \in Nat
    BY <2>1
  <2> QED BY <2>4, <2>5 DEF Bounded
<1>7. ASSUME NEW q, Running(q, d, r, cs, sq), Starts(d, r, cs, q) PROVE Does(x, g, d, r, q)
  <2>1. /\ c.base \in Nat /\ n \in Nat /\ io = q[1].io
        /\ \A i \in (c.base + 1)..(c.base + n) : c.es[i - c.base] = LeaderLog[c.vote][i]
        /\ c.vote = q[0].io.vote /\ c.vote = q[1].io.vote /\ c.vote \in Term /\ q[1].base = q[0].base
        /\ \A i \in Nat : i > q[0].base =>
             q[1].log[i] = IF i > c.base /\ i <= c.base + n THEN LeaderLog[c.vote][i] ELSE q[0].log[i]
        /\ c.base + n <= Own(c.vote)
    BY <1>4, <1>7
  <2>2. Agrees(d.log, q[0].log, q[0].base) /\ q[0].io = r.logSub /\ d.vote = r.logSub.vote
    BY <1>7 DEF Running
  <2>3. Own(c.vote) \in Nat /\ c.vote \in Vote
        /\ \A i \in 1..Own(c.vote) : LeaderLog[c.vote][i] # 0
    BY <2>1, Terms
  <2> DEFINE new == (c.base + 1)..(c.base + n)
             Lg == LeaderLog[c.vote]
  <2>4. \A i \in Nat : i \in new <=> i > c.base /\ i <= c.base + n
    BY <2>1
  <2>5. \A i \in new : x.log[i] = Lg[i] /\ i \in DOMAIN x.log /\ Lg[i] # 0
    <3>1. \A i \in new : x.log[i] = Lg[i] /\ i \in DOMAIN x.log
      BY <1>2, <2>1
    <3>2. \A i \in new : i \in 1..Own(c.vote)
      BY <2>1, <2>3
    <3> QED BY <2>3, <3>1, <3>2
  <2>6. \A i \in Nat : i \notin new => /\ i \in DOMAIN x.log <=> i \in DOMAIN d.log
                                       /\ i \in DOMAIN x.log => x.log[i] = d.log[i]
    BY <1>2
  <2>7. \A i \in Nat : i > q[0].base => q[1].log[i] = IF i \in new THEN Lg[i] ELSE q[0].log[i]
    BY <2>1, <2>4
  <2> HIDE DEF new, Lg
  <2>8. Agrees(x.log, q[1].log, q[1].base)
    <3> DEFINE M == q[1].log
               L == q[0].log
               u == q[0].base
    <3>1. \A i \in Nat : i > u => M[i] = IF i \in new THEN Lg[i] ELSE L[i]
      BY <2>7
    <3>2. Agrees(d.log, L, u)
      BY <2>2
    <3> HIDE DEF M, L, u
    <3>3. Agrees(x.log, M, u)
      <4>1. ASSUME NEW i \in Nat, i > u
            PROVE  (i \in DOMAIN x.log <=> M[i] # 0) /\ (i \in DOMAIN x.log => x.log[i] = M[i])
        <5>1. (i \in DOMAIN d.log <=> L[i] # 0) /\ (i \in DOMAIN d.log => d.log[i] = L[i])
          BY <3>2, <4>1 DEF Agrees
        <5>2. CASE i \in new
          <6>1. x.log[i] = Lg[i] /\ i \in DOMAIN x.log /\ Lg[i] # 0
            BY <2>5, <5>2
          <6>2. M[i] = Lg[i]
            BY <3>1, <4>1, <5>2
          <6> QED BY <6>1, <6>2
        <5>3. CASE i \notin new
          <6>1. (i \in DOMAIN x.log <=> i \in DOMAIN d.log) /\ (i \in DOMAIN x.log => x.log[i] = d.log[i])
            BY <2>6, <4>1, <5>3
          <6>2. M[i] = L[i]
            BY <3>1, <4>1, <5>3
          <6> QED BY <5>1, <6>1, <6>2
        <5> QED BY <5>2, <5>3
      <4> QED BY <4>1 DEF Agrees
    <3>4. u = q[1].base
      BY <2>1 DEF u
    <3> QED BY <3>3, <3>4 DEF M
  <2>9. ASSUME NEW i \in Nat, d.snap.index < i, i <= r.applySub.index, i \in DOMAIN d.log, d.log[i] = Chosen[i]
        PROVE  i \in DOMAIN x.log /\ x.log[i] = Chosen[i]
    <3>1. CASE i \notin new
      BY <2>6, <2>9, <3>1
    <3>2. CASE i \in new
      <4>1. i \in 1..Com(c.vote)
        <5>1. r.applySub \in Upto(c.vote)
          <6>1. r.applySub \in Upto(r.logSub.vote)
            BY DEF Good, Working
          <6>2. c.vote = r.logSub.vote
            BY <2>1, <2>2
          <6> QED BY <6>1, <6>2
        <5>2. r.applySub.index \in 0..Com(c.vote) /\ Com(c.vote) \in Nat
          BY <2>3, <5>1, ChosenIds, Commits
        <5>3. i > 0
          BY <2>9, Stored
        <5> QED BY <2>9, <5>2, <5>3
      <4>2. Chosen[i] = Lg[i]
        BY <2>3, <4>1, Commits DEF Lg
      <4> QED BY <2>5, <3>2, <4>2
    <3> QED BY <3>1, <3>2
  <2> QED BY <1>1, <1>2, <1>3, <2>1, <2>2, <2>8, <2>9 DEF Does
<1>8. Head(cs).op # "InstallFullSnapshot" /\ (Head(cs).op = "PurgeLog" => ~ LogIdLt(r.snapFlushed, Head(cs).upto))
  OBVIOUS
<1>9. Durable(x) /\ Good(x, g, Tail(cs), sq, b, s, bs, ns)
  BY <1>2, <1>3, <1>6, <1>7, <1>8, RunKeeps
<1> QED BY <1>9 DEF x, g, io, n, c

(* The queue of the worker.                                                *)

\* A command is sent to the worker.
LEMMA ChainLonger ==
  ASSUME setting \in Settings, NEW p, NEW d, NEW r, NEW sq, NEW b, NEW s, Chain(p, d, r, sq, b, s),
         NEW c, NEW g, NEW top \in Nat, g.applySub.index = top, r.applySub.index <= top,
         Carries(c, d, r.applySub.index, top)
  PROVE  \E f : Chain(f, d, g, Append(sq, c), b, s)
<1> DEFINE N == Len(sq)
           f == [n \in 0..(N + 1) |-> IF n <= N THEN p[n] ELSE top]
           z == Append(sq, c)
<1>1. /\ IsSeq(sq) /\ p \in [0..N -> Nat] /\ p[0] = s.applied.index + Len(b)
      /\ p[N] = r.applySub.index
      /\ \A m, n \in 0..N : m <= n => p[m] <= p[n]
      /\ \A m \in 1..N : Carries(sq[m], d, p[m - 1], p[m])
  BY DEF Chain
<1>2. N \in Nat /\ IsSeq(z) /\ Len(z) = N + 1 /\ z[N + 1] = c /\ \A n \in 1..N : z[n] = sq[n]
  BY <1>1, Seqs
<1>3. f \in [0..(N + 1) -> Nat] /\ f[N + 1] = top /\ \A n \in 0..N : f[n] = p[n] /\ p[n] \in Nat
  BY <1>1, <1>2, SMTT(30)
<1> HIDE DEF f, z, N
<1>4. ASSUME NEW m \in 0..(N + 1), NEW n \in 0..(N + 1), m <= n PROVE f[m] <= f[n]
  <2>1. CASE n \in 0..N
    <3>1. m \in 0..N
      BY <1>2, <1>4, <2>1
    <3> QED BY <1>1, <1>3, <1>4, <2>1, <3>1
  <2>2. CASE n = N + 1 /\ m = N + 1
    BY <1>3, <2>2
  <2>3. CASE n = N + 1 /\ m \in 0..N
    <3>1. N \in 0..N /\ m <= N
      BY <1>2, <2>3
    <3>2. p[m] <= p[N] /\ p[N] <= top /\ p[m] \in Nat /\ p[N] \in Nat
      BY <1>1, <1>3, <2>3, <3>1
    <3>3. p[m] <= top
      BY <3>2
    <3> QED BY <1>3, <2>3, <3>3
  <2> QED BY <1>2, <2>1, <2>2, <2>3
<1>5. ASSUME NEW m \in 1..(N + 1) PROVE Carries(z[m], d, f[m - 1], f[m])
  <2>1. CASE m \in 1..N
    <3>1. m - 1 \in 0..N /\ m \in 0..N
      BY <1>2, <2>1
    <3> QED BY <1>1, <1>2, <1>3, <2>1, <3>1
  <2>2. CASE m = N + 1
    <3>1. m - 1 = N /\ N \in 0..N
      BY <1>2, <2>2
    <3> QED BY <1>1, <1>2, <1>3, <2>2, <3>1
  <2> QED BY <1>2, <2>1, <2>2
<1>6. f[0] = p[0]
  BY <1>2, <1>3
<1> QED BY <1>1, <1>2, <1>3, <1>4, <1>5, <1>6 DEF Chain, z

\* The worker takes a command.
LEMMA ChainShorter ==
  ASSUME setting \in Settings, NEW p, NEW d, NEW r, NEW sq, NEW b, NEW s, Chain(p, d, r, sq, b, s),
         sq # <<>>, NEW t, NEW a, NEW x, x.log = d.log, t.applied.index + Len(a) = p[1]
  PROVE  /\ Chain([n \in 0..(Len(sq) - 1) |-> p[n + 1]], x, r, Tail(sq), a, t)
         /\ Carries(Head(sq), d, p[0], p[1]) /\ p[0] = s.applied.index + Len(b)
         /\ p[0] \in Nat /\ p[1] \in Nat /\ p[0] <= p[1] /\ p[1] <= r.applySub.index /\ Len(sq) \in Nat
<1> DEFINE N == Len(sq)
           f == [n \in 0..(N - 1) |-> p[n + 1]]
           z == Tail(sq)
<1>1. /\ IsSeq(sq) /\ p \in [0..N -> Nat] /\ p[0] = s.applied.index + Len(b)
      /\ p[N] = r.applySub.index
      /\ \A m, n \in 0..N : m <= n => p[m] <= p[n]
      /\ \A m \in 1..N : Carries(sq[m], d, p[m - 1], p[m])
  BY DEF Chain
<1>2. N \in Nat /\ N >= 1 /\ IsSeq(z) /\ Len(z) = N - 1 /\ Head(sq) = sq[1] /\ \A n \in 1..(N - 1) : z[n] = sq[n + 1]
  BY <1>1, Seqs
<1>3. \A n \in 0..(N - 1) : f[n] = p[n + 1] /\ n + 1 \in 0..N /\ p[n + 1] \in Nat
  BY <1>1, <1>2
<1>4. f \in [0..(N - 1) -> Nat]
  BY <1>3
<1> HIDE DEF f, z, N
<1>5. ASSUME NEW m \in 0..(N - 1), NEW n \in 0..(N - 1), m <= n PROVE f[m] <= f[n]
  <2>1. m + 1 \in 0..N /\ n + 1 \in 0..N /\ m + 1 <= n + 1
    BY <1>2, <1>5
  <2> QED BY <1>1, <1>3, <2>1
<1>6. ASSUME NEW m \in 1..(N - 1) PROVE Carries(z[m], x, f[m - 1], f[m])
  <2>1. m + 1 \in 1..N /\ (m + 1) - 1 = m /\ m - 1 \in 0..(N - 1) /\ m \in 0..(N - 1) /\ (m - 1) + 1 = m
    BY <1>2
  <2>2. Carries(sq[m + 1], d, p[m], p[m + 1])
    BY <1>1, <2>1
  <2>3. Carries(z[m], d, f[m - 1], f[m])
    BY <1>2, <1>3, <2>1, <2>2
  <2> QED BY <2>3 DEF Carries
<1>7. f[0] = p[1] /\ f[N - 1] = p[N]
  <2>1. 0 \in 0..(N - 1) /\ N - 1 \in 0..(N - 1) /\ 0 + 1 = 1 /\ (N - 1) + 1 = N
    BY <1>2
  <2> QED BY <1>3, <2>1
<1>8. Chain(f, x, r, z, a, t)
  BY <1>1, <1>2, <1>4, <1>5, <1>6, <1>7 DEF Chain
<1>9. Carries(Head(sq), d, p[0], p[1]) /\ p[0] \in Nat /\ p[1] \in Nat /\ p[0] <= p[1] /\ p[1] <= p[N]
  <2>1. 1 \in 1..N /\ 1 - 1 = 0 /\ 0 \in 0..N /\ 1 \in 0..N /\ N \in 0..N /\ 0 <= 1 /\ 1 <= N
    BY <1>2
  <2> QED BY <1>1, <1>2, <2>1
<1> QED BY <1>1, <1>2, <1>8, <1>9 DEF f, z, N

\* More is submitted to the state machine, up to where the queue starts.
LEMMA Resubmit ==
  ASSUME setting \in Settings, NEW cs, NEW q, NEW sub, Loose(cs, q, sub), NEW top \in Nat, top <= q[0].base
  PROVE  Loose(cs, q, top)
<1>1. /\ IsSeq(cs) /\ q \in [0..Len(cs) -> Disk]
      /\ \A n \in 0..Len(cs) : 0 <= n => q[0].base <= q[n].base
  BY Seqs DEF Loose
<1>2. Len(cs) \in Nat /\ \A n \in 0..Len(cs) : q[n].base \in Nat
  BY <1>1, Seqs DEF Disk
<1>3. ASSUME NEW n \in 1..Len(cs) PROVE Due(cs, q, n, top)
  <2>1. Link(cs[n], q[n - 1], q[n]) /\ Due(cs, q, n, sub)
    BY DEF Loose
  <2>2. n - 1 \in 0..Len(cs) /\ 0 <= n - 1 /\ n \in 0..Len(cs) /\ 0 \in 0..Len(cs)
    BY <1>2
  <2>3. top <= q[n - 1].base /\ q[n - 1].base \in Nat /\ q[n].base \in Nat
    <3>1. q[0].base <= q[n - 1].base /\ q[0].base \in Nat /\ q[n - 1].base \in Nat
      BY <1>1, <1>2, <2>2
    <3> QED BY <1>2, <2>2, <3>1
  <2>4. cs[n].op = "TruncateLog" => cs[n].since > top
    <3>1. cs[n].op = "TruncateLog" => cs[n].since \in Nat /\ cs[n].since > q[n - 1].base
      BY <2>1 DEF Link
    <3> QED BY <2>3, <3>1
  <2>5. cs[n].op = "InstallFullSnapshot" => cs[n].snap.snap.index > top
    <3>1. cs[n].op = "InstallFullSnapshot" => q[n].base = cs[n].snap.snap.index /\ q[n - 1].base < q[n].base
      BY <2>1 DEF Link
    <3> QED BY <2>3, <3>1
  <2> QED BY <2>1, <2>4, <2>5 DEF Due
<1> QED BY <1>3 DEF Loose

\* A build is sent to the worker.
LEMMA BuildSent ==
  ASSUME setting \in Settings, NEW d, NEW r, NEW cs, NEW sq, NEW b, NEW s, NEW bs, NEW ns,
         Durable(d), Good(d, r, cs, sq, b, s, bs, ns), cs # <<>>, Head(cs).op = "BuildSnapshot"
  PROVE  Good(d, r, Tail(cs), Append(sq, Head(cs)), b, s, bs, ns)
<1> DEFINE c == Head(cs)
           z == Append(sq, c)
<1>1. DOMAIN d = DbFields /\ Bounded(d.log) /\ d.purged.index \in 0..d.snap.index
  BY DEF Durable
<1>2. Submitted(r, r)
  BY Runs, SubmittedIs
<1>3. ASSUME NEW q, Running(q, d, r, cs, sq), Starts(d, r, cs, q)
      PROVE  Does(d, r, d, r, q) /\ setting.installs = "none"
  <2>1. /\ q[1].io = q[0].io /\ q[1].base = q[0].base /\ Same(q[1].log, q[0].log, q[0].base)
        /\ setting.installs = "none"
    BY <1>3 DEF Starts, Link
  <2>2. Agrees(d.log, q[0].log, q[0].base) /\ q[0].io = r.logSub /\ d.vote = r.logSub.vote
    BY <1>3 DEF Running
  <2>3. Agrees(d.log, q[1].log, q[1].base)
    BY <2>1, <2>2 DEF Agrees, Same
  <2> QED BY <1>1, <2>1, <2>2, <2>3 DEF Does
<1>4. Good(d, r, Tail(cs), sq, b, s, bs, ns)
  BY <1>1, <1>2, <1>3, RunKeeps
<1>5. setting.installs = "none"
  <2>1. PICK k : Running(k, d, r, cs, sq)
    BY DEF Good
  <2> DEFINE e == [rs |-> r, cmds |-> cs]
  <2>2. EngineOK(e, k) /\ e.cmds = cs /\ e.rs = r
    BY <2>1 DEF Running
  <2> HIDE DEF e
  <2>3. Loose(cs, k, r.applySub.index) /\ IsSeq(cs)
    BY <2>2 DEF EngineOK, Loose
  <2>4. 1 \in 1..Len(cs) /\ 1 - 1 = 0 /\ Head(cs) = cs[1]
    BY <2>3, Seqs
  <2>5. Link(Head(cs), k[0], k[1])
    BY <2>3, <2>4 DEF Loose
  <2> QED BY <2>5 DEF Link
<1>6. c.op = "BuildSnapshot"
  OBVIOUS
<1> HIDE DEF c
<1>7. \E f : Chain(f, d, r, z, b, s)
  <2>1. PICK p : Chain(p, d, r, sq, b, s)
    BY DEF Good
  <2>2. Carries(c, d, r.applySub.index, r.applySub.index)
    BY <1>5, <1>6 DEF Carries
  <2>3. r.applySub.index \in Nat /\ r.applySub.index <= r.applySub.index
    BY Runs
  <2> QED BY <2>1, <2>2, <2>3, ChainLonger
<1>8. \E q : Running(q, d, r, Tail(cs), z)
  <2>1. PICK q : Running(q, d, r, Tail(cs), sq)
    BY <1>4 DEF Good
  <2>2. ASSUME NEW m \in 1..Len(z) PROVE z[m].op # "InstallFullSnapshot"
    <3>1. IsSeq(sq)
      BY Runs
    <3>2. Len(sq) \in Nat /\ Len(z) = Len(sq) + 1 /\ z[Len(sq) + 1] = c /\ \A n \in 1..Len(sq) : z[n] = sq[n]
      BY <3>1, Seqs
    <3>3. PICK p : Chain(p, d, r, sq, b, s)
      BY DEF Good
    <3>4. \A n \in 1..Len(sq) : sq[n].op # "InstallFullSnapshot"
      BY <1>5, <3>3 DEF Chain, Carries
    <3>5. m \in 1..Len(sq) \/ m = Len(sq) + 1
      BY <3>2
    <3> QED BY <1>6, <3>2, <3>4, <3>5
  <2>3. \A m \in 1..Len(sq) : sq[m].op # "InstallFullSnapshot"
    <3>3. PICK p : Chain(p, d, r, sq, b, s)
      BY DEF Good
    <3> QED BY <1>5, <3>3 DEF Chain, Carries
  <2>4. Sent(q, d, Tail(cs), z)
    BY <2>1, <2>2, <2>3 DEF Running, Sent
  <2> QED BY <2>1, <2>4 DEF Running
<1> QED BY <1>4, <1>7, <1>8 DEF Good, c

\* The first command of a queue that is running.
LEMMA First ==
  ASSUME setting \in Settings, NEW d, NEW r, NEW cs, NEW sq, NEW b, NEW s, NEW bs, NEW ns,
         Durable(d), Good(d, r, cs, sq, b, s, bs, ns),
         cs # <<>>, Head(cs).op = "PurgeLog" => ~ LogIdLt(r.snapFlushed, Head(cs).upto),
         NEW q, Running(q, d, r, cs, sq)
  PROVE  /\ Starts(d, r, cs, q) /\ ~ \E m \in 1..Len(sq) : sq[m].op = "InstallFullSnapshot"
         /\ Head(cs) = cs[1] /\ Len(cs) \in Nat /\ Len(cs) >= 1 /\ IsSeq(Tail(cs)) /\ Len(Tail(cs)) = Len(cs) - 1
         /\ \A n \in 1..(Len(cs) - 1) : Tail(cs)[n] = cs[n + 1]
         /\ Loose(cs, q, r.applySub.index) /\ Closed(cs, q) /\ Accepted(r, q[Len(cs)])
<1> DEFINE e == [rs |-> r, cmds |-> cs]
<1>1. EngineOK(e, q) /\ e.cmds = cs /\ e.rs = r
  BY DEF Running
<1> HIDE DEF e
<1>2. Loose(cs, q, r.applySub.index) /\ IsSeq(cs) /\ Closed(cs, q) /\ Accepted(r, q[Len(cs)])
  BY <1>1 DEF EngineOK, Loose
<1>3. /\ Head(cs) = cs[1] /\ Len(cs) \in Nat /\ Len(cs) >= 1 /\ IsSeq(Tail(cs)) /\ Len(Tail(cs)) = Len(cs) - 1
      /\ \A n \in 1..(Len(cs) - 1) : Tail(cs)[n] = cs[n + 1]
  BY <1>2, Seqs
<1>4. 1 \in 1..Len(cs) /\ 1 \in 0..Len(cs) /\ 0 \in 0..Len(cs) /\ 1 - 1 = 0
  BY <1>3
<1>5. Link(Head(cs), q[0], q[1]) /\ Due(cs, q, 1, r.applySub.index) /\ q[0] \in Disk /\ q[1] \in Disk
  BY <1>2, <1>3, <1>4 DEF Loose
<1>6. d.snap.index = q[0].base /\ ~ \E m \in 1..Len(sq) : sq[m].op = "InstallFullSnapshot"
  <2>1. r.snapFlushed \in Upto(MaxTerm) /\ r.snapFlushed.index <= d.snap.index
    BY DEF Good, Working
  <2> QED BY <2>1, NotSent
<1> QED BY <1>2, <1>3, <1>5, <1>6 DEF Starts

\* An install is sent to the worker.
LEMMA InstallSent ==
  ASSUME setting \in Settings, NEW d, NEW r, NEW cs, NEW sq, NEW b, NEW s, NEW bs, NEW ns,
         Durable(d), Good(d, r, cs, sq, b, s, bs, ns), cs # <<>>, Head(cs).op = "InstallFullSnapshot"
  PROVE  LET c == Head(cs)
             g == [r EXCEPT !.logSub = c.io, !.applySub = c.snap.snap]
         IN Good(d, g, Tail(cs), Append(sq, c), b, s, bs, ns)
<1> DEFINE c   == Head(cs)
           g   == [r EXCEPT !.logSub = c.io, !.applySub = c.snap.snap]
           z   == Append(sq, c)
           h   == [rs |-> g, cmds |-> Tail(cs)]
           N   == Len(cs)
           top == c.snap.snap.index
<1>1. PICK q : Running(q, d, r, cs, sq)
  BY DEF Good
<1>2. /\ Starts(d, r, cs, q) /\ ~ \E m \in 1..Len(sq) : sq[m].op = "InstallFullSnapshot"
      /\ c = cs[1] /\ N \in Nat /\ N >= 1 /\ Len(Tail(cs)) = N - 1 /\ IsSeq(Tail(cs))
      /\ \A n \in 1..(N - 1) : Tail(cs)[n] = cs[n + 1]
      /\ Loose(cs, q, r.applySub.index) /\ Closed(cs, q) /\ Accepted(r, q[N])
  BY <1>1, First
<1>3. DOMAIN r = RsFields /\ r.applySub.index \in Nat /\ IsSeq(sq)
  BY Runs
<1>4. /\ DOMAIN g = RsFields /\ g.logSub = c.io /\ g.applySub = c.snap.snap
      /\ g.logAcc = r.logAcc /\ g.clusterCommitted = r.clusterCommitted
      /\ g.applyAcc = r.applyAcc /\ g.snapFlushed = r.snapFlushed
      /\ g.vote = r.vote /\ g.purged = r.purged /\ g.ids = r.ids /\ g.snap = r.snap /\ g.triedAt = r.triedAt
  BY <1>3 DEF RsFields
<1>5. h.rs = g /\ h.cmds = Tail(cs) /\ h = [rs |-> h.rs, cmds |-> h.cmds]
  OBVIOUS
<1>6. c.op = "InstallFullSnapshot"
  OBVIOUS
<1> HIDE DEF c, g, h, z, N, top
<1>7. /\ setting.installs # "none" /\ c.snap.snap \in Upto(c.io.vote) /\ c.snap.snap = c.io.id
      /\ c.io = q[1].io /\ q[1].io.vote = q[0].io.vote /\ q[0].base < q[1].base /\ q[1].base = top
      /\ Same(q[1].log, q[0].log, q[1].base)
  <2>1. Link(c, q[0], q[1])
    BY <1>2 DEF Starts, c
  <2> QED BY <1>6, <2>1 DEF Link, top
<1>8. top > r.applySub.index
  <2>1. Due(cs, q, 1, r.applySub.index)
    BY <1>2 DEF Starts
  <2> QED BY <1>2, <1>6, <2>1 DEF Due, top
<1>9. d.snap.index = q[0].base /\ q[0] \in Disk /\ q[1] \in Disk
  BY <1>2 DEF Starts
<1>10. q[0].base \in Nat /\ top \in Nat /\ q[1].io \in LogIO /\ q[1].io.vote \in Vote
  <2>1. q[0].base \in Nat /\ q[1].base \in Nat /\ q[1].io \in LogIO
    BY <1>9 DEF Disk
  <2> QED BY <1>7, <2>1, IOs
<1>11. c.snap.snap = ChosenId(top)
  BY <1>7, <1>10, ChosenIds DEF top
<1>12. N >= 2 /\ cs[2].op = "PurgeLog" /\ cs[2].upto = c.snap.snap
  <2>1. N # 1
    <3>1. cs[N].op # "InstallFullSnapshot"
      BY <1>2, Zenon DEF Closed, N
    <3> QED BY <1>2, <1>6, <3>1
  <2>2. 1 \in 1..(N - 1) /\ 1 + 1 = 2 /\ N >= 2
    BY <1>2, <2>1
  <2>3. \A n \in 1..(N - 1) : cs[n].op = "InstallFullSnapshot" =>
           cs[n + 1].op = "PurgeLog" /\ cs[n + 1].upto = cs[n].snap.snap
    BY <1>2 DEF Loose, N
  <2> QED BY <1>2, <1>6, <2>2, <2>3
<1>13. Tail(cs) # <<>> /\ Head(Tail(cs)) = cs[2]
  <2>1. Len(Tail(cs)) >= 1 /\ 1 \in 1..(N - 1) /\ 1 + 1 = 2
    BY <1>2, <1>12
  <2>2. Tail(cs) # <<>>
    <3>1. Len(<<>>) = 0
      BY Seqs
    <3> QED BY <2>1, <3>1
  <2>3. Head(Tail(cs)) = Tail(cs)[1]
    BY <1>2, <2>2, Seqs
  <2> QED BY <1>2, <2>1, <2>2, <2>3
<1>14. PICK f : /\ Loose(Tail(cs), f, r.applySub.index) /\ (Closed(cs, q) => Closed(Tail(cs), f))
                /\ f[0] = q[1] /\ f[Len(Tail(cs))] = q[N]
  BY <1>2, Shift DEF N
<1>15. Loose(Tail(cs), f, top)
  <2>1. top <= f[0].base
    BY <1>7, <1>10, <1>14
  <2> QED BY <1>10, <1>14, <2>1, Resubmit
<1>16. Accepted(g, q[N])
  BY <1>2, <1>4 DEF Accepted
<1>17. EngineOK(h, f)
  BY <1>2, <1>4, <1>5, <1>14, <1>15, <1>16 DEF EngineOK, top
<1>18. /\ IsSeq(z) /\ Len(z) = Len(sq) + 1 /\ Len(sq) \in Nat /\ z[Len(sq) + 1] = c
       /\ \A n \in 1..Len(sq) : z[n] = sq[n]
  BY <1>3, Seqs DEF z
<1>19. Sent(f, d, Tail(cs), z)
  <2>1. \A m \in 1..Len(z) : m \in 1..Len(sq) \/ m = Len(sq) + 1
    BY <1>18
  <2>2. \A m \in 1..Len(z) : z[m].op = "InstallFullSnapshot" => z[m] = c
    BY <1>2, <1>18, <2>1
  <2>3. Len(sq) + 1 \in 1..Len(z)
    BY <1>18
  <2>4. \E m \in 1..Len(z) : z[m].op = "InstallFullSnapshot"
    BY <1>6, <1>18, <2>3
  <2>5. d.snap.index < f[0].base /\ f[0].base = top
    BY <1>7, <1>9, <1>10, <1>14
  <2>6. Head(Tail(cs)).op = "PurgeLog" /\ Head(Tail(cs)).upto = ChosenId(f[0].base)
    BY <1>11, <1>12, <1>13, <2>5
  <2>7. \A m \in 1..Len(z) : z[m].op = "InstallFullSnapshot" => z[m].snap.snap.index = f[0].base
    BY <2>2, <2>5 DEF top
  <2> QED BY <1>13, <2>4, <2>5, <2>6, <2>7 DEF Sent
<1>20. Running(f, d, g, Tail(cs), z)
  <2>1. q[0].io = r.logSub /\ d.vote = r.logSub.vote /\ Agrees(d.log, q[0].log, q[0].base)
    BY <1>1 DEF Running
  <2>2. f[0].io = g.logSub /\ d.vote = g.logSub.vote
    BY <1>4, <1>7, <1>14, <2>1
  <2>3. Agrees(d.log, f[0].log, f[0].base)
    <3>1. \A i \in Nat : i > q[1].base => i > q[0].base
      BY <1>7, <1>10
    <3>2. Agrees(d.log, q[1].log, q[1].base)
      BY <1>7, <2>1, <3>1 DEF Agrees, Same
    <3> QED BY <1>14, <3>2
  <2>4. f[0].base <= g.applySub.index
    BY <1>4, <1>7, <1>10, <1>14 DEF top
  <2> QED BY <1>17, <1>19, <2>2, <2>3, <2>4 DEF Running, h
<1>21. Working(d, g, b, s, bs, ns)
  <2>1. top <= r.applyAcc.index
    <3>1. q[N].base <= r.applyAcc.index /\ q[N].base \in Nat /\ r.applyAcc.index \in Nat
      <4>1. q[N].base \in Nat
        BY <1>1, <1>2, AtSnapshot DEF N
      <4> QED BY <1>2, <4>1, Runs DEF Accepted
    <3>2. q[1].base <= q[N].base
      <4>1. 1 \in 0..N /\ N \in 0..N /\ 1 <= N
        BY <1>2
      <4> QED BY <1>2, <4>1 DEF Loose, N
    <3> QED BY <1>7, <1>10, <3>1, <3>2
  <2>2. g.applySub \in Upto(g.logSub.vote)
    BY <1>4, <1>7
  <2> QED BY <1>4, <2>1, <2>2 DEF Good, Working, top
<1>22. \E p : Chain(p, d, g, z, b, s)
  <2>1. PICK p : Chain(p, d, r, sq, b, s)
    BY DEF Good
  <2>2. Carries(c, d, r.applySub.index, top)
    BY <1>3, <1>6, <1>7, <1>8, <1>10, <1>11 DEF Carries
  <2>3. g.applySub.index = top /\ r.applySub.index <= top
    BY <1>3, <1>4, <1>8, <1>10 DEF top
  <2> QED BY <1>10, <2>1, <2>2, <2>3, ChainLonger DEF z
<1> QED BY <1>20, <1>21, <1>22 DEF Good, g, z, c

\* What is committed and submitted to the log is sent to the worker.
LEMMA ApplySent ==
  ASSUME setting \in Settings, NEW d, NEW r, NEW cs, NEW sq, NEW b, NEW s, NEW bs, NEW ns,
         Durable(d), Good(d, r, cs, sq, b, s, bs, ns),
         cs # <<>> => Head(cs).op = "PurgeLog" \/ Head(cs).op = "UpdateIOProgress",
         r.logSub.vote = r.logAcc.vote, r.applySub.index < MinId(r.logSub.id, r.applyAcc).index
  PROVE  LET upto == MinId(r.logSub.id, r.applyAcc)
             g    == [r EXCEPT !.applySub = upto]
             c    == [op |-> "Apply", since |-> r.applySub.index + 1, last |-> upto]
         IN Good(d, g, cs, Append(sq, c), b, s, bs, ns)
<1> DEFINE upto == MinId(r.logSub.id, r.applyAcc)
           top  == upto.index
           g    == [r EXCEPT !.applySub = upto]
           c    == [op |-> "Apply", since |-> r.applySub.index + 1, last |-> upto]
           e    == [rs |-> r, cmds |-> cs]
           h    == [rs |-> g, cmds |-> cs]
           z    == Append(sq, c)
           N    == Len(cs)
           v    == r.logSub.vote
<1>1. PICK q : Running(q, d, r, cs, sq)
  BY DEF Good
<1>2. /\ EngineOK(e, q) /\ e.cmds = cs /\ e.rs = r /\ q[0].io = r.logSub /\ d.vote = v
      /\ Agrees(d.log, q[0].log, q[0].base) /\ q[0].base <= r.applySub.index
  BY <1>1 DEF Running
<1>3. h.rs = g /\ h.cmds = cs /\ h = [rs |-> h.rs, cmds |-> h.cmds]
  OBVIOUS
<1>4. c.op = "Apply" /\ c.since = r.applySub.index + 1 /\ c.last = upto
  OBVIOUS
<1>5. DOMAIN r = RsFields /\ r.applySub.index \in Nat /\ IsSeq(sq) /\ r.logSub \in LogIO /\ IsSeq(cs)
  BY Runs
<1>6. /\ DOMAIN g = RsFields /\ g.logSub = r.logSub /\ g.applySub = upto
      /\ g.logAcc = r.logAcc /\ g.clusterCommitted = r.clusterCommitted
      /\ g.applyAcc = r.applyAcc /\ g.snapFlushed = r.snapFlushed
      /\ g.vote = r.vote /\ g.purged = r.purged /\ g.ids = r.ids /\ g.snap = r.snap /\ g.triedAt = r.triedAt
  BY <1>5 DEF RsFields
<1> HIDE DEF c, g, h, z, e
<1>7. /\ v \in Vote /\ r.logSub.id = IdOf(v, r.logSub.id.index) /\ r.logSub.id.index \in 0..Own(v)
      /\ Own(v) \in Nat /\ Com(v) \in 0..Own(v)
  <2>1. v \in Vote /\ r.logSub.id = IdOf(v, r.logSub.id.index) /\ r.logSub.id.index \in 0..Own(v)
    BY <1>5, IOs
  <2> QED BY <2>1, Commits
<1>8. r.vote = v /\ r.applyAcc \in Upto(v)
  <2>1. r.logAcc.vote = r.vote
    BY <1>2, Facts
  <2> QED BY <1>2, <2>1 DEF EngineOK, Accepted
<1>9. r.applyAcc.index \in 0..Com(v) /\ r.applyAcc = IdOf(v, r.applyAcc.index)
  BY <1>7, <1>8, ChosenIds
<1>10. top \in 0..Com(v) /\ top <= r.logSub.id.index /\ top <= r.applyAcc.index /\ upto = ChosenId(top)
  <2> DEFINE j == r.logSub.id.index
             k == r.applyAcc.index
  <2>1. j \in 0..Own(v) /\ k \in 0..Own(v) /\ k \in 0..Com(v)
    BY <1>7, <1>9
  <2>2. LogIdLt(r.logSub.id, r.applyAcc) <=> j < k
    BY <1>7, <1>9, <2>1, Order
  <2>3. upto = IF j < k THEN r.logSub.id ELSE r.applyAcc
    BY <2>2 DEF MinId
  <2>4. top = IF j < k THEN j ELSE k
    BY <2>3
  <2>5. upto = IdOf(v, top)
    BY <1>7, <1>9, <2>3, <2>4
  <2> HIDE DEF top, j, k
  <2>6. top \in 0..Com(v) /\ top <= j /\ top <= k
    BY <1>7, <2>1, <2>4
  <2>7. upto = ChosenId(top)
    BY <1>7, <2>5, <2>6, Order
  <2> QED BY <2>6, <2>7 DEF j, k
<1>11. top \in Nat /\ top > r.applySub.index
  <2>1. top \in Nat
    BY <1>7, <1>10
  <2> QED BY <2>1
<1>12. Loose(cs, q, r.applySub.index) /\ Closed(cs, q) /\ Accepted(r, q[N]) /\ N \in Nat
  BY <1>2, Facts DEF EngineOK
<1>13. q \in [0..N -> Disk] /\ \A n \in 0..N : q[n].io \in LogIO /\ q[n].base \in Nat
  <2>1. q \in [0..N -> Disk]
    BY <1>12 DEF Loose
  <2> QED BY <2>1 DEF Disk
<1> HIDE DEF v, top, upto, N
<1>14. Kept(q[0])
  <2>1. CASE cs = <<>>
    <3>1. N = 0
      BY <2>1, Seqs DEF N
    <3> QED BY <1>12, <3>1 DEF Closed, N
  <2>2. CASE cs # <<>>
    <3>1. N >= 1 /\ Head(cs) = cs[1]
      BY <1>5, <2>2, Seqs DEF N
    <3>2. 1 \in 1..N /\ 1 - 1 = 0
      BY <1>12, <3>1
    <3>3. cs[1].op # "InstallFullSnapshot"
      BY <2>2, <3>1
    <3> QED BY <1>12, <3>2, <3>3 DEF Loose, N
  <2> QED BY <2>1, <2>2
<1>15. \A n \in 0..N : q[n].io.vote = v /\ q[n].io.id.index \in Nat /\ r.logSub.id.index <= q[n].io.id.index
  <2>1. ASSUME NEW n \in 0..N
        PROVE  q[n].io.vote = v /\ q[n].io.id.index \in Nat /\ r.logSub.id.index <= q[n].io.id.index
    <3>1. 0 \in 0..N /\ N \in 0..N /\ 0 <= n /\ n <= N
      BY <1>12
    <3>2. IOLe(q[0].io, q[n].io) /\ IOLe(q[n].io, q[N].io)
      BY <1>12, <3>1 DEF Loose, N
    <3>3. q[N].io.vote = v
      BY <1>12 DEF Accepted, v
    <3>4. q[0].io = r.logSub
      BY <1>2
    <3>5. q[n].io.vote \in Nat /\ v \in Nat /\ q[n].io.id.index \in Nat /\ r.logSub.id.index \in Nat
      <4>1. q[n].io.id.index \in Nat /\ q[n].io.vote \in Nat
        BY <1>13, IOs DEF LogIO
      <4>2. r.logSub.id.index \in Nat /\ r.logSub.vote \in Nat
        BY <1>5, IOs DEF LogIO
      <4> QED BY <4>1, <4>2 DEF v
    <3> QED BY <3>2, <3>3, <3>4, <3>5 DEF IOLe, v
  <2> QED BY <2>1
<1>16. ASSUME NEW n \in 1..N, NEW x \in Nat, cs[n].op = "TruncateLog" \/ cs[n].op = "InstallFullSnapshot",
              Unblocked(cs, q, n, x)
       PROVE  top < x
  <2>1. cs # <<>>
    <3>1. N >= 1
      BY <1>12
    <3> QED BY <3>1, Seqs DEF N
  <2>2. Head(cs) = cs[1]
    BY <1>5, <2>1, Seqs
  <2>3. cs[1].op = "PurgeLog" \/ cs[1].op = "UpdateIOProgress"
    BY <2>1, <2>2
  <2>4. n # 1
    BY <1>16, <2>3
  <2>5. 1 \in 1..(n - 1) /\ 1 - 1 = 0
    BY <1>12, <2>4
  <2>6. q[0].io.id.index < x
    BY <1>16, <2>3, <2>5 DEF Unblocked
  <2>7. 0 \in 0..N
    BY <1>12
  <2>8. q[0].io = r.logSub /\ r.logSub.id.index \in Nat
    BY <1>2, <1>15, <2>7
  <2> QED BY <1>10, <1>11, <2>6, <2>8
<1>17. ASSUME NEW n \in 1..N PROVE Due(cs, q, n, top)
  <2>1. Link(cs[n], q[n - 1], q[n]) /\ Due(cs, q, n, r.applySub.index)
    BY <1>12 DEF Loose, N
  <2>2. n - 1 \in 0..N /\ n \in 0..N
    BY <1>12
  <2>3. CASE cs[n].op = "TruncateLog"
    <3>1. cs[n].since \in Nat
      BY <2>1, <2>3 DEF Link
    <3>2. cs[n].since > q[n - 1].io.id.index \/ Unblocked(cs, q, n, cs[n].since)
      BY <2>1, <2>3 DEF Due
    <3>3. CASE Unblocked(cs, q, n, cs[n].since)
      <4>1. top < cs[n].since
        BY <1>16, <2>3, <3>1, <3>3
      <4> QED BY <1>11, <2>3, <3>1, <3>3, <4>1 DEF Due
    <3>4. CASE cs[n].since > q[n - 1].io.id.index
      <4> DEFINE i == q[n - 1].io.id.index
                 k == cs[n].since
                 j == r.logSub.id.index
      <4>1. i \in Nat /\ j <= i /\ k > i /\ k \in Nat /\ top <= j
        BY <1>10, <1>15, <2>2, <3>1, <3>4
      <4>2. j \in Nat
        <5>1. 0 \in 0..N /\ q[0].io = r.logSub
          BY <1>2, <1>12
        <5> QED BY <1>15, <5>1
      <4> HIDE DEF i, j, k
      <4>3. k > top
        BY <1>11, <4>1, <4>2
      <4> QED BY <2>3, <3>4, <4>3 DEF Due, k
    <3> QED BY <3>2, <3>3, <3>4
  <2>4. CASE cs[n].op = "InstallFullSnapshot"
    <3>1. cs[n].snap.snap.index = q[n].base
      BY <2>1, <2>4 DEF Link
    <3>2. cs[n].snap.snap.index \in Nat
      BY <1>13, <2>2, <3>1
    <3>3. Unblocked(cs, q, n, cs[n].snap.snap.index)
      BY <2>1, <2>4 DEF Due
    <3>4. top < cs[n].snap.snap.index
      BY <1>16, <2>4, <3>2, <3>3
    <3> QED BY <1>11, <2>4, <3>2, <3>3, <3>4 DEF Due
  <2>5. CASE cs[n].op # "TruncateLog" /\ cs[n].op # "InstallFullSnapshot"
    BY <2>5 DEF Due
  <2> QED BY <2>3, <2>4, <2>5
<1>18. Loose(cs, q, top)
  BY <1>12, <1>17 DEF Loose, N
<1>19. EngineOK(h, q)
  <2>1. Accepted(g, q[N])
    BY <1>6, <1>12 DEF Accepted
  <2> QED BY <1>3, <1>6, <1>12, <1>18, <2>1 DEF EngineOK, N, top
<1>20. /\ IsSeq(z) /\ Len(z) = Len(sq) + 1 /\ Len(sq) \in Nat /\ z[Len(sq) + 1] = c
       /\ \A n \in 1..Len(sq) : z[n] = sq[n]
  BY <1>5, Seqs DEF z
<1>21. Sent(q, d, cs, z)
  <2>1. \A m \in 1..Len(z) : m \in 1..Len(sq) \/ m = Len(sq) + 1
    BY <1>20
  <2>2. \A m \in 1..Len(z) : z[m].op = "InstallFullSnapshot" => m \in 1..Len(sq) /\ z[m] = sq[m]
    BY <1>4, <1>20, <2>1
  <2>3. \A m \in 1..Len(sq) : m \in 1..Len(z) /\ z[m] = sq[m]
    BY <1>20
  <2>4. (\E m \in 1..Len(z) : z[m].op = "InstallFullSnapshot")
        <=> (\E m \in 1..Len(sq) : sq[m].op = "InstallFullSnapshot")
    BY <2>2, <2>3
  <2> QED BY <1>1, <2>2, <2>4 DEF Running, Sent
<1>22. Running(q, d, g, cs, z)
  <2>1. q[0].base <= g.applySub.index
    <3>1. 0 \in 0..N
      BY <1>12
    <3>2. q[0].base \in Nat /\ g.applySub.index = top
      BY <1>6, <1>13, <3>1 DEF top
    <3> QED BY <1>2, <1>5, <1>11, <3>2
  <2> QED BY <1>2, <1>6, <1>19, <1>21, <2>1 DEF Running, h, v
<1>23. Working(d, g, b, s, bs, ns)
  <2>1. upto \in Upto(v)
    BY <1>7, <1>10, ChosenIds
  <2>2. Working(d, r, b, s, bs, ns)
    BY DEF Good
  <2> QED BY <1>6, <1>10, <2>1, <2>2 DEF Working, v, top
<1>24. \E p : Chain(p, d, g, z, b, s)
  <2>1. PICK p : Chain(p, d, r, sq, b, s)
    BY DEF Good
  <2>2. ASSUME NEW i \in Nat, r.applySub.index < i, i <= top
        PROVE  i \in DOMAIN d.log /\ d.log[i] = Chosen[i]
    <3>0. q[0].base \in Nat /\ 0 \in 0..N
      BY <1>12, <1>13
    <3>1. i > q[0].base
      BY <1>2, <1>5, <2>2, <3>0
    <3>2. i \in 1..Com(v) /\ i <= r.logSub.id.index /\ i \in 1..Own(v)
      <4>1. Com(v) \in Nat /\ Own(v) \in Nat /\ Com(v) <= Own(v) /\ top <= Com(v) /\ i >= 1
        BY <1>5, <1>7, <1>10, <2>2
      <4>2. r.logSub.id.index \in Nat
        BY <1>2, <1>15, <3>0
      <4> QED BY <1>10, <1>11, <2>2, <4>1, <4>2
    <3>3. Chosen[i] = LeaderLog[v][i] /\ v \in Term
      BY <1>7, <3>2, Commits
    <3>4. LeaderLog[v][i] # 0 /\ v > 0
      BY <3>2, <3>3, Terms
    <3>5. q[0].log[i] = LeaderLog[v][i]
      <4>1. q[0].io = r.logSub /\ q[0].io.vote = v
        BY <1>2 DEF v
      <4>2. Matches(q[0].log, v, q[0].base, r.logSub.id.index)
        BY <1>14, <3>4, <4>1 DEF Kept
      <4> QED BY <3>1, <3>2, <4>2 DEF Matches
    <3> QED BY <1>2, <3>1, <3>3, <3>4, <3>5 DEF Agrees
  <2>3. Carries(c, d, r.applySub.index, top)
    BY <1>4, <1>10, <2>2 DEF Carries
  <2>4. g.applySub.index = top /\ r.applySub.index <= top
    BY <1>5, <1>6, <1>11 DEF top
  <2> QED BY <1>11, <2>1, <2>3, <2>4, ChainLonger DEF z
<1> QED BY <1>22, <1>23, <1>24 DEF Good, g, z, c, upto

\* The builder is made: it holds what is applied now.
LEMMA GetSnapshotBuilderKeeps ==
  ASSUME setting \in Settings, NEW d, NEW r, NEW cs, NEW sq, NEW s, NEW bs, NEW ns,
         Durable(d), Good(d, r, cs, sq, <<>>, s, bs, ns), sq # <<>>, Head(sq).op = "BuildSnapshot"
  PROVE  Good(d, r, cs, Tail(sq), <<>>, s, Append(bs, [applied |-> s.applied, mem |-> s.mem]), ns)
<1> DEFINE c == [applied |-> s.applied, mem |-> s.mem]
           z == Append(bs, c)
           N == Len(bs)
<1>1. PICK p : Chain(p, d, r, sq, <<>>, s)
  BY DEF Good
<1>2. PICK q : Running(q, d, r, cs, sq)
  BY DEF Good
<1>3. Working(d, r, <<>>, s, bs, ns) /\ IsSeq(bs) /\ IsSeq(sq) /\ s.applied.index \in Nat
  BY Runs DEF Good
<1>4. Len(<<>>) = 0
  BY Seqs
<1>5. 1 \in 1..Len(sq) /\ Head(sq) = sq[1] /\ 1 - 1 = 0
  BY <1>3, Seqs
<1>6. setting.installs = "none" /\ p[1] = p[0]
  <2>1. Carries(sq[1], d, p[0], p[1])
    BY <1>1, <1>5 DEF Chain
  <2> QED BY <1>5, <2>1 DEF Carries
<1>7. \E f : Chain(f, d, r, Tail(sq), <<>>, s)
  <2>1. s.applied.index + Len(<<>>) = p[1]
    BY <1>1, <1>6 DEF Chain
  <2> QED BY <1>1, <2>1, ChainShorter
<1>8. Running(q, d, r, cs, Tail(sq))
  <2>1. \A m \in 1..Len(sq) : sq[m].op # "InstallFullSnapshot"
    BY <1>1, <1>6 DEF Chain, Carries
  <2>2. \A m \in 1..Len(Tail(sq)) : m + 1 \in 1..Len(sq) /\ Tail(sq)[m] = sq[m + 1]
    BY <1>3, Seqs
  <2>3. \A m \in 1..Len(Tail(sq)) : Tail(sq)[m].op # "InstallFullSnapshot"
    BY <2>1, <2>2
  <2>4. Sent(q, d, cs, Tail(sq))
    BY <1>2, <2>1, <2>3 DEF Running, Sent
  <2> QED BY <1>2, <2>4 DEF Running
<1>9. c.applied = s.applied
  OBVIOUS
<1> HIDE DEF c
<1>10. IsSeq(z) /\ N \in Nat /\ Len(z) = N + 1 /\ z[N + 1] = c /\ \A n \in 1..N : z[n] = bs[n]
  BY <1>3, Seqs
<1> HIDE DEF z, N
<1>11. \A n \in 1..(N + 1) : n \in 1..N \/ n = N + 1
  BY <1>10
<1>12. /\ \A n \in 1..N : /\ bs[n].applied \in Upto(MaxTerm)
                          /\ d.snap.index <= bs[n].applied.index
                          /\ bs[n].applied.index <= s.applied.index
       /\ \A m, n \in 1..N : m <= n => bs[m].applied.index <= bs[n].applied.index
       /\ s.applied \in Upto(MaxTerm) /\ d.snap.index <= s.applied.index
  BY <1>3 DEF Working, N
<1>13. \A n \in 1..(N + 1) : /\ z[n].applied \in Upto(MaxTerm)
                             /\ d.snap.index <= z[n].applied.index
                             /\ z[n].applied.index <= s.applied.index
  BY <1>3, <1>9, <1>10, <1>11, <1>12
<1>14. ASSUME NEW m \in 1..(N + 1), NEW n \in 1..(N + 1), m <= n
       PROVE  z[m].applied.index <= z[n].applied.index
  <2>1. CASE n = N + 1
    BY <1>9, <1>10, <1>13, <2>1
  <2>2. CASE n \in 1..N
    <3>1. m \in 1..N
      BY <1>10, <1>14, <2>2
    <3> QED BY <1>10, <1>12, <1>14, <2>2, <3>1
  <2> QED BY <1>11, <2>1, <2>2
<1>15. Working(d, r, <<>>, s, z, ns)
  BY <1>3, <1>6, <1>10, <1>13, <1>14 DEF Working
<1> QED BY <1>7, <1>8, <1>15 DEF Good, z, c

\* A snapshot is installed.
LEMMA InstallSnapshotKeeps ==
  ASSUME setting \in Settings, NEW d, NEW r, NEW cs, NEW sq, NEW s, NEW bs, NEW ns,
         Durable(d), Good(d, r, cs, sq, <<>>, s, bs, ns), sq # <<>>, Head(sq).op = "InstallFullSnapshot"
  PROVE  LET c == Head(sq)
             x == SetCurrentSnapshot(d, c.snap)
             note == [op |-> "InstallSnapshotDone", id |-> c.snap.snap, io |-> c.io]
         IN Durable(x) /\ Good(x, r, cs, Tail(sq), <<>>, StateOf(c.snap), bs, Append(ns, note))
<1> DEFINE c == Head(sq)
           x == SetCurrentSnapshot(d, c.snap)
           t == StateOf(c.snap)
           note == [op |-> "InstallSnapshotDone", id |-> c.snap.snap, io |-> c.io]
           z == Append(ns, note)
           N == Len(ns)
           top == c.snap.snap.index
<1>1. PICK p : Chain(p, d, r, sq, <<>>, s)
  BY DEF Good
<1>2. PICK q : Running(q, d, r, cs, sq)
  BY DEF Good
<1>3. Working(d, r, <<>>, s, bs, ns) /\ IsSeq(bs) /\ IsSeq(sq) /\ IsSeq(ns) /\ r.logSub \in LogIO
      /\ r.applySub.index \in Nat
  BY Runs DEF Good
<1>4. Len(<<>>) = 0
  BY Seqs
<1>5. /\ 1 \in 1..Len(sq) /\ c = sq[1] /\ 1 - 1 = 0 /\ Len(sq) \in Nat
      /\ \A m \in 1..Len(Tail(sq)) : m + 1 \in 1..Len(sq) /\ Tail(sq)[m] = sq[m + 1]
  BY <1>3, Seqs
<1>6. c.op = "InstallFullSnapshot"
  OBVIOUS
<1>7. t.applied = c.snap.snap /\ note.op = "InstallSnapshotDone" /\ note.id = c.snap.snap
  BY DEF StateOf
<1>8. DOMAIN d = DbFields /\ Bounded(d.log) /\ d.purged.index \in 0..d.snap.index
  BY DEF Durable
<1>9. x.log = d.log /\ x.purged = d.purged /\ x.vote = d.vote /\ x.snap = c.snap.snap /\ DOMAIN x = DbFields
  BY <1>8 DEF SetCurrentSnapshot, DbFields
<1> HIDE DEF x, t, note, z, c, N, top
<1>10. setting.installs # "none" /\ c.snap.snap = ChosenId(p[1]) /\ p[0] < p[1]
  <2>1. Carries(c, d, p[0], p[1])
    BY <1>1, <1>5 DEF Chain
  <2> QED BY <1>6, <2>1 DEF Carries
<1>11. top = q[0].base /\ d.snap.index < q[0].base
  BY <1>2, <1>5, <1>6 DEF Running, Sent, top
<1>12. q[0].base \in Nat /\ d.snap.index \in Nat /\ q[0] \in Disk /\ Len(cs) \in Nat
  BY <1>2, AtSnapshot, Stored
<1>13. p \in [0..Len(sq) -> Nat] /\ \A m, n \in 0..Len(sq) : m <= n => p[m] <= p[n]
  BY <1>1 DEF Chain
<1>14. q[0].base \in 0..Com(d.vote) /\ q[0].base \in 0..Com(MaxTerm) /\ d.vote \in Vote
  <2>1. d.vote = r.logSub.vote /\ q[0].base <= r.applySub.index
    BY <1>2 DEF Running
  <2>2. d.vote \in Vote
    BY Stored
  <2>3. r.applySub.index \in 0..Com(d.vote)
    <3>1. r.applySub \in Upto(d.vote)
      BY <1>3, <2>1 DEF Working
    <3> QED BY <2>2, <3>1, ChosenIds
  <2>4. Com(d.vote) \in Nat /\ Com(d.vote) <= Com(MaxTerm) /\ Com(MaxTerm) \in Nat
    <3>1. d.vote <= MaxTerm /\ MaxTerm \in Vote
      BY <2>2, Logs, Commits DEF Vote
    <3> QED BY <2>2, <3>1, Commits
  <2> QED BY <1>12, <2>1, <2>2, <2>3, <2>4
<1>15. top = p[1] /\ c.snap.snap \in Upto(d.vote) /\ c.snap.snap \in Upto(MaxTerm) /\ c.snap.snap.index = top
  <2>1. p[1] \in Nat
    BY <1>5, <1>13
  <2>2. r.applySub.index <= Com(MaxTerm) /\ Com(MaxTerm) \in Nat
    <3>1. r.applySub \in Upto(MaxTerm)
      BY Runs
    <3>2. r.applySub.index \in 0..Com(MaxTerm)
      BY <3>1, ChosenIds, Commits
    <3> QED BY <3>2, Commits
  <2>3. p[1] <= r.applySub.index
    <3>1. 1 \in 0..Len(sq) /\ Len(sq) \in 0..Len(sq) /\ 1 <= Len(sq)
      BY <1>5
    <3> QED BY <1>1, <3>1 DEF Chain
  <2>4. p[1] \in 0..Com(MaxTerm)
    BY <1>3, <2>1, <2>2, <2>3
  <2>5. top = p[1]
    BY <1>10, <2>4, ChosenIds, Commits DEF top
  <2>6. p[1] \in 0..Com(d.vote)
    BY <1>11, <1>14, <2>5
  <2> QED BY <1>10, <1>14, <2>4, <2>5, <2>6, ChosenIds, Commits DEF top
<1>16. Durable(x)
  <2>1. Agrees(x.log, q[0].log, x.snap.index)
    BY <1>2, <1>9, <1>11, <1>15 DEF Running
  <2>2. Solid(q[0].log, x.snap.index)
    <3> DEFINE e == [rs |-> r, cmds |-> cs]
    <3>1. EngineOK(e, q) /\ e.cmds = cs
      BY <1>2 DEF Running
    <3> HIDE DEF e
    <3>2. 0 \in 0..Len(cs)
      BY <1>12
    <3>3. Solid(q[0].log, q[0].base)
      BY <3>1, <3>2 DEF EngineOK, Loose
    <3> QED BY <1>9, <1>11, <1>15, <3>3
  <2>3. x.purged.index \in 0..x.snap.index
    <3>1. x.snap.index = q[0].base /\ x.purged = d.purged
      BY <1>9, <1>11, <1>15
    <3> QED BY <1>8, <1>11, <1>12, <3>1
  <2> QED BY <1>8, <1>9, <1>14, <1>15, <2>1, <2>2, <2>3 DEF Durable
<1>17. \E f : Chain(f, x, r, Tail(sq), <<>>, t)
  <2>1. t.applied.index + Len(<<>>) = p[1]
    <3>1. p[1] \in Nat
      BY <1>5, <1>13
    <3> QED BY <1>4, <1>7, <1>15, <3>1
  <2> QED BY <1>1, <1>9, <2>1, ChainShorter
<1>18. Running(q, x, r, cs, Tail(sq))
  <2>1. ASSUME NEW m \in 1..Len(Tail(sq)), Tail(sq)[m].op = "InstallFullSnapshot" PROVE FALSE
    <3>1. m + 1 \in 1..Len(sq) /\ Tail(sq)[m] = sq[m + 1] /\ (m + 1) - 1 = m /\ 1 <= m /\ m \in 0..Len(sq) /\ 1 \in 0..Len(sq)
          /\ m + 1 \in 0..Len(sq) /\ Len(sq) \in 0..Len(sq) /\ m + 1 <= Len(sq)
      BY <1>5
    <3>2. sq[m + 1].snap.snap = ChosenId(p[m + 1]) /\ p[m] < p[m + 1]
      <4>1. Carries(sq[m + 1], d, p[m], p[m + 1])
        BY <1>1, <3>1 DEF Chain
      <4> QED BY <2>1, <3>1, <4>1 DEF Carries
    <3>3. p[1] <= p[m] /\ p[1] \in Nat /\ p[m] \in Nat /\ p[m + 1] \in Nat /\ p[m + 1] <= p[Len(sq)]
          /\ p[Len(sq)] = r.applySub.index
      BY <1>1, <1>13, <3>1 DEF Chain
    <3>4. sq[m + 1].snap.snap.index = top
      BY <1>2, <1>11, <2>1, <3>1 DEF Running, Sent
    <3>5. p[m + 1] \in 0..Com(MaxTerm)
      <4>1. r.applySub \in Upto(MaxTerm)
        BY Runs
      <4>2. r.applySub.index \in 0..Com(MaxTerm) /\ Com(MaxTerm) \in Nat
        BY <4>1, ChosenIds, Commits
      <4> QED BY <3>3, <4>2
    <3>6. sq[m + 1].snap.snap.index = p[m + 1]
      BY <3>2, <3>5, ChosenIds, Commits
    <3> QED BY <1>15, <3>2, <3>3, <3>4, <3>6
  <2>2. Sent(q, x, cs, Tail(sq))
    BY <1>9, <1>11, <1>15, <2>1 DEF Sent
  <2> QED BY <1>2, <1>9, <2>2 DEF Running
<1>19. IsSeq(z) /\ N \in Nat /\ Len(z) = N + 1 /\ z[N + 1] = note /\ \A n \in 1..N : z[n] = ns[n]
  BY <1>3, Seqs DEF z, N
<1>20. Working(x, r, <<>>, t, bs, z)
  <2>1. Len(bs) = 0
    <3>1. Len(bs) \in Nat
      BY <1>3, Seqs
    <3>2. \A n \in 1..Len(bs) : FALSE
      BY <1>3, <1>10 DEF Working
    <3> QED BY <3>1, <3>2
  <2>2. \A n \in 1..Len(bs) : FALSE
    BY <2>1
  <2>3. \A n \in 1..Len(<<>>) : FALSE
    BY <1>4
  <2>4. x.snap.index = top /\ d.snap.index < top /\ t.applied.index = top /\ top \in Nat
    BY <1>7, <1>9, <1>11, <1>12, <1>15
  <2>5. r.snapFlushed.index <= top
    <3>1. r.snapFlushed \in Upto(MaxTerm) /\ r.snapFlushed.index <= d.snap.index
      BY <1>3 DEF Working
    <3>2. r.snapFlushed.index \in 0..Com(MaxTerm)
      BY <3>1, ChosenIds, Commits
    <3> QED BY <1>12, <2>4, <3>1, <3>2, Commits
  <2>6. ASSUME NEW n \in 1..(N + 1), z[n].op \in {"BuildSnapshotDone", "InstallSnapshotDone"}
        PROVE  /\ z[n].id \in Upto(MaxTerm) /\ z[n].id.index <= top
               /\ z[n].op = "BuildSnapshotDone" => setting.installs = "none"
    <3>1. CASE n = N + 1
      <4>1. z[n].id = c.snap.snap /\ z[n].op = "InstallSnapshotDone"
        BY <1>7, <1>19, <3>1
      <4> QED BY <1>15, <2>4, <4>1
    <3>2. CASE n \in 1..N
      <4>1. z[n] = ns[n]
        BY <1>19, <3>2
      <4>2. /\ ns[n].id \in Upto(MaxTerm) /\ ns[n].id.index <= d.snap.index
            /\ ns[n].op = "BuildSnapshotDone" => setting.installs = "none"
        BY <1>3, <2>6, <3>2, <4>1 DEF Working, N
      <4>3. ns[n].id.index \in Nat
        BY <4>2, ChosenIds, Commits
      <4> QED BY <1>12, <2>4, <4>1, <4>2, <4>3
    <3> QED BY <1>19, <3>1, <3>2
  <2>7. t.applied \in Upto(MaxTerm) /\ x.snap.index <= t.applied.index
    BY <1>7, <1>15, <2>4
  <2>8. Len(z) = N + 1 /\ IsSeq(<<>>)
    BY <1>19, Seqs
  <2>9. r.snapFlushed.index <= x.snap.index
    BY <2>4, <2>5
  <2>10. \A n \in 1..Len(z) : z[n].op \in {"BuildSnapshotDone", "InstallSnapshotDone"} =>
           /\ z[n].id \in Upto(MaxTerm) /\ z[n].id.index <= x.snap.index
           /\ z[n].op = "BuildSnapshotDone" => setting.installs = "none"
    BY <2>4, <2>6, <2>8
  <2> QED BY <1>3, <1>19, <2>2, <2>3, <2>7, <2>8, <2>9, <2>10 DEF Working
<1> QED BY <1>16, <1>17, <1>18, <1>20 DEF Good, x, t, z, note, c

(* The entries of an Apply are read, and applied.                          *)

Entry(d, i) == [term |-> d.log[i], index |-> i]
Entries(d, a, i) == [n \in 1..(i - a) |-> Entry(d, a + n)]
Reads(f, d, first, last) ==
  f = [i \in (first - 1)..last |->
         CASE i < first          -> <<>>
           [] i >= first /\ i \in DOMAIN d.log -> Append(f[i - 1], [term |-> d.log[i], index |-> i])
           [] OTHER              -> f[i - 1]]

\* Entries without a gap.
LEMMA EntriesAre ==
  ASSUME NEW d, NEW a \in Nat, NEW k \in Nat, a <= k
  PROVE  /\ IsSeq(Entries(d, a, k)) /\ Len(Entries(d, a, k)) = k - a
         /\ \A n \in 1..(k - a) : Entries(d, a, k)[n] = Entry(d, a + n)
         /\ Entries(d, a, a) = <<>>
         /\ a < k => Entries(d, a, k) = Append(Entries(d, a, k - 1), Entry(d, k))
<1> DEFINE U == {Entry(d, a + n) : n \in Nat}
           F(i) == Entries(d, a, i)
<1>1. ASSUME NEW i \in Nat, a <= i
      PROVE  F(i) \in Seq(U) /\ Len(F(i)) = i - a /\ \A n \in 1..(i - a) : F(i)[n] = Entry(d, a + n)
  <2>1. i - a \in Nat /\ \A n \in 1..(i - a) : Entry(d, a + n) \in U
    BY <1>1
  <2>2. F(i) \in [1..(i - a) -> U] /\ \A n \in 1..(i - a) : F(i)[n] = Entry(d, a + n)
    <3> HIDE DEF U
    <3> QED BY <2>1 DEF Entries
  <2> HIDE DEF U, F
  <2>3. F(i) \in Seq(U)
    BY <2>1, <2>2, SeqDef, Zenon
  <2>4. DOMAIN F(i) = 1..(i - a) /\ Len(F(i)) \in Nat /\ DOMAIN F(i) = 1..Len(F(i))
    BY <2>2, <2>3, LenProperties
  <2> QED BY <2>1, <2>2, <2>3, <2>4
<1>2. F(a) = <<>>
  <2>1. F(a) \in Seq(U) /\ Len(F(a)) = 0
    <3>1. a <= a /\ a - a = 0
      OBVIOUS
    <3> HIDE DEF F, U
    <3> QED BY <1>1, <3>1
  <2> HIDE DEF F, U
  <2> QED BY <2>1, EmptySeq
<1>3. ASSUME a < k PROVE F(k) = Append(F(k - 1), Entry(d, k))
  <2>1. k - 1 \in Nat /\ a <= k - 1 /\ (k - 1) - a = k - a - 1 /\ k - a \in Nat /\ k - a >= 1 /\ a + (k - a) = k
    BY <1>3
  <2>2. /\ F(k) \in Seq(U) /\ Len(F(k)) = k - a /\ \A n \in 1..(k - a) : F(k)[n] = Entry(d, a + n)
        /\ F(k - 1) \in Seq(U) /\ Len(F(k - 1)) = k - a - 1
        /\ \A n \in 1..(k - a - 1) : F(k - 1)[n] = Entry(d, a + n)
    BY <1>1, <2>1
  <2>3. Entry(d, k) \in U
    BY <2>1
  <2> DEFINE g == Append(F(k - 1), Entry(d, k))
             N == k - a
  <2> HIDE DEF F, U
  <2>4. g \in Seq(U) /\ Len(g) = Len(F(k - 1)) + 1 /\ g[Len(F(k - 1)) + 1] = Entry(d, k)
        /\ \A n \in 1..Len(F(k - 1)) : g[n] = F(k - 1)[n]
    BY <2>2, <2>3, AppendProperties
  <2> HIDE DEF g
  <2>5. (k - a - 1) + 1 = N /\ N \in Nat /\ N >= 1
    BY <2>1
  <2>6. Len(g) = N /\ g[N] = Entry(d, k) /\ \A n \in 1..(N - 1) : g[n] = Entry(d, a + n)
    BY <2>1, <2>2, <2>4, <2>5
  <2>7. Len(F(k)) = N /\ F(k)[N] = Entry(d, k) /\ \A n \in 1..(N - 1) : F(k)[n] = Entry(d, a + n)
    BY <2>1, <2>2, <2>5
  <2> HIDE DEF N
  <2>8. \A n \in 1..N : n = N \/ n \in 1..(N - 1)
    BY <2>5
  <2>9. \A n \in 1..Len(F(k)) : F(k)[n] = g[n]
    BY <2>6, <2>7, <2>8
  <2>10. F(k) = g
    BY <2>2, <2>4, <2>6, <2>7, <2>9, SeqEqual
  <2> QED BY <2>10 DEF g
<1>4. IsSeq(F(k)) /\ Len(F(k)) = k - a /\ \A n \in 1..(k - a) : F(k)[n] = Entry(d, a + n)
  <2> HIDE DEF F, U
  <2> QED BY <1>1 DEF IsSeq
<1> QED BY <1>2, <1>3, <1>4

\* What try_get_log_entries reads of a range that is in the log.
LEMMA ReadIs ==
  ASSUME NEW d, NEW a \in Nat, NEW k \in Nat, a <= k,
         \A i \in Nat : a < i /\ i <= k => i \in DOMAIN d.log
  PROVE  TryGetLogEntries(d, a + 1, k) = Entries(d, a, k)
<1>a. Entries(d, a, a) = <<>>
  BY EntriesAre
<1>b. \A i \in Nat : a < i => Entries(d, a, i) = Append(Entries(d, a, i - 1), Entry(d, i))
  <2>1. SUFFICES ASSUME NEW i \in Nat, a < i
                 PROVE  Entries(d, a, i) = Append(Entries(d, a, i - 1), Entry(d, i))
    OBVIOUS
  <2>2. a <= i
    BY <2>1
  <2> QED BY <2>1, <2>2, EntriesAre
<1>1. CASE a = k
  <2>1. TryGetLogEntries(d, a + 1, k) = <<>>
    <3>1. k < a + 1
      BY <1>1
    <3> QED BY <3>1, Zenon DEF TryGetLogEntries
  <2> QED BY <1>a, <1>1, <2>1
<1>2. CASE a < k
  <2> DEFINE read == CHOOSE f : Reads(f, d, a + 1, k)
             g == [i \in a..k |-> Entries(d, a, i)]
  <2>0. (a + 1) - 1 = a /\ ~ (k < a + 1)
    BY <1>2
  <2>1. Reads(g, d, a + 1, k)
    <3>1. ASSUME NEW i \in a..k
          PROVE  g[i] = CASE i < a + 1          -> <<>>
                          [] i >= a + 1 /\ i \in DOMAIN d.log -> Append(g[i - 1], [term |-> d.log[i], index |-> i])
                          [] OTHER              -> g[i - 1]
      <4>1. g[i] = Entries(d, a, i) /\ i \in Nat
        OBVIOUS
      <4> HIDE DEF g
      <4>2. CASE i = a
        <5>1. i < a + 1
          BY <4>2
        <5> QED BY <1>a, <4>1, <4>2, <5>1
      <4>3. CASE i > a
        <5>1. i - 1 \in a..k /\ i \in DOMAIN d.log /\ ~ (i < a + 1) /\ a < i
          BY <4>3
        <5>2. g[i - 1] = Entries(d, a, i - 1)
          BY <5>1 DEF g
        <5>3. Entries(d, a, i) = Append(Entries(d, a, i - 1), Entry(d, i))
          BY <1>b, <4>1, <5>1
        <5> QED BY <4>1, <5>1, <5>2, <5>3 DEF Entry
      <4>4. i = a \/ i > a
        BY <4>1
      <4> HIDE DEF Entries
      <4> QED BY <4>2, <4>3, <4>4, Zenon
    <3>2. g = [i \in a..k |-> g[i]]
      OBVIOUS
    <3> HIDE DEF g
    <3>3. g = [i \in a..k |->
                 CASE i < a + 1          -> <<>>
                   [] i >= a + 1 /\ i \in DOMAIN d.log -> Append(g[i - 1], [term |-> d.log[i], index |-> i])
                   [] OTHER              -> g[i - 1]]
      BY <3>1, <3>2, Zenon
    <3> QED BY <2>0, <3>3, Zenon DEF Reads
  <2>2. Reads(read, d, a + 1, k)
    <3>1. \E f : Reads(f, d, a + 1, k)
      BY <2>1, Zenon
    <3> QED BY <3>1, Zenon
  <2>3. TryGetLogEntries(d, a + 1, k) = read[k]
    BY <2>0, Zenon DEF TryGetLogEntries, Reads
  <2> HIDE DEF read, g
  <2> DEFINE S == {i \in Nat : i >= a /\ i <= k /\ read[i] # Entries(d, a, i)}
  <2>4. ASSUME NEW x \in S PROVE FALSE
    <3>1. S \in SUBSET Nat
      OBVIOUS
    <3>2. PICK z \in S : \A y \in S : z <= y
      <4> HIDE DEF S
      <4> QED BY <2>4, <3>1, Least
    <3>3. z \in a..k /\ z \in Nat /\ read[z] # Entries(d, a, z)
      BY <3>2
    <3>4. read[z] = CASE z < a + 1          -> <<>>
                      [] z >= a + 1 /\ z \in DOMAIN d.log -> Append(read[z - 1], [term |-> d.log[z], index |-> z])
                      [] OTHER              -> read[z - 1]
      <4> HIDE DEF S
      <4>1. z \in ((a + 1) - 1)..k
        BY <2>0, <3>3
      <4> QED BY <2>2, <4>1 DEF Reads
    <3>5. CASE z = a
      <4>0. z < a + 1 /\ ~ (z >= a + 1)
        BY <3>3, <3>5
      <4>1. read[z] = <<>>
        <5> HIDE DEF S
        <5> QED BY <3>4, <4>0, Zenon
      <4> QED BY <1>a, <3>3, <3>5, <4>1
    <3>6. CASE z > a
      <4>1. z - 1 \in Nat /\ z - 1 >= a /\ z - 1 <= k /\ ~ (z <= z - 1) /\ z \in DOMAIN d.log /\ ~ (z < a + 1) /\ z >= a + 1
        BY <3>3, <3>6
      <4>2. read[z - 1] = Entries(d, a, z - 1)
        BY <3>2, <4>1
      <4>3. Entries(d, a, z) = Append(Entries(d, a, z - 1), Entry(d, z))
        BY <1>b, <3>3, <3>6
      <4>4. read[z] = Append(read[z - 1], [term |-> d.log[z], index |-> z])
        <5> HIDE DEF S
        <5> QED BY <3>4, <4>1, Zenon
      <4> QED BY <3>3, <4>2, <4>3, <4>4 DEF Entry
    <3> QED BY <3>3, <3>5, <3>6
  <2>5. read[k] = Entries(d, a, k)
    <3>1. k \notin S
      BY <2>4
    <3> QED BY <1>2, <3>1
  <2> QED BY <2>3, <2>5
<1> QED BY <1>1, <1>2

\* The worker reads the entries of an Apply.
LEMMA ReadEntriesKeeps ==
  ASSUME setting \in Settings, NEW d, NEW r, NEW cs, NEW sq, NEW s, NEW bs, NEW ns,
         Durable(d), Good(d, r, cs, sq, <<>>, s, bs, ns), sq # <<>>, Head(sq).op = "Apply"
  PROVE  Good(d, r, cs, Tail(sq), TryGetLogEntries(d, Head(sq).since, Head(sq).last.index), s, bs, ns)
<1> DEFINE c == Head(sq)
           a == TryGetLogEntries(d, c.since, c.last.index)
<1>1. PICK p : Chain(p, d, r, sq, <<>>, s)
  BY DEF Good
<1>2. PICK q : Running(q, d, r, cs, sq)
  BY DEF Good
<1>3. Working(d, r, <<>>, s, bs, ns) /\ IsSeq(sq) /\ s.applied.index \in Nat
      /\ r.applySub.index \in Nat /\ r.applySub \in Upto(MaxTerm)
  BY Runs DEF Good
<1>4. Len(<<>>) = 0
  BY Seqs
<1>5. /\ 1 \in 1..Len(sq) /\ c = sq[1] /\ 1 - 1 = 0 /\ Len(sq) \in Nat
      /\ \A m \in 1..Len(Tail(sq)) : m + 1 \in 1..Len(sq) /\ Tail(sq)[m] = sq[m + 1]
  BY <1>3, Seqs
<1>6. Carries(c, d, p[0], p[1]) /\ c.op = "Apply"
  BY <1>1, <1>5 DEF Chain
<1>7. p[0] = s.applied.index /\ p[0] \in Nat /\ p[1] \in Nat /\ p[0] <= p[1] /\ p[1] <= r.applySub.index
  <2>1. p \in [0..Len(sq) -> Nat] /\ p[0] = s.applied.index + Len(<<>>)
        /\ \A m, n \in 0..Len(sq) : m <= n => p[m] <= p[n]
        /\ p[Len(sq)] = r.applySub.index
    BY <1>1 DEF Chain
  <2>2. 0 \in 0..Len(sq) /\ 1 \in 0..Len(sq) /\ Len(sq) \in 0..Len(sq) /\ 0 <= 1 /\ 1 <= Len(sq)
    BY <1>5
  <2> QED BY <1>3, <1>4, <2>1, <2>2
<1>8. r.applySub.index \in 0..Com(MaxTerm) /\ Com(MaxTerm) \in Nat
  BY <1>3, ChosenIds, Commits
<1> HIDE DEF c
<1>9. /\ c.since = p[0] + 1 /\ c.last = ChosenId(p[1])
      /\ \A i \in Nat : p[0] < i /\ i <= p[1] => i \in DOMAIN d.log /\ d.log[i] = Chosen[i]
  BY <1>6 DEF Carries
<1>10. c.last.index = p[1]
  BY <1>7, <1>8, <1>9, ChosenIds, Commits
<1>11. a = Entries(d, p[0], p[1])
  BY <1>7, <1>9, <1>10, ReadIs
<1> HIDE DEF a
<1>12. IsSeq(a) /\ Len(a) = p[1] - p[0] /\ \A n \in 1..(p[1] - p[0]) : a[n] = Entry(d, p[0] + n)
  BY <1>7, <1>11, EntriesAre
<1>13. ASSUME NEW n \in 1..Len(a) PROVE a[n] = ChosenId(s.applied.index + n)
  <2> DEFINE i == p[0] + n
  <2>1. i \in Nat /\ p[0] < i /\ i <= p[1] /\ i # 0
    BY <1>7, <1>12
  <2>2. d.log[i] = Chosen[i]
    BY <1>9, <2>1
  <2>3. a[n] = Entry(d, i)
    BY <1>12
  <2> QED BY <1>7, <2>1, <2>2, <2>3 DEF Entry, ChosenId
<1>14. \E f : Chain(f, d, r, Tail(sq), a, s)
  <2>1. s.applied.index + Len(a) = p[1]
    BY <1>7, <1>12
  <2> QED BY <1>1, <2>1, ChainShorter
<1>15. Running(q, d, r, cs, Tail(sq))
  <2>1. (\E m \in 1..Len(sq) : sq[m].op = "InstallFullSnapshot")
          <=> (\E m \in 1..Len(Tail(sq)) : Tail(sq)[m].op = "InstallFullSnapshot")
    <3>1. \A m \in 1..Len(sq) : sq[m].op = "InstallFullSnapshot" =>
            m - 1 \in 1..Len(Tail(sq)) /\ Tail(sq)[m - 1] = sq[m]
      <4>1. SUFFICES ASSUME NEW m \in 1..Len(sq), sq[m].op = "InstallFullSnapshot"
                     PROVE  m - 1 \in 1..Len(Tail(sq)) /\ Tail(sq)[m - 1] = sq[m]
        OBVIOUS
      <4>2. m # 1
        BY <1>5, <1>6, <4>1
      <4>3. sq # <<>>
        OBVIOUS
      <4>4. Len(Tail(sq)) = Len(sq) - 1
        BY <1>3, <4>3, Seqs
      <4>5. m - 1 \in 1..Len(Tail(sq)) /\ (m - 1) + 1 = m
        BY <1>5, <4>2, <4>4
      <4> QED BY <1>5, <4>5
    <3> QED BY <1>5, <3>1
  <2>2. Sent(q, d, cs, Tail(sq))
    BY <1>2, <1>5, <2>1 DEF Running, Sent
  <2> QED BY <1>2, <2>2 DEF Running
<1>16. Working(d, r, a, s, bs, ns)
  BY <1>3, <1>12, <1>13 DEF Working
<1> QED BY <1>14, <1>15, <1>16 DEF Good, a, c

\* An entry is applied.
LEMMA ApplyOneKeeps ==
  ASSUME setting \in Settings, NEW d, NEW r, NEW cs, NEW sq, NEW b, NEW s, NEW bs, NEW ns,
         Durable(d), Good(d, r, cs, sq, b, s, bs, ns), b # <<>>, NEW t, t.applied = Head(b)
  PROVE  Good(d, r, cs, sq, Tail(b), t, bs, ns)
<1> DEFINE a == Tail(b)
           N == Len(b)
           j == s.applied.index
<1>1. PICK p : Chain(p, d, r, sq, b, s)
  BY DEF Good
<1>2. /\ Working(d, r, b, s, bs, ns) /\ IsSeq(b) /\ IsSeq(sq) /\ j \in Nat
      /\ r.applySub.index \in Nat /\ r.applySub \in Upto(MaxTerm)
  BY Runs DEF Good
<1>3. /\ N \in Nat /\ N >= 1 /\ IsSeq(a) /\ Len(a) = N - 1 /\ Head(b) = b[1]
      /\ \A n \in 1..(N - 1) : a[n] = b[n + 1]
  BY <1>2, Seqs
<1>4. j + N <= r.applySub.index
  <2>1. /\ IsSeq(sq) /\ p \in [0..Len(sq) -> Nat] /\ p[0] = j + N
        /\ p[Len(sq)] = r.applySub.index
        /\ \A m, n \in 0..Len(sq) : m <= n => p[m] <= p[n]
    BY <1>1 DEF Chain
  <2>2. 0 \in 0..Len(sq) /\ Len(sq) \in 0..Len(sq) /\ 0 <= Len(sq)
    <3>1. Len(sq) \in Nat
      BY <1>2, Seqs
    <3> QED BY <3>1
  <2> QED BY <2>1, <2>2
<1>5. r.applySub.index \in 0..Com(MaxTerm) /\ Com(MaxTerm) \in Nat
  BY <1>2, ChosenIds, Commits
<1>6. /\ \A n \in 1..N : b[n] = ChosenId(j + n)
      /\ d.snap.index <= j /\ d.snap.index \in Nat
  BY <1>2, Stored DEF Working
<1> HIDE DEF a, N, j
<1>7. j + 1 \in 0..Com(MaxTerm) /\ t.applied = ChosenId(j + 1)
  BY <1>2, <1>3, <1>4, <1>5, <1>6
<1>8. t.applied \in Upto(MaxTerm) /\ t.applied.index = j + 1
  BY <1>7, ChosenIds, Commits
<1>9. Chain(p, d, r, sq, a, t)
  <2>1. t.applied.index + Len(a) = j + N
    BY <1>2, <1>3, <1>8
  <2> QED BY <1>1, <2>1 DEF Chain, N, j
<1>10. \A n \in 1..Len(a) : a[n] = ChosenId(t.applied.index + n)
  <2>1. SUFFICES ASSUME NEW n \in 1..(N - 1) PROVE a[n] = ChosenId((j + 1) + n)
    BY <1>3, <1>8
  <2>2. n + 1 \in 1..N /\ j + (n + 1) = (j + 1) + n
    BY <1>2, <1>3
  <2> QED BY <1>3, <1>6, <2>2
<1>11. \A n \in 1..Len(bs) : bs[n].applied.index <= t.applied.index
  <2>1. SUFFICES ASSUME NEW n \in 1..Len(bs) PROVE bs[n].applied.index <= t.applied.index
    OBVIOUS
  <2>2. bs[n].applied \in Upto(MaxTerm) /\ bs[n].applied.index <= j
    BY <1>2 DEF Working, j
  <2>3. bs[n].applied.index \in Nat
    BY <2>2, ChosenIds, Commits
  <2> QED BY <1>2, <1>8, <2>2, <2>3
<1>12. d.snap.index <= t.applied.index
  BY <1>2, <1>6, <1>8
<1>13. Working(d, r, a, t, bs, ns)
  BY <1>2, <1>3, <1>8, <1>10, <1>11, <1>12 DEF Working
<1> QED BY <1>9, <1>13 DEF Good, a

(* The builder, and a start.                                               *)

\* The first builder writes its snapshot.
LEMMA BuilderDoneKeeps ==
  ASSUME setting \in Settings, NEW d, NEW r, NEW cs, NEW sq, NEW b, NEW s, NEW bs, NEW ns,
         Durable(d), Good(d, r, cs, sq, b, s, bs, ns), bs # <<>>, NEW k
  PROVE  LET x == SetCurrentSnapshot(d, [snap |-> Head(bs).applied, mem |-> Head(bs).mem, kvs |-> k])
             note == [op |-> "BuildSnapshotDone", id |-> Head(bs).applied]
         IN Durable(x) /\ Good(x, r, cs, sq, b, s, Tail(bs), Append(ns, note))
<1> DEFINE id == Head(bs).applied
           x == SetCurrentSnapshot(d, [snap |-> id, mem |-> Head(bs).mem, kvs |-> k])
           note == [op |-> "BuildSnapshotDone", id |-> id]
           e == [rs |-> r, cmds |-> cs]
           z == Append(ns, note)
           N == Len(ns)
           M == Len(bs)
           top == id.index
<1>1. PICK p : Chain(p, d, r, sq, b, s)
  BY DEF Good
<1>2. PICK q : Running(q, d, r, cs, sq)
  BY DEF Good
<1>3. /\ Working(d, r, b, s, bs, ns) /\ IsSeq(bs) /\ IsSeq(sq) /\ IsSeq(ns) /\ IsSeq(b) /\ IsSeq(cs)
      /\ r.applySub.index \in Nat /\ r.applySub.index <= r.applyAcc.index /\ r.applyAcc.index \in Nat
      /\ s.applied.index \in Nat /\ DOMAIN r = RsFields /\ r.snap.index \in Nat
      /\ r.logSub \in LogIO
  BY Runs DEF Good
<1>4. /\ M \in Nat /\ M >= 1 /\ IsSeq(Tail(bs)) /\ Len(Tail(bs)) = M - 1 /\ Head(bs) = bs[1]
      /\ \A n \in 1..(M - 1) : Tail(bs)[n] = bs[n + 1]
  BY <1>3, Seqs
<1>5. DOMAIN d = DbFields /\ Bounded(d.log) /\ d.purged.index \in 0..d.snap.index
  BY DEF Durable
<1>6. x.log = d.log /\ x.purged = d.purged /\ x.vote = d.vote /\ x.snap = id /\ DOMAIN x = DbFields
  BY <1>5 DEF SetCurrentSnapshot, DbFields
<1>7. note.op = "BuildSnapshotDone" /\ note.id = id /\ e.rs = r /\ e.cmds = cs /\ e = [rs |-> e.rs, cmds |-> e.cmds]
  OBVIOUS
<1>8. EngineOK(e, q)
  BY <1>2 DEF Running
<1>9. 1 \in 1..M
  BY <1>4
<1>10. /\ setting.installs = "none" /\ id \in Upto(MaxTerm) /\ d.snap.index <= id.index
       /\ id.index <= s.applied.index
  BY <1>3, <1>4, <1>9 DEF Working
<1>11. Len(cs) \in Nat /\ q[0].base \in Nat /\ q[0] \in Disk /\ \A n \in 0..Len(cs) : q[n].base \in Nat
  <2>1. Len(cs) \in Nat
    BY AtSnapshot, <1>2
  <2>2. 0 \in 0..Len(cs)
    BY <2>1
  <2> QED BY <1>2, <2>1, <2>2, AtSnapshot
<1> HIDE DEF x, note, e, z, N, M, top
<1>12. top = id.index /\ top \in Nat /\ top \in 0..Com(MaxTerm) /\ d.snap.index \in Nat /\ d.vote \in Vote
  <2>1. id.index \in 0..Com(MaxTerm) /\ Com(MaxTerm) \in Nat
    BY <1>10, ChosenIds, Commits
  <2> QED BY <2>1, Stored DEF top
<1>13. s.applied.index <= r.applySub.index
  <2>1. /\ p \in [0..Len(sq) -> Nat] /\ p[0] = s.applied.index + Len(b)
        /\ p[Len(sq)] = r.applySub.index
        /\ \A m, n \in 0..Len(sq) : m <= n => p[m] <= p[n]
    BY <1>1 DEF Chain
  <2>2. 0 \in 0..Len(sq) /\ Len(sq) \in 0..Len(sq) /\ 0 <= Len(sq) /\ Len(b) \in Nat
    <3>1. Len(sq) \in Nat /\ Len(b) \in Nat
      BY <1>3, Seqs
    <3> QED BY <3>1
  <2>3. p[0] <= p[Len(sq)] /\ p[0] \in Nat
    BY <2>1, <2>2
  <2> QED BY <1>3, <2>1, <2>2, <2>3
<1>14. top <= r.applySub.index /\ top <= r.applyAcc.index
  BY <1>3, <1>10, <1>12, <1>13
<1>15. \A m \in 1..Len(sq) : sq[m].op # "InstallFullSnapshot"
  BY <1>1, <1>10 DEF Chain, Carries
<1>16. q[0].base = d.snap.index
  BY <1>2, <1>15 DEF Running, Sent
<1>17. Loose(cs, q, r.applySub.index) /\ Closed(cs, q) /\ Accepted(r, q[Len(cs)])
  BY <1>7, <1>8 DEF EngineOK
<1>18. PICK f : /\ Loose(cs, f, r.applySub.index) /\ Closed(cs, f)
                /\ \A n \in 0..Len(cs) : /\ f[n].log = q[n].log /\ f[n].io = q[n].io
                                         /\ f[n].base = IF q[n].base < top THEN top ELSE q[n].base
  <2>1. r.applySub.index \in Nat /\ top \in Nat /\ top <= r.applySub.index
    BY <1>3, <1>12, <1>14
  <2> DEFINE sub == r.applySub.index
  <2> HIDE DEF sub
  <2>2. sub \in Nat /\ top \in Nat /\ top <= sub /\ Loose(cs, q, sub) /\ Closed(cs, q)
    BY <1>17, <2>1 DEF sub
  <2>3. \E f : /\ Loose(cs, f, sub) /\ Closed(cs, f)
               /\ \A n \in 0..Len(cs) : /\ f[n].log = q[n].log /\ f[n].io = q[n].io
                                        /\ f[n].base = IF q[n].base < top THEN top ELSE q[n].base
    BY <1>10, <2>2, Raise
  <2> QED BY <2>3, Zenon DEF sub
<1>19. 0 \in 0..Len(cs) /\ Len(cs) \in 0..Len(cs)
  BY <1>11
<1>20. f[0].base = top /\ f[0].log = q[0].log /\ f[0].io = q[0].io
  BY <1>10, <1>12, <1>16, <1>18, <1>19
<1>21. EngineOK(e, f)
  <2> DEFINE u == q[Len(cs)]
             w == f[Len(cs)]
  <2>1. /\ w.log = u.log /\ w.io = u.io /\ w.base = IF u.base < top THEN top ELSE u.base
        /\ u.base \in Nat
    BY <1>11, <1>18, <1>19
  <2>2. Accepted(r, u)
    BY <1>17
  <2> HIDE DEF u, w
  <2>3. w.base \in Nat /\ u.base <= w.base /\ w.base <= r.applyAcc.index
    <3>1. u.base <= r.applyAcc.index
      BY <2>2 DEF Accepted
    <3> QED BY <1>3, <1>12, <1>14, <2>1, <3>1
  <2>4. Agrees(r.ids, w.log, w.base)
    <3>1. \A i \in Nat : i > w.base => i > u.base
      BY <2>1, <2>3
    <3> QED BY <2>1, <2>2, <3>1 DEF Accepted, Agrees
  <2>5. r.snap.index <= w.base
    <3>1. r.snap.index <= u.base
      BY <2>2 DEF Accepted
    <3> QED BY <1>3, <2>1, <2>3, <3>1
  <2>6. Accepted(r, w)
    BY <1>10, <2>1, <2>2, <2>3, <2>4, <2>5 DEF Accepted
  <2> QED BY <1>7, <1>18, <2>6 DEF EngineOK, w
<1>22. Agrees(x.log, f[0].log, top) /\ Solid(f[0].log, top)
  <2>1. Agrees(d.log, q[0].log, q[0].base)
    BY <1>2 DEF Running
  <2>2. \A i \in Nat : i > top => i > q[0].base
    BY <1>10, <1>12, <1>16
  <2>3. Agrees(x.log, f[0].log, top)
    BY <1>6, <1>20, <2>1, <2>2 DEF Agrees
  <2>4. Solid(f[0].log, f[0].base)
    BY <1>18, <1>19 DEF Loose
  <2> QED BY <1>20, <2>3, <2>4
<1>23. top \in 0..Com(d.vote)
  <2>1. r.applySub \in Upto(d.vote)
    <3>1. d.vote = r.logSub.vote
      BY <1>2 DEF Running
    <3> QED BY <1>3, <3>1 DEF Working
  <2>2. r.applySub.index \in 0..Com(d.vote) /\ Com(d.vote) \in Nat
    BY <1>12, <2>1, ChosenIds, Commits
  <2> QED BY <1>12, <1>14, <2>2
<1>24. Durable(x)
  <2>1. id \in Upto(d.vote)
    <3>1. id = ChosenId(top)
      BY <1>10, <1>12, ChosenIds, Commits
    <3> QED BY <1>12, <1>23, <3>1, ChosenIds
  <2>2. x.purged.index \in 0..top
    BY <1>5, <1>6, <1>10, <1>12
  <2> QED BY <1>5, <1>6, <1>12, <1>22, <2>1, <2>2 DEF Durable
<1>25. Running(f, x, r, cs, sq)
  <2>1. Sent(f, x, cs, sq)
    BY <1>6, <1>12, <1>15, <1>20 DEF Sent
  <2>2. EngineOK([rs |-> r, cmds |-> cs], f)
    BY <1>21 DEF e
  <2>3. f[0].io = r.logSub /\ x.vote = r.logSub.vote
    BY <1>2, <1>6, <1>20 DEF Running
  <2> QED BY <1>14, <1>20, <1>22, <2>1, <2>2, <2>3 DEF Running
<1>26. Chain(p, x, r, sq, b, s)
  <2>1. \A c, i, j : Carries(c, d, i, j) => Carries(c, x, i, j)
    BY <1>6 DEF Carries
  <2> QED BY <1>1, <2>1 DEF Chain
<1>27. IsSeq(z) /\ N \in Nat /\ Len(z) = N + 1 /\ z[N + 1] = note /\ \A n \in 1..N : z[n] = ns[n]
  BY <1>3, Seqs DEF z, N
<1>28. Working(x, r, b, s, Tail(bs), z)
  <2>1. r.snapFlushed \in Upto(MaxTerm) /\ r.snapFlushed.index <= top
    <3>1. r.snapFlushed \in Upto(MaxTerm) /\ r.snapFlushed.index <= d.snap.index
      BY <1>3 DEF Working
    <3>2. r.snapFlushed.index \in Nat
      BY <3>1, ChosenIds, Commits
    <3> QED BY <1>10, <1>12, <3>1, <3>2
  <2>2. ASSUME NEW n \in 1..(N + 1), z[n].op \in {"BuildSnapshotDone", "InstallSnapshotDone"}
        PROVE  z[n].id \in Upto(MaxTerm) /\ z[n].id.index <= top
    <3>1. CASE n = N + 1
      BY <1>7, <1>10, <1>12, <1>27, <3>1
    <3>2. CASE n \in 1..N
      <4>1. z[n] = ns[n]
        BY <1>27, <3>2
      <4>2. ns[n].id \in Upto(MaxTerm) /\ ns[n].id.index <= d.snap.index
        BY <1>3, <2>2, <3>2, <4>1 DEF Working, N
      <4>3. ns[n].id.index \in Nat
        BY <4>2, ChosenIds, Commits
      <4> QED BY <1>10, <1>12, <4>1, <4>2, <4>3
    <3> QED BY <1>27, <3>1, <3>2
  <2>3. \A n \in 1..(M - 1) : n + 1 \in 1..M /\ Tail(bs)[n] = bs[n + 1] /\ 1 <= n + 1
    BY <1>4
  <2>4. /\ \A n \in 1..M : /\ bs[n].applied \in Upto(MaxTerm)
                           /\ bs[n].applied.index <= s.applied.index
        /\ \A m, n \in 1..M : m <= n => bs[m].applied.index <= bs[n].applied.index
    BY <1>3 DEF Working, M
  <2>5. \A n \in 1..(M - 1) : /\ Tail(bs)[n].applied \in Upto(MaxTerm)
                              /\ top <= Tail(bs)[n].applied.index
                              /\ Tail(bs)[n].applied.index <= s.applied.index
    <3>1. top = bs[1].applied.index
      BY <1>4 DEF top
    <3> QED BY <1>9, <2>3, <2>4, <3>1
  <2>6. \A m, n \in 1..(M - 1) : m <= n => Tail(bs)[m].applied.index <= Tail(bs)[n].applied.index
    <3>1. SUFFICES ASSUME NEW m \in 1..(M - 1), NEW n \in 1..(M - 1), m <= n
                   PROVE  Tail(bs)[m].applied.index <= Tail(bs)[n].applied.index
      OBVIOUS
    <3>2. m + 1 <= n + 1
      BY <3>1
    <3> QED BY <2>3, <2>4, <3>1, <3>2
  <2>7. x.snap.index = top /\ top <= s.applied.index
    BY <1>6, <1>10, <1>12
  <2>8. Len(z) = N + 1 /\ Len(Tail(bs)) = M - 1
    BY <1>4, <1>27
  <2>9. /\ s.applied \in Upto(MaxTerm) /\ r.applySub \in Upto(r.logSub.vote)
        /\ r.applySub.index <= r.applyAcc.index
        /\ \A n \in 1..Len(b) : b[n] = ChosenId(s.applied.index + n)
    BY <1>3 DEF Working
  <2> QED BY <1>3, <1>4, <1>10, <1>27, <2>1, <2>2, <2>5, <2>6, <2>7, <2>8, <2>9 DEF Working
<1> QED BY <1>24, <1>25, <1>26, <1>28 DEF Good, x, z, note

\* An empty database is one the process may have left.
LEMMA EmptyIsDurable ==
  ASSUME setting \in Settings
  PROVE  Durable(EmptyDb)
<1> DEFINE d == EmptyDb
           L == [i \in Nat |-> 0]
<1>1. DOMAIN d = DbFields /\ d.log = [i \in {} |-> 0] /\ d.vote = 0 /\ d.snap = NoLogId /\ d.purged = NoLogId
  BY DEF EmptyDb, DbFields
<1>2. NoLogId.index = 0
  BY DEF NoLogId
<1>3. 0 \in Vote /\ NoLogId \in Upto(0)
  BY Commits, ChosenIds
<1> HIDE DEF d
<1>4. Bounded(d.log)
  <2>1. DOMAIN d.log = {} /\ 0 \in Nat
    BY <1>1
  <2> QED BY <2>1, Zenon DEF Bounded
<1>5. Agrees(d.log, L, 0)
  BY <1>1 DEF Agrees
<1>6. Solid(L, 0)
  <2>1. \A i \in Nat : L[i] = 0
    OBVIOUS
  <2>2. L \in [Nat -> Nat]
    OBVIOUS
  <2> HIDE DEF L
  <2>3. NoHole(L, 0)
    BY <2>1 DEF NoHole
  <2>4. Matching(L, 0)
    <3>1. \A t \in Term : \A j \in 1..Own(t) : j \in Nat /\ L[j] # LeaderLog[t][j]
      BY <2>1, Terms
    <3> QED BY <3>1 DEF Matching
  <2> QED BY <2>2, <2>3, <2>4 DEF Solid
<1>7. \E K : Agrees(d.log, K, d.snap.index) /\ Solid(K, d.snap.index)
  <2> HIDE DEF L
  <2> QED BY <1>1, <1>2, <1>5, <1>6
<1>8. d.purged.index \in 0..d.snap.index
  BY <1>1, <1>2
<1> QED BY <1>1, <1>3, <1>4, <1>7, <1>8 DEF Durable, d

\* The purge of get_initial_state.
LEMMA PurgedIsDurable ==
  ASSUME setting \in Settings, NEW d, Durable(d)
  PROVE  Durable(PurgeRange(d, d.snap)) /\ PurgeRange(d, d.snap).snap = d.snap
<1> DEFINE x == PurgeRange(d, d.snap)
<1>1. DOMAIN d = DbFields /\ Bounded(d.log) /\ d.purged.index \in 0..d.snap.index /\ d.snap.index \in Nat
  BY Stored DEF Durable
<1>2. x.log = [i \in {j \in DOMAIN d.log : j > d.snap.index} |-> d.log[i]] /\ x.snap = d.snap
      /\ x.vote = d.vote /\ x.purged = d.snap /\ DOMAIN x = DbFields
  BY <1>1 DEF PurgeRange, DeleteUpto, PutPurged, DbFields, Restrict
<1> HIDE DEF x
<1>3. Bounded(x.log)
  BY <1>1, <1>2 DEF Bounded
<1>4. PICK L : Agrees(d.log, L, d.snap.index) /\ Solid(L, d.snap.index)
  BY DEF Durable
<1>5. Agrees(x.log, L, d.snap.index)
  BY <1>1, <1>2, <1>4 DEF Agrees
<1>6. d.vote \in Vote /\ d.snap \in Upto(d.vote)
  BY DEF Durable
<1>7. x.purged.index \in 0..x.snap.index
  BY <1>1, <1>2
<1>8. \E K : Agrees(x.log, K, x.snap.index) /\ Solid(K, x.snap.index)
  BY <1>2, <1>4, <1>5
<1> QED BY <1>2, <1>3, <1>6, <1>7, <1>8 DEF Durable, x

\* The state of the engine when the process starts.
LEMMA InitialIs ==
  ASSUME NEW d
  PROVE  LET r == InitialState(d)
             io == IOId(d.vote, NoLogId)
         IN /\ DOMAIN r = RsFields /\ r.logAcc = io /\ r.logSub = io /\ r.vote = d.vote
            /\ r.clusterCommitted = IOId(0, NoLogId) /\ r.applyAcc = d.snap /\ r.applySub = d.snap
            /\ r.snapFlushed = d.snap /\ r.snap = d.snap /\ r.purged = d.purged.index
            /\ r.triedAt = NoLogId
            /\ r.ids = [i \in DOMAIN d.log \cup ({d.purged.index} \ {0}) |->
                          IF i \in DOMAIN d.log THEN d.log[i] ELSE d.purged.term]
BY DEF InitialState, RsFields

\* The process starts with what the database holds.
LEMMA StartKeeps ==
  ASSUME setting \in Settings, NEW d, Durable(d), NEW s, s.applied = d.snap
  PROVE  Good(d, InitialState(d), <<>>, <<>>, <<>>, s, <<>>, <<>>)
<1> DEFINE r  == InitialState(d)
           io == IOId(d.vote, NoLogId)
           j  == d.snap.index
           e  == [rs |-> r, cmds |-> <<>>]
<1>1. /\ DOMAIN r = RsFields /\ r.logAcc = io /\ r.logSub = io /\ r.vote = d.vote
      /\ r.clusterCommitted = IOId(0, NoLogId) /\ r.applyAcc = d.snap /\ r.applySub = d.snap
      /\ r.snapFlushed = d.snap /\ r.snap = d.snap /\ r.purged = d.purged.index
      /\ r.triedAt = NoLogId
      /\ r.ids = [i \in DOMAIN d.log \cup ({d.purged.index} \ {0}) |->
                    IF i \in DOMAIN d.log THEN d.log[i] ELSE d.purged.term]
  BY InitialIs
<1>2. PICK L : Agrees(d.log, L, j) /\ Solid(L, j)
  BY DEF Durable
<1>3. /\ d.vote \in Vote /\ d.snap \in Upto(d.vote) /\ d.snap \in Upto(MaxTerm) /\ j \in Nat
      /\ Bounded(d.log) /\ d.purged.index \in 0..j
  BY Stored DEF Durable
<1>4. io \in LogIO /\ io.vote = d.vote /\ io.id = NoLogId /\ io.id.index = 0 /\ NoLogId.index = 0
  <2>1. 0 \in 0..Own(d.vote)
    BY <1>3, Commits
  <2>2. IdOf(d.vote, 0) = NoLogId
    BY <1>3, IOs
  <2> QED BY <1>3, <2>1, <2>2, IOs
<1>5. IsSeq(<<>>) /\ Len(<<>>) = 0
  BY Seqs
<1>6. e.rs = r /\ e.cmds = <<>> /\ e = [rs |-> e.rs, cmds |-> e.cmds]
  OBVIOUS
<1>7. IOId(0, NoLogId).vote = 0 /\ IOId(0, NoLogId).id = NoLogId /\ 0 \in Vote /\ NoLogId \in Upto(0)
  BY Commits, ChosenIds DEF IOId
<1> DEFINE x == [log |-> L, base |-> j, io |-> io]
<1>8. x.log = L /\ x.base = j /\ x.io = io /\ x \in Disk
  BY <1>2, <1>3, <1>4 DEF Disk, Solid
<1> HIDE DEF r, io, j, e, x
<1>9. Accepted(r, x)
  <2>1. Bounded(r.ids)
    <3>1. PICK b \in Nat : \A i \in DOMAIN d.log : i <= b
      BY <1>3 DEF Bounded
    <3>2. DOMAIN d.log \subseteq Nat /\ d.purged.index \in Nat
      BY <1>3 DEF Bounded
    <3>3. DOMAIN r.ids = DOMAIN d.log \cup ({d.purged.index} \ {0})
      BY <1>1
    <3>4. DOMAIN r.ids \subseteq Nat
      BY <3>2, <3>3
    <3> DEFINE top == b + d.purged.index
    <3>5. top \in Nat /\ \A i \in DOMAIN r.ids : i <= top
      <4>1. SUFFICES ASSUME NEW i \in DOMAIN r.ids PROVE i <= top
        BY <3>2
      <4>2. i \in DOMAIN d.log \/ i = d.purged.index
        BY <3>3
      <4> QED BY <3>1, <3>2, <4>2
    <3> HIDE DEF top
    <3> QED BY <3>4, <3>5 DEF Bounded
  <2>2. Agrees(r.ids, L, j)
    <3>1. \A i \in Nat : i > j => i # d.purged.index
      BY <1>3
    <3> QED BY <1>1, <1>2, <3>1 DEF Agrees
  <2>3. r.snap.index = j /\ r.applyAcc.index = j /\ j <= j
    BY <1>1, <1>3 DEF j
  <2>4. \A i \in Nat : ~ (j < i /\ i <= j)
    BY <1>3
  <2> QED BY <1>1, <1>3, <1>4, <1>7, <1>8, <2>1, <2>2, <2>3, <2>4 DEF Accepted
<1> DEFINE q == [n \in 0..0 |-> x]
           p == [n \in 0..0 |-> j]
<1>10. q \in [0..0 -> Disk] /\ q[0] = x /\ p \in [0..0 -> Nat] /\ p[0] = j /\ \A n \in 0..0 : n = 0
  BY <1>3, <1>8
<1>11. \A n \in 1..0 : FALSE
  OBVIOUS
<1>12. \A n \in 1..(0 - 1) : FALSE
  OBVIOUS
<1> HIDE DEF q, p
<1>13. IOLe(x.io, x.io) /\ x.base <= x.base
  <2>1. io.vote \in Nat
    BY <1>4, IOs
  <2> QED BY <1>3, <1>4, <1>8, <2>1 DEF IOLe
<1>14. Loose(<<>>, q, r.applySub.index)
  <2>1. \A n \in 0..Len(<<>>) : Solid(q[n].log, q[n].base)
    BY <1>2, <1>5, <1>8, <1>10
  <2>2. \A m, n \in 0..Len(<<>>) : m <= n => IOLe(q[m].io, q[n].io) /\ q[m].base <= q[n].base
    BY <1>5, <1>10, <1>13
  <2>3. \A n \in 1..Len(<<>>) : FALSE
    BY <1>5, <1>11
  <2>4. \A n \in 1..(Len(<<>>) - 1) : FALSE
    BY <1>5, <1>12
  <2>5. q \in [0..Len(<<>>) -> Disk]
    BY <1>5, <1>10
  <2> QED BY <1>5, <2>1, <2>2, <2>3, <2>4, <2>5, Zenon DEF Loose
<1>15. Closed(<<>>, q)
  <2>1. Kept(x)
    <3>1. \A i \in Nat : ~ (j < i /\ i <= 0)
      BY <1>3
    <3> QED BY <1>4, <1>8, <3>1 DEF Kept, Matches
  <2> QED BY <1>5, <1>10, <2>1 DEF Closed
<1>16. EngineOK(e, q)
  BY <1>5, <1>6, <1>9, <1>10, <1>14, <1>15 DEF EngineOK
<1>17. Running(q, d, r, <<>>, <<>>)
  <2>1. Sent(q, d, <<>>, <<>>)
    <3>1. ~ \E m \in 1..Len(<<>>) : <<>>[m].op = "InstallFullSnapshot"
      BY <1>5, <1>11
    <3> QED BY <1>8, <1>10, <3>1, Zenon DEF Sent, j
  <2>2. q[0].base <= r.applySub.index
    BY <1>1, <1>3, <1>8, <1>10 DEF j
  <2>3. Agrees(d.log, q[0].log, q[0].base) /\ q[0].io = r.logSub /\ d.vote = r.logSub.vote
    BY <1>1, <1>2, <1>4, <1>8, <1>10
  <2>4. EngineOK([rs |-> r, cmds |-> <<>>], q)
    BY <1>16 DEF e
  <2> QED BY <2>1, <2>2, <2>3, <2>4 DEF Running
<1>18. Chain(p, d, r, <<>>, <<>>, s)
  <2>1. \A m \in 1..Len(<<>>) : FALSE
    BY <1>5, <1>11
  <2>2. p[0] = s.applied.index + Len(<<>>)
    BY <1>3, <1>5, <1>10 DEF j
  <2>3. p[Len(<<>>)] = r.applySub.index
    BY <1>1, <1>5, <1>10 DEF j
  <2>4. p \in [0..Len(<<>>) -> Nat]
    BY <1>5, <1>10
  <2>5. \A m, n \in 0..Len(<<>>) : m <= n => p[m] <= p[n]
    BY <1>3, <1>5, <1>10
  <2> QED BY <1>5, <2>1, <2>2, <2>3, <2>4, <2>5, Zenon DEF Chain
<1>19. Working(d, r, <<>>, s, <<>>, <<>>)
  <2>1. \A m \in 1..Len(<<>>) : FALSE
    BY <1>5, <1>11
  <2>2. d.snap.index <= d.snap.index
    BY <1>3 DEF j
  <2>3. r.logSub.vote = d.vote
    BY <1>1, <1>4
  <2> QED BY <1>1, <1>3, <1>5, <2>1, <2>2, <2>3, Zenon DEF Working
<1> QED BY <1>17, <1>18, <1>19 DEF Good, r
----------------------------------------------------------------------------
(* The steps of the node.                                                  *)

\* The invariant after a step, with the setting of before.
LEMMA After ==
  ASSUME setting' = setting, setting \in Settings, Durable(db'),
         up' => Good(db', rs', cmds', smq', batch', sm', builder', notes'),
         ~up' => cmds' = <<>> /\ smq' = <<>> /\ batch' = <<>> /\ builder' = <<>> /\ notes' = <<>>
  PROVE  NodeInv'
<1>1. Durable(db)'
  BY Frozen
<1>2. (up => Good(db, rs, cmds, smq, batch, sm, builder, notes))'
  BY Frozen
<1> QED BY <1>1, <1>2 DEF NodeInv

\* Requests of leaders.
LEMMA ReceiveKeeps ==
  ASSUME NodeInv, Receive, setting' = setting
  PROVE  NodeInv' /\ rs'.logSub = rs.logSub
<1> DEFINE e == [rs |-> rs, cmds |-> cmds]
<1>1. up /\ Idle
  BY DEF Receive, AppendEntriesRequest, InstallSnapshotRequest, Idle
<1>2. setting \in Settings /\ Durable(db) /\ Good(db, rs, cmds, smq, batch, sm, builder, notes)
  BY <1>1 DEF NodeInv
<1>3. e.rs = rs /\ e.cmds = cmds /\ Engine = e
  BY DEF Engine
<1>4. /\ rs.applySub.index \in Nat /\ rs.applySub.index <= rs.applyAcc.index
      /\ IsSeq(cmds) /\ DOMAIN cmds = 1..Len(cmds)
  BY <1>2, Runs, Seqs
<1>5. \A q : Running(q, db, rs, cmds, smq) => EngineOK(e, q)
  BY DEF Running
<1>6. \A t \in Term : Own(t) = Len(LeaderLog[t]) /\ Com(t) = Committed[t]
  <2>1. \A t \in Term : t \in Nat /\ t > 0
    BY <1>2, Terms
  <2> QED BY <2>1 DEF Own, Com
<1> HIDE DEF e
<1>7. ASSUME NEW f, \A q : EngineOK(e, q) => Follows(e, q, f), SetEngine(f),
             UNCHANGED <<up, db, inflight, smq, batch, sm, builder, notes>>
      PROVE  NodeInv' /\ rs'.logSub = rs.logSub
  <2>1. \A q : Running(q, db, rs, cmds, smq) => Follows([rs |-> rs, cmds |-> cmds], q, f)
    BY <1>5, <1>7 DEF e
  <2>2. Good(db, f.rs, f.cmds, smq, batch, sm, builder, notes)
    BY <1>2, <2>1, MessageKeeps
  <2>3. /\ rs' = f.rs /\ cmds' = f.cmds /\ up' = up /\ db' = db /\ smq' = smq /\ batch' = batch
        /\ sm' = sm /\ builder' = builder /\ notes' = notes
    BY <1>7 DEF SetEngine
  <2>4. NodeInv'
    BY <1>1, <1>2, <2>2, <2>3, After
  <2>5. PICK q : Running(q, db, rs, cmds, smq)
    BY <1>2 DEF Good
  <2>6. Follows(e, q, f)
    BY <1>5, <1>7, <2>5
  <2>7. f.rs.logSub = e.rs.logSub
    BY <2>6 DEF Follows, Grown
  <2> QED BY <1>3, <2>3, <2>4, <2>7
<1>8. ASSUME NEW t \in Term, NEW prev \in 0..Len(LeaderLog[t]),
             NEW last \in prev..Len(LeaderLog[t]), NEW commit \in 0..Committed[t],
             AppendEntriesRequest(t, prev, last, commit)
      PROVE  NodeInv' /\ rs'.logSub = rs.logSub
  <2> DEFINE f == UpdateCommitted(EngineAppend(e, t, prev, last), IOId(t, IdOf(t, commit)))
  <2>1. prev \in 0..Own(t) /\ last \in prev..Own(t) /\ commit \in 0..Com(t)
    BY <1>6
  <2>2. ASSUME NEW q, EngineOK(e, q) PROVE Follows(e, q, f)
    <3>1. e.rs.applySub.index \in Nat /\ e.rs.applySub.index <= e.rs.applyAcc.index
      BY <1>3, <1>4
    <3> QED BY <1>2, <2>1, <2>2, <3>1, RequestKeeps
  <2>3. SetEngine(f) /\ UNCHANGED <<up, db, inflight, smq, batch, sm, builder, notes>>
    BY <1>3, <1>8 DEF AppendEntriesRequest
  <2> HIDE DEF f
  <2> QED BY <1>7, <2>2, <2>3
<1>9. ASSUME NEW t \in Term, NEW i \in 1..Committed[t], NEW j \in i..Committed[t],
             Sendable(t, i), InstallSnapshotRequest(t, i, j)
      PROVE  NodeInv' /\ rs'.logSub = rs.logSub
  <2> DEFINE snap == [snap |-> IdOf(t, i), kvs |-> StateAt[j], mem |-> MemAt[i]]
             f == EngineInstall(e, t, snap)
  <2>1. i \in 1..Com(t) /\ snap.snap = IdOf(t, i)
    BY <1>6
  <2>2. setting.installs # "none" /\ ~ IOLt(IOId(t, IdOf(t, i)), rs.logAcc) /\ t >= rs.vote
    BY <1>9 DEF Sendable, InstallSnapshotRequest
  <2>3. \A n \in 1..Len(cmds) : cmds[n].op # "UpdateIOProgress"
    <3>1. \A c \in Range(cmds) : c.op # "UpdateIOProgress"
      BY <1>9 DEF Sendable
    <3> QED BY <1>4, <3>1 DEF Range
  <2>4. SetEngine(f) /\ UNCHANGED <<up, db, inflight, smq, batch, sm, builder, notes>>
    BY <1>3, <1>9, Zenon DEF InstallSnapshotRequest
  <2> HIDE DEF snap
  <2>5. ASSUME NEW q, EngineOK(e, q) PROVE Follows(e, q, f)
    <3>1. e.rs.applySub.index \in Nat /\ e.rs.applySub.index <= e.rs.applyAcc.index
      BY <1>3, <1>4
    <3>2. /\ t >= e.rs.vote /\ ~ IOLt(IOId(t, IdOf(t, i)), e.rs.logAcc)
          /\ \A n \in 1..Len(e.cmds) : e.cmds[n].op # "UpdateIOProgress"
      BY <1>3, <2>2, <2>3
    <3> QED BY <1>2, <2>1, <2>2, <2>5, <3>1, <3>2, EngineInstallKeeps
  <2> HIDE DEF f
  <2> QED BY <1>7, <2>4, <2>5
<1> QED BY <1>8, <1>9 DEF Receive

\* The commands RaftCore runs.
LEMMA CommandKeeps ==
  ASSUME NodeInv, setting' = setting,
         SaveVote \/ TruncateLog \/ AppendEntries \/ UpdateIOProgress \/ PurgeLog \/ SendToStateMachine
  PROVE  NodeInv'
<1> DEFINE c == Head(cmds)
<1>1. up /\ cmds # <<>> /\ Ready(c)
  BY DEF SaveVote, TruncateLog, AppendEntries, UpdateIOProgress, PurgeLog, SendToStateMachine, Runnable
<1>2. setting \in Settings /\ Durable(db) /\ Good(db, rs, cmds, smq, batch, sm, builder, notes)
  BY <1>1 DEF NodeInv
<1> HIDE DEF c
<1>3. CASE SaveVote
  <2> DEFINE x == PutVote(db, c.vote)
             g == [rs EXCEPT !.logSub = IOId(c.vote, NoLogId)]
  <2>1. c.op = "SaveVote" /\ up' = up /\ db' = x /\ rs' = g /\ cmds' = Tail(cmds) /\ smq' = smq
        /\ batch' = batch /\ sm' = sm /\ builder' = builder /\ notes' = notes
    BY <1>3 DEF SaveVote, c
  <2>2. Durable(x) /\ Good(x, g, Tail(cmds), smq, batch, sm, builder, notes)
    BY <1>1, <1>2, <2>1, SaveVoteKeeps DEF c
  <2> HIDE DEF x, g
  <2> QED BY <1>1, <1>2, <2>1, <2>2, After
<1>4. CASE TruncateLog
  <2> DEFINE x == DeleteFrom(db, c.since)
  <2>1. c.op = "TruncateLog" /\ up' = up /\ db' = x /\ rs' = rs /\ cmds' = Tail(cmds) /\ smq' = smq
        /\ batch' = batch /\ sm' = sm /\ builder' = builder /\ notes' = notes
    BY <1>4 DEF TruncateLog, c
  <2>2. Durable(x) /\ Good(x, rs, Tail(cmds), smq, batch, sm, builder, notes)
    BY <1>1, <1>2, <2>1, TruncateLogKeeps DEF c
  <2> HIDE DEF x
  <2> QED BY <1>1, <1>2, <2>1, <2>2, After
<1>5. CASE AppendEntries
  <2> DEFINE x == PutEntries(db, c.base, c.es, Len(c.es))
             g == [rs EXCEPT !.logSub = IOId(c.vote, [term |-> c.es[Len(c.es)], index |-> c.base + Len(c.es)])]
  <2>1. c.op = "AppendEntries" /\ up' = up /\ db' = x /\ rs' = g /\ cmds' = Tail(cmds) /\ smq' = smq
        /\ batch' = batch /\ sm' = sm /\ builder' = builder /\ notes' = notes
    BY <1>5, Zenon DEF AppendEntries, c
  <2>2. Durable(x) /\ Good(x, g, Tail(cmds), smq, batch, sm, builder, notes)
    BY <1>1, <1>2, <2>1, AppendEntriesKeeps DEF c
  <2> HIDE DEF x, g
  <2> QED BY <1>1, <1>2, <2>1, <2>2, After
<1>6. CASE UpdateIOProgress
  <2> DEFINE g == [rs EXCEPT !.logSub = c.io]
  <2>1. c.op = "UpdateIOProgress" /\ up' = up /\ db' = db /\ rs' = g /\ cmds' = Tail(cmds) /\ smq' = smq
        /\ batch' = batch /\ sm' = sm /\ builder' = builder /\ notes' = notes
    BY <1>6 DEF UpdateIOProgress, c
  <2>2. Good(db, g, Tail(cmds), smq, batch, sm, builder, notes)
    BY <1>1, <1>2, <2>1, UpdateIOProgressKeeps DEF c
  <2> HIDE DEF g
  <2> QED BY <1>1, <1>2, <2>1, <2>2, After
<1>7. CASE PurgeLog
  <2> DEFINE x == PurgeRange(db, c.upto)
  <2>1. c.op = "PurgeLog" /\ up' = up /\ db' = x /\ rs' = rs /\ cmds' = Tail(cmds) /\ smq' = smq
        /\ batch' = batch /\ sm' = sm /\ builder' = builder /\ notes' = notes
    BY <1>7 DEF PurgeLog, c
  <2>2. ~ LogIdLt(rs.snapFlushed, c.upto)
    BY <1>1, <2>1 DEF Ready
  <2>3. Durable(x) /\ Good(x, rs, Tail(cmds), smq, batch, sm, builder, notes)
    BY <1>1, <1>2, <2>1, <2>2, PurgeLogKeeps DEF c
  <2> HIDE DEF x
  <2> QED BY <1>1, <1>2, <2>1, <2>3, After
<1>8. CASE SendToStateMachine
  <2>1. /\ c.op \in {"InstallFullSnapshot", "BuildSnapshot"}
        /\ rs' = IF c.op = "BuildSnapshot" THEN rs
                 ELSE [rs EXCEPT !.logSub = c.io, !.applySub = c.snap.snap]
        /\ up' = up /\ db' = db /\ cmds' = Tail(cmds) /\ smq' = Append(smq, c)
        /\ batch' = batch /\ sm' = sm /\ builder' = builder /\ notes' = notes
    BY <1>8, Zenon DEF SendToStateMachine, Send, c
  <2>2. CASE c.op = "BuildSnapshot"
    <3>1. Good(db, rs, Tail(cmds), Append(smq, c), batch, sm, builder, notes)
      BY <1>1, <1>2, <2>2, BuildSent DEF c
    <3> QED BY <1>1, <1>2, <2>1, <2>2, <3>1, After
  <2>3. CASE c.op = "InstallFullSnapshot"
    <3> DEFINE g == [rs EXCEPT !.logSub = c.io, !.applySub = c.snap.snap]
    <3>1. Good(db, g, Tail(cmds), Append(smq, c), batch, sm, builder, notes)
      BY <1>1, <1>2, <2>3, InstallSent DEF c
    <3>2. rs' = g
      BY <2>1, <2>3
    <3> HIDE DEF g
    <3> QED BY <1>1, <1>2, <2>1, <3>1, <3>2, After
  <2> QED BY <2>1, <2>2, <2>3
<1> QED BY <1>3, <1>4, <1>5, <1>6, <1>7, <1>8

\* Committed entries are sent to the state machine.
LEMMA ApplyKeeps ==
  ASSUME NodeInv, setting' = setting, SaveCommittedAndApply
  PROVE  NodeInv'
<1> DEFINE upto == MinId(rs.logSub.id, rs.applyAcc)
           g == [rs EXCEPT !.applySub = upto]
           c == [op |-> "Apply", since |-> rs.applySub.index + 1, last |-> upto]
<1>1. /\ up' = up /\ db' = db /\ rs' = g /\ cmds' = cmds /\ smq' = Append(smq, c)
      /\ batch' = batch /\ sm' = sm /\ builder' = builder /\ notes' = notes
      /\ up /\ ~ Runnable /\ rs.logSub.vote = rs.logAcc.vote /\ rs.applySub.index < upto.index
  BY DEF SaveCommittedAndApply, Send, Applicable, ApplyUpto
<1>2. setting \in Settings /\ Durable(db) /\ Good(db, rs, cmds, smq, batch, sm, builder, notes)
  BY <1>1 DEF NodeInv
<1>3. cmds # <<>> => Head(cmds).op = "PurgeLog" \/ Head(cmds).op = "UpdateIOProgress"
  BY <1>1 DEF Runnable, Ready
<1>4. Good(db, g, cmds, Append(smq, c), batch, sm, builder, notes)
  BY <1>1, <1>2, <1>3, ApplySent
<1> HIDE DEF g, c
<1> QED BY <1>1, <1>2, <1>4, After

\* Notifications, and the snapshot policy.
LEMMA RoutineKeeps ==
  ASSUME SnapshotsSeparate, NodeInv, setting' = setting,
         (\E n \in inflight : LocalIO(n)) \/ BuildSnapshotDone \/ InstallSnapshotDone \/ TriggerSnapshot
  PROVE  NodeInv'
<1>1. up
  BY DEF LocalIO, BuildSnapshotDone, InstallSnapshotDone, TriggerSnapshot, Idle
<1>2. setting \in Settings /\ Durable(db) /\ Good(db, rs, cmds, smq, batch, sm, builder, notes)
  BY <1>1 DEF NodeInv
<1>3. DOMAIN rs = RsFields /\ rs.triedAt.index \in Nat
      /\ rs.snapFlushed \in Upto(MaxTerm) /\ rs.snapFlushed.index <= db.snap.index
  <2>1. DOMAIN rs = RsFields
    BY <1>2, Runs
  <2>2. rs.triedAt.index \in Nat
    BY <1>2 DEF Good, Running, EngineOK, Accepted
  <2>3. rs.snapFlushed \in Upto(MaxTerm) /\ rs.snapFlushed.index <= db.snap.index
    BY <1>2 DEF Good, Working
  <2> QED BY <2>1, <2>2, <2>3
<1>4. ASSUME NEW n \in inflight, LocalIO(n) PROVE NodeInv'
  <2> DEFINE g == [rs EXCEPT !.logFlushed = IF IOLt(rs.logFlushed, n.io) THEN n.io ELSE rs.logFlushed]
  <2>1. /\ up' = up /\ db' = db /\ rs' = g /\ cmds' = cmds /\ smq' = smq
        /\ batch' = batch /\ sm' = sm /\ builder' = builder /\ notes' = notes
    BY <1>4 DEF LocalIO
  <2>2. /\ DOMAIN g = RsFields /\ g.logAcc = rs.logAcc /\ g.logSub = rs.logSub
        /\ g.clusterCommitted = rs.clusterCommitted /\ g.applyAcc = rs.applyAcc
        /\ g.applySub = rs.applySub /\ g.vote = rs.vote /\ g.purged = rs.purged /\ g.ids = rs.ids
        /\ g.triedAt = rs.triedAt /\ g.snapFlushed = rs.snapFlushed /\ g.snap = rs.snap
    BY <1>3 DEF RsFields
  <2> HIDE DEF g
  <2>3. Good(db, g, cmds, smq, batch, sm, builder, notes)
    BY <1>2, <1>3, <2>2, Noted
  <2> QED BY <1>1, <1>2, <2>1, <2>3, After
<1>5. CASE BuildSnapshotDone
  <2> DEFINE f == BuildingSnapshotDone([rs |-> rs, cmds |-> cmds], Head(notes).id)
  <2>1. /\ up' = up /\ db' = db /\ rs' = f.rs /\ cmds' = f.cmds /\ smq' = smq
        /\ batch' = batch /\ sm' = sm /\ builder' = builder /\ notes' = Tail(notes)
        /\ notes # <<>> /\ Head(notes).op = "BuildSnapshotDone"
    BY <1>5, Zenon DEF BuildSnapshotDone, SetEngine, Engine
  <2>2. /\ Good(db, rs, cmds, smq, batch, sm, builder, Tail(notes))
        /\ Head(notes).id \in Upto(MaxTerm) /\ Head(notes).id.index <= db.snap.index
        /\ setting.installs = "none"
    BY <1>2, <2>1, Taken
  <2>3. Good(db, f.rs, f.cmds, smq, batch, sm, builder, Tail(notes))
    BY <1>2, <2>2, BuildingSnapshotDoneKeeps
  <2> HIDE DEF f
  <2> QED BY <1>1, <1>2, <2>1, <2>3, After
<1>6. CASE InstallSnapshotDone
  <2> DEFINE io == Head(notes).io
             top == MaxId(rs.snapFlushed, Head(notes).id)
             g == [rs EXCEPT !.logFlushed = IF IOLt(rs.logFlushed, io) THEN io ELSE rs.logFlushed,
                             !.snapFlushed = top]
  <2>1. /\ up' = up /\ db' = db /\ rs' = g /\ cmds' = cmds /\ smq' = smq
        /\ batch' = batch /\ sm' = sm /\ builder' = builder /\ notes' = Tail(notes)
        /\ notes # <<>> /\ Head(notes).op = "InstallSnapshotDone"
    BY <1>6 DEF InstallSnapshotDone
  <2>2. /\ Good(db, rs, cmds, smq, batch, sm, builder, Tail(notes))
        /\ Head(notes).id \in Upto(MaxTerm) /\ Head(notes).id.index <= db.snap.index
    BY <1>2, <2>1, Taken
  <2>3. top \in Upto(MaxTerm) /\ top.index <= db.snap.index
    BY <1>3, <2>2 DEF MaxId
  <2> HIDE DEF top
  <2>4. /\ DOMAIN g = RsFields /\ g.logAcc = rs.logAcc /\ g.logSub = rs.logSub
        /\ g.clusterCommitted = rs.clusterCommitted /\ g.applyAcc = rs.applyAcc
        /\ g.applySub = rs.applySub /\ g.vote = rs.vote /\ g.purged = rs.purged /\ g.ids = rs.ids
        /\ g.triedAt = rs.triedAt /\ g.snapFlushed = top /\ g.snap = rs.snap
    BY <1>3 DEF RsFields
  <2> HIDE DEF g
  <2>5. Good(db, g, cmds, smq, batch, sm, builder, Tail(notes))
    BY <1>2, <1>3, <2>2, <2>3, <2>4, Noted
  <2> QED BY <1>1, <1>2, <2>1, <2>5, After
<1>7. CASE TriggerSnapshot
  <2> DEFINE f == QueueBuild([[rs |-> rs, cmds |-> cmds] EXCEPT !.rs.triedAt = rs.applyAcc])
  <2>1. /\ up' = up /\ db' = db /\ rs' = f.rs /\ cmds' = f.cmds /\ smq' = smq
        /\ batch' = batch /\ sm' = sm /\ builder' = builder /\ notes' = notes
        /\ rs.applyAcc.index >= MaxId(rs.triedAt, rs.snap).index + setting.threshold
    BY <1>7, Zenon DEF TriggerSnapshot, SetEngine, Engine, ShouldSnapshot
  <2>2. Good(db, f.rs, f.cmds, smq, batch, sm, builder, notes)
    BY <1>2, <2>1, TriggerKeeps
  <2> HIDE DEF f
  <2> QED BY <1>1, <1>2, <2>1, <2>2, After
<1> QED BY <1>4, <1>5, <1>6, <1>7

\* The worker and the builder.
LEMMA WorkerKeeps ==
  ASSUME NodeInv, setting' = setting, Worker \/ BuilderDone
  PROVE  NodeInv'
<1>1. up
  BY DEF Worker, BuilderDone, GetSnapshotBuilder, InstallSnapshot, ReadEntries, ApplyOne, WorkerFree
<1>2. setting \in Settings /\ Durable(db) /\ Good(db, rs, cmds, smq, batch, sm, builder, notes)
  BY <1>1 DEF NodeInv
<1> DEFINE c == Head(smq)
<1>3. CASE GetSnapshotBuilder
  <2> DEFINE z == Append(builder, [applied |-> sm.applied, mem |-> sm.mem])
  <2>1. /\ up' = up /\ db' = db /\ rs' = rs /\ cmds' = cmds /\ smq' = Tail(smq)
        /\ batch' = batch /\ sm' = sm /\ builder' = z /\ notes' = notes
        /\ batch = <<>> /\ smq # <<>> /\ c.op = "BuildSnapshot"
    BY <1>3 DEF GetSnapshotBuilder, WorkerFree
  <2>2. Good(db, rs, cmds, Tail(smq), batch, sm, z, notes)
    BY <1>2, <2>1, GetSnapshotBuilderKeeps
  <2> HIDE DEF z
  <2> QED BY <1>1, <1>2, <2>1, <2>2, After
<1>4. CASE InstallSnapshot
  <2> DEFINE x == SetCurrentSnapshot(db, c.snap)
             t == StateOf(c.snap)
             z == Append(notes, [op |-> "InstallSnapshotDone", id |-> c.snap.snap, io |-> c.io])
  <2>1. /\ up' = up /\ db' = x /\ rs' = rs /\ cmds' = cmds /\ smq' = Tail(smq)
        /\ batch' = batch /\ sm' = t /\ builder' = builder /\ notes' = z
        /\ batch = <<>> /\ smq # <<>> /\ c.op = "InstallFullSnapshot"
    BY <1>4, Zenon DEF InstallSnapshot, WorkerFree, Respond
  <2>2. Durable(x) /\ Good(x, rs, cmds, Tail(smq), batch, t, builder, z)
    BY <1>2, <2>1, InstallSnapshotKeeps
  <2> HIDE DEF x, t, z
  <2> QED BY <1>1, <1>2, <2>1, <2>2, After
<1>5. CASE ReadEntries
  <2> DEFINE a == TryGetLogEntries(db, c.since, c.last.index)
  <2>1. /\ up' = up /\ db' = db /\ rs' = rs /\ cmds' = cmds /\ smq' = Tail(smq)
        /\ batch' = a /\ sm' = sm /\ builder' = builder /\ notes' = notes
        /\ batch = <<>> /\ smq # <<>> /\ c.op = "Apply"
    BY <1>5 DEF ReadEntries, WorkerFree
  <2>2. Good(db, rs, cmds, Tail(smq), a, sm, builder, notes)
    BY <1>2, <2>1, ReadEntriesKeeps
  <2> HIDE DEF a
  <2> QED BY <1>1, <1>2, <2>1, <2>2, After
<1>6. CASE ApplyOne
  <2> DEFINE id == Head(batch)
             t == [applied |-> id, mem |-> MemOp(sm.mem, id), kvs |-> ApplyOp(sm.kvs, id)]
  <2>1. /\ up' = up /\ db' = db /\ rs' = rs /\ cmds' = cmds /\ smq' = smq
        /\ batch' = Tail(batch) /\ sm' = t /\ builder' = builder /\ notes' = notes
        /\ batch # <<>> /\ t.applied = Head(batch)
    BY <1>6, Zenon DEF ApplyOne
  <2> HIDE DEF t
  <2>2. Good(db, rs, cmds, smq, Tail(batch), t, builder, notes)
    BY <1>2, <2>1, ApplyOneKeeps
  <2> QED BY <1>1, <1>2, <2>1, <2>2, After
<1>7. CASE BuilderDone
  <2> DEFINE x == SetCurrentSnapshot(db, [snap |-> Head(builder).applied,
                                          mem |-> Head(builder).mem, kvs |-> sm.kvs])
             z == Append(notes, [op |-> "BuildSnapshotDone", id |-> Head(builder).applied])
  <2>1. /\ up' = up /\ db' = x /\ rs' = rs /\ cmds' = cmds /\ smq' = smq
        /\ batch' = batch /\ sm' = sm /\ builder' = Tail(builder) /\ notes' = z
        /\ builder # <<>>
    BY <1>7, Zenon DEF BuilderDone, Respond
  <2>2. Durable(x) /\ Good(x, rs, cmds, smq, batch, sm, Tail(builder), z)
    BY <1>2, <2>1, BuilderDoneKeeps
  <2> HIDE DEF x, z
  <2> QED BY <1>1, <1>2, <2>1, <2>2, After
<1> QED BY <1>3, <1>4, <1>5, <1>6, <1>7 DEF Worker

\* The process dies and starts again.
LEMMA RestartKeeps ==
  ASSUME NodeInv, setting' = setting, Crash \/ Start
  PROVE  NodeInv'
<1>1. setting \in Settings /\ Durable(db)
  BY DEF NodeInv
<1>2. CASE Crash
  <2>1. /\ ~ up' /\ db' = db
        /\ cmds' = <<>> /\ smq' = <<>> /\ batch' = <<>> /\ builder' = <<>> /\ notes' = <<>>
    BY <1>2 DEF Crash
  <2> QED BY <1>1, <2>1, After
<1>3. CASE Start
  <2> DEFINE d == IF LogIdLt(LastLogId(db), db.snap) THEN PurgeRange(db, db.snap) ELSE db
             t == RestoreFromSnapshot(StateOf(CurrentSnapshot(db)), db)
  <2>1. /\ ~ up /\ db' = d /\ rs' = InitialState(d) /\ sm' = t
        /\ cmds' = cmds /\ smq' = smq /\ batch' = batch /\ builder' = builder /\ notes' = notes
    BY <1>3, Zenon DEF Start
  <2>2. Durable(d) /\ d.snap = db.snap
    BY <1>1, PurgedIsDurable
  <2>3. t.applied = db.snap
    BY DEF RestoreFromSnapshot, StateOf, CurrentSnapshot
  <2> HIDE DEF d, t
  <2>4. cmds = <<>> /\ smq = <<>> /\ batch = <<>> /\ builder = <<>> /\ notes = <<>>
    BY <2>1 DEF NodeInv
  <2>5. Good(d, InitialState(d), <<>>, <<>>, <<>>, t, <<>>, <<>>)
    BY <1>1, <2>2, <2>3, StartKeeps
  <2> QED BY <1>1, <2>1, <2>2, <2>4, <2>5, After
<1> QED BY <1>2, <1>3

\* The node starts with an empty database.
LEMMA InitKeeps ==
  ASSUME Init
  PROVE  NodeInv
<1>1. setting \in Settings /\ up /\ db = EmptyDb /\ rs = InitialState(EmptyDb)
      /\ cmds = <<>> /\ smq = <<>> /\ batch = <<>> /\ builder = <<>> /\ notes = <<>>
      /\ sm.applied = EmptyDb.snap
  BY DEF Init, EmptyDb
<1>2. Durable(EmptyDb)
  BY <1>1, EmptyIsDurable
<1>3. Good(EmptyDb, InitialState(EmptyDb), <<>>, <<>>, <<>>, sm, <<>>, <<>>)
  BY <1>1, <1>2, StartKeeps
<1> QED BY <1>1, <1>2, <1>3 DEF NodeInv

\* Every step keeps the invariant.
LEMMA NextKeeps ==
  ASSUME SnapshotsSeparate, NodeInv, [Next /\ UNCHANGED setting]_<<vars, setting>>
  PROVE  NodeInv'
<1>1. CASE UNCHANGED <<vars, setting>>
  BY <1>1, After DEF vars, NodeInv
<1>2. CASE Next /\ UNCHANGED setting
  <2>1. setting' = setting
    BY <1>2
  <2>2. CASE Receive
    BY <2>1, <2>2, ReceiveKeeps
  <2>3. CASE Core
    BY <2>1, <2>3, CommandKeeps, ApplyKeeps, RoutineKeeps DEF Core
  <2>4. CASE \E n \in inflight : LocalIO(n)
    BY <2>1, <2>4, RoutineKeeps
  <2>5. CASE Worker \/ BuilderDone
    BY <2>1, <2>5, WorkerKeeps
  <2>6. CASE Crash \/ Start
    BY <2>1, <2>6, RestartKeeps
  <2> QED BY <1>2, <2>2, <2>3, <2>4, <2>5, <2>6 DEF Next
<1> QED BY <1>1, <1>2
----------------------------------------------------------------------------
(* What the invariant implies.                                             *)

\* What does not change from one number to the next is the same at the end.
LEMMA Steady ==
  ASSUME NEW p, NEW a \in Nat, NEW k \in Nat, a <= k,
         \A i \in Nat : a < i /\ i <= k => p[i] = p[i - 1]
  PROVE  p[k] = p[a]
<1> DEFINE S == {i \in Nat : a <= i /\ i <= k /\ p[i] # p[a]}
<1>1. SUFFICES ASSUME k \in S PROVE FALSE
  OBVIOUS
<1>2. S \in SUBSET Nat
  OBVIOUS
<1>3. PICK z \in S : \A y \in S : z <= y
  <2> HIDE DEF S
  <2> QED BY <1>1, <1>2, Least
<1>4. z \in Nat /\ a <= z /\ z <= k /\ p[z] # p[a]
  OBVIOUS
<1>5. z # a /\ a < z
  BY <1>4
<1>6. z - 1 \in Nat /\ a <= z - 1 /\ z - 1 <= k /\ ~ (z <= z - 1)
  BY <1>4, <1>5
<1>7. p[z - 1] = p[a]
  BY <1>3, <1>6
<1> QED BY <1>4, <1>5, <1>7

\* A set of numbers up to n that is not empty has a greatest one.
LEMMA Greatest ==
  ASSUME NEW n \in Nat, NEW S \in SUBSET (0..n), NEW x \in S
  PROVE  \E z \in S : \A y \in S : y <= z
<1> DEFINE D == {k \in 0..n : n - k \in S}
<1>1. D \in SUBSET Nat /\ n - x \in D
  OBVIOUS
<1>2. PICK z \in D : \A y \in D : z <= y
  <2> HIDE DEF D
  <2> QED BY <1>1, Least
<1>3. n - z \in S /\ z \in 0..n
  BY <1>2
<1>4. ASSUME NEW y \in S PROVE y <= n - z
  <2>1. n - y \in D /\ y \in 0..n
    OBVIOUS
  <2>2. z <= n - y
    BY <1>2, <2>1
  <2> QED BY <1>3, <2>1, <2>2
<1> QED BY <1>3, <1>4

\* The entries that have been read are chosen ones, and come next.
LEMMA BatchIs ==
  ASSUME NodeInv, up
  PROVE  /\ sm.applied = ChosenId(sm.applied.index)
         /\ \A n \in 1..Len(batch) : batch[n] = ChosenId(batch[n].index)
                                     /\ batch[n].index = sm.applied.index + n
         /\ DOMAIN batch = 1..Len(batch)
<1> DEFINE j == sm.applied.index
           N == Len(batch)
           M == Len(smq)
<1>1. setting \in Settings /\ Durable(db) /\ Good(db, rs, cmds, smq, batch, sm, builder, notes)
  BY DEF NodeInv
<1>2. /\ Working(db, rs, batch, sm, builder, notes) /\ IsSeq(batch) /\ IsSeq(smq) /\ j \in Nat
      /\ rs.applySub.index \in Nat /\ rs.applySub \in Upto(MaxTerm)
  BY <1>1, Runs DEF Good
<1>3. N \in Nat /\ M \in Nat /\ DOMAIN batch = 1..N
  BY <1>2, Seqs
<1>4. PICK p : Chain(p, db, rs, smq, batch, sm)
  BY <1>1 DEF Good
<1>5. j + N <= rs.applySub.index
  <2>1. /\ p \in [0..M -> Nat] /\ p[0] = j + N /\ p[M] = rs.applySub.index
        /\ \A m, n \in 0..M : m <= n => p[m] <= p[n]
    BY <1>4 DEF Chain
  <2>2. 0 \in 0..M /\ M \in 0..M /\ 0 <= M
    BY <1>3
  <2> QED BY <2>1, <2>2
<1>6. rs.applySub.index \in 0..Com(MaxTerm) /\ Com(MaxTerm) \in Nat
  BY <1>1, <1>2, ChosenIds, Commits
<1>7. \A n \in 1..N : batch[n] = ChosenId(j + n)
  BY <1>2 DEF Working
<1>8. sm.applied = ChosenId(j)
  BY <1>1, <1>2, ChosenIds, Commits DEF Working
<1> HIDE DEF j, N, M
<1>9. \A n \in 1..N : j + n \in 0..Com(MaxTerm)
  BY <1>2, <1>3, <1>5, <1>6
<1>10. \A n \in 1..N : ChosenId(j + n).index = j + n
  BY <1>1, <1>9, ChosenIds, Commits
<1> QED BY <1>3, <1>7, <1>8, <1>10 DEF j, N

\* An Apply in the queue of the worker follows the last command before it
\* that changes what is applied.
LEMMA QueueIs ==
  ASSUME NodeInv, up, NEW n \in 1..Len(smq), smq[n].op = "Apply"
  PROVE  LET before == {m \in 1..(n - 1) : smq[m].op # "BuildSnapshot"}
             m == CHOOSE m \in before : \A k \in before : k <= m
         IN smq[n].since = 1 +
              IF before = {} THEN sm.applied.index + Len(batch)
              ELSE IF smq[m].op = "Apply" THEN smq[m].last.index
              ELSE smq[m].snap.snap.index
<1> DEFINE before == {m \in 1..(n - 1) : smq[m].op # "BuildSnapshot"}
           top == CHOOSE m \in before : \A k \in before : k <= m
           M == Len(smq)
<1>1. setting \in Settings /\ Good(db, rs, cmds, smq, batch, sm, builder, notes)
  BY DEF NodeInv
<1>2. PICK p : Chain(p, db, rs, smq, batch, sm)
  BY <1>1 DEF Good
<1>3. M \in Nat /\ rs.applySub.index \in 0..Com(MaxTerm) /\ Com(MaxTerm) \in Nat
  <2>1. IsSeq(smq) /\ rs.applySub \in Upto(MaxTerm)
    BY <1>1, Runs
  <2> QED BY <1>1, <2>1, Seqs, ChosenIds, Commits
<1>4. /\ p \in [0..M -> Nat] /\ p[0] = sm.applied.index + Len(batch) /\ p[M] = rs.applySub.index
      /\ \A i, k \in 0..M : i <= k => p[i] <= p[k]
      /\ \A k \in 1..M : Carries(smq[k], db, p[k - 1], p[k])
  BY <1>2 DEF Chain
<1>5. \A k \in 0..M : p[k] \in 0..Com(MaxTerm) /\ ChosenId(p[k]).index = p[k]
  <2>1. SUFFICES ASSUME NEW k \in 0..M PROVE p[k] \in 0..Com(MaxTerm) /\ ChosenId(p[k]).index = p[k]
    OBVIOUS
  <2>2. M \in 0..M /\ k <= M
    BY <1>3
  <2>3. p[k] \in Nat /\ p[k] <= p[M]
    BY <1>4, <2>2
  <2>4. p[k] \in 0..Com(MaxTerm)
    BY <1>3, <1>4, <2>3
  <2> QED BY <1>1, <2>4, ChosenIds, Commits
<1>6. n - 1 \in Nat /\ n - 1 \in 0..M /\ n \in 1..M
  BY <1>3
<1>7. smq[n].since = p[n - 1] + 1
  BY <1>4, <1>6 DEF Carries
<1>8. p[n - 1] \in Nat /\ p[n - 1] + 1 = 1 + p[n - 1]
  BY <1>4, <1>6
<1>9. \A k \in 1..(n - 1) : k \in 1..M /\ k \in Nat
  BY <1>6
<1>10. \A k \in 1..(n - 1) : k \notin before => p[k] = p[k - 1]
  BY <1>4, <1>9 DEF Carries
<1>11. CASE before = {}
  <2>1. \A i \in Nat : 0 < i /\ i <= n - 1 => p[i] = p[i - 1]
    <3>1. \A i \in Nat : 0 < i /\ i <= n - 1 => i \in 1..(n - 1)
      BY <1>6
    <3> HIDE DEF before
    <3> QED BY <1>10, <1>11, <3>1
  <2>2. p[n - 1] = p[0]
    BY <1>6, <2>1, Steady
  <2>3. smq[n].since = 1 + (sm.applied.index + Len(batch))
    BY <1>4, <1>7, <1>8, <2>2
  <2> QED BY <1>11, <2>3, Zenon
<1>12. CASE before # {}
  <2>1. \E m \in before : \A k \in before : k <= m
    <3>1. before \in SUBSET (0..(n - 1))
      BY <1>6
    <3>2. PICK x : x \in before
      BY <1>12
    <3> HIDE DEF before
    <3> QED BY <1>6, <3>1, <3>2, Greatest
  <2>2. top \in before /\ \A k \in before : k <= top
    <3> HIDE DEF before
    <3> QED BY <2>1
  <2>3. top \in 1..(n - 1) /\ smq[top].op # "BuildSnapshot" /\ top \in 1..M /\ top \in Nat /\ top <= n - 1
        /\ top \in 0..M
    BY <1>6, <1>9, <2>2
  <2> HIDE DEF top
  <2>4. \A i \in Nat : top < i /\ i <= n - 1 => p[i] = p[i - 1]
    <3>1. SUFFICES ASSUME NEW i \in Nat, top < i, i <= n - 1 PROVE p[i] = p[i - 1]
      OBVIOUS
    <3>2. i \in 1..(n - 1) /\ ~ (i <= top)
      BY <1>6, <2>3, <3>1
    <3> HIDE DEF before
    <3> QED BY <1>10, <2>2, <3>2
  <2>5. p[n - 1] = p[top]
    BY <1>6, <2>3, <2>4, Steady
  <2>6. Carries(smq[top], db, p[top - 1], p[top]) /\ ChosenId(p[top]).index = p[top]
    BY <1>4, <1>5, <2>3
  <2>7. CASE smq[top].op = "Apply"
    <3>1. smq[top].last.index = p[top]
      BY <2>6, <2>7 DEF Carries
    <3>2. smq[n].since = 1 + smq[top].last.index
      BY <1>7, <1>8, <2>5, <3>1
    <3> QED BY <1>12, <2>7, <3>2, Zenon DEF top
  <2>8. CASE smq[top].op # "Apply"
    <3>1. smq[top].snap.snap.index = p[top]
      BY <2>3, <2>6, <2>8 DEF Carries
    <3>2. smq[n].since = 1 + smq[top].snap.snap.index
      BY <1>7, <1>8, <2>5, <3>1
    <3> QED BY <1>12, <2>8, <3>2, Zenon DEF top
  <2> QED BY <2>7, <2>8
<1> QED BY <1>11, <1>12

\* The head of the queue of commands submits no IO before the last submitted.
LEMMA SubmitsLater ==
  ASSUME NodeInv, up, Runnable
  PROVE  LET c == Head(cmds)
         IN /\ rs.logSub \in LogIO
            /\ \E k \in LogIO :
                 /\ ~ IOLt(k, rs.logSub)
                 /\ c.op = "SaveVote" => k = IOId(c.vote, NoLogId)
                 /\ c.op \in {"UpdateIOProgress", "InstallFullSnapshot"} => k = c.io
            /\ c.op = "AppendEntries" =>
                 c.vote = rs.logSub.vote /\ c.base + Len(c.es) >= rs.logSub.id.index
<1> DEFINE c == Head(cmds)
<1>1. setting \in Settings /\ Durable(db) /\ Good(db, rs, cmds, smq, batch, sm, builder, notes)
  BY DEF NodeInv
<1>2. PICK q : Running(q, db, rs, cmds, smq)
  BY <1>1 DEF Good
<1>3. cmds # <<>> /\ (c.op = "PurgeLog" => ~ LogIdLt(rs.snapFlushed, c.upto))
  BY DEF Runnable, Ready
<1>4. Starts(db, rs, cmds, q) /\ Loose(cmds, q, rs.applySub.index) /\ Len(cmds) \in Nat /\ Len(cmds) >= 1
  BY <1>1, <1>2, <1>3, First
<1> HIDE DEF c
<1>5. Link(c, q[0], q[1]) /\ q[0] \in Disk /\ q[1] \in Disk
  BY <1>4 DEF Starts, c
<1>6. q[0].io \in LogIO /\ q[1].io \in LogIO /\ q[0].io = rs.logSub
  BY <1>2, <1>5 DEF Disk, Running
<1>7. ~ IOLt(q[1].io, rs.logSub)
  <2>1. 0 \in 0..Len(cmds) /\ 1 \in 0..Len(cmds) /\ 0 <= 1
    BY <1>4
  <2>2. IOLe(q[0].io, q[1].io)
    BY <1>4, <2>1 DEF Loose
  <2> QED BY <1>1, <1>6, <2>2, IOs
<1>8. ASSUME c.op = "AppendEntries"
      PROVE  c.vote = rs.logSub.vote /\ c.base + Len(c.es) >= rs.logSub.id.index
  <2> DEFINE v == c.vote
             Lg == LeaderLog[v]
             lo == c.base
             top == q[1].io.id.index
  <2>1. /\ v = q[0].io.vote /\ v \in Term /\ lo \in Nat /\ lo >= q[0].io.id.index /\ lo < top
        /\ c.es = SubSeq(Lg, lo + 1, top) /\ q[1].io.vote = v
    BY <1>5, <1>8 DEF Link
  <2>2. top \in 0..Own(v) /\ Own(v) \in Nat /\ q[0].io.id.index \in Nat
    <3>1. top \in 0..Own(q[1].io.vote) /\ q[0].io.id.index \in 0..Own(q[0].io.vote)
      BY <1>1, <1>6, IOs
    <3>2. Own(v) \in Nat
      BY <1>1, <2>1, Terms
    <3> QED BY <2>1, <3>1, <3>2
  <2>3. Lg \in Seq(Nat) /\ Len(Lg) = Own(v)
    BY <1>1, <2>1, Logs, Commits, Terms
  <2> HIDE DEF v, Lg, lo, top
  <2>4. Len(SubSeq(Lg, lo + 1, top)) = top - lo
    BY <2>1, <2>2, <2>3
  <2>5. lo + Len(c.es) >= q[0].io.id.index
    BY <2>1, <2>2, <2>4
  <2> QED BY <1>6, <2>1, <2>5 DEF v, lo
<1>9. /\ c.op = "SaveVote" => q[1].io = IOId(c.vote, NoLogId)
      /\ c.op \in {"UpdateIOProgress", "InstallFullSnapshot"} => q[1].io = c.io
  BY <1>5 DEF Link
<1> QED BY <1>6, <1>7, <1>8, <1>9 DEF c

\* What the engine does about snapshots it builds submits no log IO.
LEMMA BuildsSubmitNothing ==
  ASSUME DOMAIN rs = RsFields
  PROVE  /\ QueueBuild([Engine EXCEPT !.rs.triedAt = rs.applyAcc]).rs.logSub = rs.logSub
         /\ \A id : BuildingSnapshotDone(Engine, id).rs.logSub = rs.logSub
<1>1. QueueBuild([Engine EXCEPT !.rs.triedAt = rs.applyAcc]).rs.logSub = rs.logSub
  BY DEF QueueBuild, Push, Engine, RsFields
<1>2. ASSUME NEW e, DOMAIN e = {"rs", "cmds"}, DOMAIN e.rs = RsFields
      PROVE  PolicyPurge(e).rs.logSub = e.rs.logSub
  BY <1>2 DEF PolicyPurge, PurgeIds, Push, RsFields
<1>3. ASSUME NEW id PROVE BuildingSnapshotDone(Engine, id).rs.logSub = rs.logSub
  <2> DEFINE e1 == [Engine EXCEPT !.rs.building = FALSE, !.rs.snapFlushed = MaxId(@, id)]
             e2 == [e1 EXCEPT !.rs.snap = id]
  <2>1. /\ DOMAIN e1 = {"rs", "cmds"} /\ DOMAIN e1.rs = RsFields /\ e1.rs.logSub = rs.logSub
        /\ DOMAIN e2 = {"rs", "cmds"} /\ DOMAIN e2.rs = RsFields /\ e2.rs.logSub = rs.logSub
    BY DEF Engine, RsFields
  <2>2. BuildingSnapshotDone(Engine, id) = IF LogIdLt(Engine.rs.snap, id) THEN PolicyPurge(e2) ELSE e1
    BY Zenon DEF BuildingSnapshotDone
  <2> HIDE DEF e1, e2
  <2> QED BY <1>2, <2>1, <2>2
<1> QED BY <1>1, <1>3

\* A step of a running node submits no IO before the last submitted, as
\* IOProgress::submit asserts.
LEMMA SubmitsForward ==
  ASSUME NodeInv, NodeInv', up, Next, setting' = setting
  PROVE  ~ IOLt(rs'.logSub, rs.logSub)
<1> DEFINE c == Head(cmds)
<1>1. setting \in Settings /\ Good(db, rs, cmds, smq, batch, sm, builder, notes)
  BY DEF NodeInv
<1>2. rs.logSub \in LogIO /\ DOMAIN rs = RsFields /\ ~ IOLt(rs.logSub, rs.logSub)
  <2>1. rs.logSub \in LogIO /\ DOMAIN rs = RsFields
    BY <1>1, Runs
  <2>2. rs.logSub.id.index \in Nat
    BY <1>1, <2>1, IOs
  <2>3. IOLe(rs.logSub, rs.logSub)
    BY <2>2 DEF IOLe
  <2> QED BY <1>1, <2>1, <2>3, IOs
<1> HIDE DEF c
<1>3. CASE rs'.logSub = rs.logSub
  BY <1>2, <1>3
<1>4. ASSUME SaveVote \/ UpdateIOProgress \/ SendToStateMachine PROVE ~ IOLt(rs'.logSub, rs.logSub)
  <2>1. Runnable
    BY <1>4 DEF SaveVote, UpdateIOProgress, SendToStateMachine
  <2>2. PICK k \in LogIO : /\ ~ IOLt(k, rs.logSub)
                           /\ c.op = "SaveVote" => k = IOId(c.vote, NoLogId)
                           /\ c.op \in {"UpdateIOProgress", "InstallFullSnapshot"} => k = c.io
    BY <2>1, SubmitsLater DEF c
  <2>3. CASE SaveVote
    <3>1. c.op = "SaveVote" /\ rs'.logSub = IOId(c.vote, NoLogId)
      BY <1>2, <2>3 DEF SaveVote, c, RsFields
    <3> QED BY <2>2, <3>1
  <2>4. CASE UpdateIOProgress
    <3>1. c.op = "UpdateIOProgress" /\ rs'.logSub = c.io
      BY <1>2, <2>4 DEF UpdateIOProgress, c, RsFields
    <3> QED BY <2>2, <3>1
  <2>5. CASE SendToStateMachine
    <3>1. c.op \in {"InstallFullSnapshot", "BuildSnapshot"}
          /\ rs' = IF c.op = "BuildSnapshot" THEN rs
                   ELSE [rs EXCEPT !.logSub = c.io, !.applySub = c.snap.snap]
      BY <2>5, Zenon DEF SendToStateMachine, c
    <3>2. CASE c.op = "BuildSnapshot"
      BY <1>2, <3>1, <3>2
    <3>3. CASE c.op = "InstallFullSnapshot"
      <4>1. rs'.logSub = c.io
        BY <1>2, <3>1, <3>3 DEF RsFields
      <4> QED BY <2>2, <3>3, <4>1
    <3> QED BY <3>1, <3>2, <3>3
  <2> QED BY <1>4, <2>3, <2>4, <2>5
<1>5. ASSUME AppendEntries PROVE ~ IOLt(rs'.logSub, rs.logSub)
  <2>1. Runnable /\ c.op = "AppendEntries" /\ up'
        /\ rs' = [rs EXCEPT !.logSub = IOId(c.vote, [term |-> c.es[Len(c.es)], index |-> c.base + Len(c.es)])]
    BY <1>5, Zenon DEF AppendEntries, c
  <2>2. c.vote = rs.logSub.vote /\ c.base + Len(c.es) >= rs.logSub.id.index
    BY <2>1, SubmitsLater DEF c
  <2>3. rs'.logSub \in LogIO
    <3>1. Good(db, rs, cmds, smq, batch, sm, builder, notes)'
      BY <2>1 DEF NodeInv
    <3>2. Good(db', rs', cmds', smq', batch', sm', builder', notes')
      BY <3>1, Frozen
    <3> QED BY <1>1, <3>2, Runs
  <2>4. rs'.logSub = IOId(c.vote, [term |-> c.es[Len(c.es)], index |-> c.base + Len(c.es)])
    BY <1>2, <2>1 DEF RsFields
  <2>5. rs'.logSub.vote = rs.logSub.vote /\ rs'.logSub.id.index >= rs.logSub.id.index
    BY <2>2, <2>4 DEF IOId
  <2>6. rs.logSub.id.index \in Nat /\ rs'.logSub.id.index \in Nat
    BY <1>1, <1>2, <2>3, IOs
  <2>7. IOLe(rs.logSub, rs'.logSub)
    BY <2>5, <2>6 DEF IOLe
  <2> QED BY <1>1, <1>2, <2>3, <2>7, IOs
<1>6. ASSUME TruncateLog \/ PurgeLog \/ Worker \/ BuilderDone \/ Crash PROVE rs'.logSub = rs.logSub
  BY <1>6 DEF TruncateLog, PurgeLog, Worker, GetSnapshotBuilder, InstallSnapshot, ReadEntries, ApplyOne,
              BuilderDone, Crash
<1>7. ASSUME SaveCommittedAndApply \/ (\E n \in inflight : LocalIO(n)) \/ InstallSnapshotDone
      PROVE  rs'.logSub = rs.logSub
  BY <1>2, <1>7 DEF SaveCommittedAndApply, LocalIO, InstallSnapshotDone, RsFields
<1>8. ASSUME TriggerSnapshot \/ BuildSnapshotDone PROVE rs'.logSub = rs.logSub
  <2>1. CASE TriggerSnapshot
    <3>1. rs' = QueueBuild([Engine EXCEPT !.rs.triedAt = rs.applyAcc]).rs
      BY <2>1 DEF TriggerSnapshot, SetEngine
    <3> QED BY <1>2, <3>1, BuildsSubmitNothing
  <2>2. CASE BuildSnapshotDone
    <3>1. rs' = BuildingSnapshotDone(Engine, Head(notes).id).rs
      BY <2>2 DEF BuildSnapshotDone, SetEngine
    <3> QED BY <1>2, <3>1, BuildsSubmitNothing
  <2> QED BY <1>8, <2>1, <2>2
<1>9. CASE Receive
  BY <1>3, <1>9, ReceiveKeeps
<1>10. ~ Start
  BY DEF Start
<1> QED BY <1>3, <1>4, <1>5, <1>6, <1>7, <1>8, <1>9, <1>10 DEF Next, Core
----------------------------------------------------------------------------
(* The maps: of the state machine, of the snapshot in the database, and of *)
(* the snapshots the leaders send.                                         *)

\* The histories of the map that follow the chosen entries one by one.
Applied(f) ==
  f = [i \in 0..Len(Chosen) |-> IF i = 0 THEN NoKvs ELSE ApplyOp(f[i - 1], ChosenId(i))]

\* The same up to an index.
AppliedUpto(f, n) ==
  f = [i \in 0..n |-> IF i = 0 THEN NoKvs ELSE ApplyOp(f[i - 1], ChosenId(i))]

\* A map no key of which is behind the first i entries of the chosen log.
Ahead(m, i) ==
  /\ DOMAIN m = Key
  /\ \A k \in Key : \E j \in i..Len(Chosen) : m[k] = StateAt[j][k]

\* The snapshots on their way to the state machine are such maps.
SendsAhead(cs) ==
  /\ IsSeq(cs)
  /\ \A n \in 1..Len(cs) : cs[n].op = "InstallFullSnapshot" => Ahead(cs[n].snap.kvs, cs[n].snap.snap.index)

\* What NodeInv does not say of the maps.
KeyInv ==
  /\ Ahead(db.kvs, db.snap.index)
  /\ up => Ahead(sm.kvs, sm.applied.index)
  /\ SendsAhead(cmds)
  /\ SendsAhead(smq)

\* The history of the map is the same after a step.
LEMMA FrozenState ==
  ASSUME setting' = setting
  PROVE  StateAt' = StateAt
<1>1. StateAt = CHOOSE f : Applied(f)
  BY Zenon DEF StateAt, Applied
<1>2. \A f : Applied(f)' <=> Applied(f)
  BY DEF Applied, ApplyOp, Op, ChosenId, Chosen, LeaderLog, Committed, MaxTerm
<1>3. StateAt' = CHOOSE f : Applied(f)'
  BY Zenon DEF StateAt, Applied
<1>4. (CHOOSE f : Applied(f)') = CHOOSE f : Applied(f)
  BY <1>2
<1> QED BY <1>1, <1>3, <1>4

\* So are the maps that are not behind it.
LEMMA FrozenMaps ==
  ASSUME setting' = setting
  PROVE  /\ \A m, i : Ahead(m, i)' <=> Ahead(m, i)
         /\ \A cs : SendsAhead(cs)' <=> SendsAhead(cs)
<1>1. StateAt' = StateAt /\ Chosen' = Chosen
  BY FrozenState DEF Chosen, LeaderLog, Committed, MaxTerm
<1>2. \A m, i : Ahead(m, i)' <=> Ahead(m, i)
  BY <1>1 DEF Ahead
<1> QED BY <1>2 DEF SendsAhead

\* There is a history of the map.
LEMMA HistoryExists ==
  ASSUME NEW N \in Nat
  PROVE  \E f : AppliedUpto(f, N)
<1> DEFINE S == {n \in Nat : ~ \E f : AppliedUpto(f, n)}
<1>1. ASSUME NEW x \in S PROVE FALSE
  <2>1. S \in SUBSET Nat
    OBVIOUS
  <2>2. PICK z \in S : \A y \in S : z <= y
    <3> HIDE DEF S
    <3> QED BY <1>1, <2>1, Least
  <2>3. z \in Nat /\ ~ \E f : AppliedUpto(f, z)
    BY <2>2
  <2>4. CASE z = 0
    <3> DEFINE f == [i \in 0..0 |-> NoKvs]
    <3>1. \A i \in 0..0 : i = 0
      OBVIOUS
    <3>2. f = [i \in 0..0 |-> IF i = 0 THEN NoKvs ELSE ApplyOp(f[i - 1], ChosenId(i))]
      BY <3>1
    <3> HIDE DEF f, S
    <3> QED BY <2>3, <2>4, <3>2, Zenon DEF AppliedUpto
  <2>5. CASE z # 0
    <3>1. z - 1 \in Nat /\ ~ (z <= z - 1)
      BY <2>3, <2>5
    <3>2. z - 1 \notin S
      <4> HIDE DEF S
      <4> QED BY <2>2, <3>1
    <3>3. PICK f : AppliedUpto(f, z - 1)
      BY <3>1, <3>2
    <3> DEFINE g == [i \in 0..z |-> IF i = z THEN ApplyOp(f[z - 1], ChosenId(z)) ELSE f[i]]
    <3>4. ASSUME NEW i \in 0..z
          PROVE  g[i] = IF i = 0 THEN NoKvs ELSE ApplyOp(g[i - 1], ChosenId(i))
      <4>1. i \in Nat /\ (i = z \/ i \in 0..(z - 1))
        BY <2>3
      <4>2. i # 0 => i - 1 \in 0..z /\ i - 1 # z
        BY <2>3, <4>1
      <4>3. i # 0 => g[i - 1] = f[i - 1]
        BY <4>2
      <4>4. CASE i = z
        <5>1. g[i] = ApplyOp(f[z - 1], ChosenId(z))
          BY <4>4
        <5> HIDE DEF g
        <5> QED BY <2>5, <4>3, <4>4, <5>1
      <4>5. CASE i # z
        <5>1. g[i] = f[i] /\ i \in 0..(z - 1)
          BY <4>1, <4>5
        <5>2. f[i] = IF i = 0 THEN NoKvs ELSE ApplyOp(f[i - 1], ChosenId(i))
          BY <3>3, <5>1 DEF AppliedUpto
        <5> HIDE DEF g
        <5> QED BY <4>3, <5>1, <5>2
      <4> QED BY <4>4, <4>5
    <3>5. g = [i \in 0..z |-> g[i]]
      OBVIOUS
    <3> HIDE DEF g
    <3>6. AppliedUpto(g, z)
      BY <3>4, <3>5, Zenon DEF AppliedUpto
    <3> QED BY <2>3, <3>6
  <2> QED BY <2>4, <2>5
<1>2. N \notin S
  BY <1>1
<1> QED BY <1>2

\* The effect of an entry on a key: it does not depend on the rest of the
\* map, and an entry that writes the key leaves the same value in any map.
LEMMA Writes ==
  ASSUME NEW id, NEW m, DOMAIN m = Key
  PROVE  /\ DOMAIN ApplyOp(m, id) = Key
         /\ \A w, k : DOMAIN w = Key /\ k \in Key =>
              /\ m[k] = w[k] => ApplyOp(m, id)[k] = ApplyOp(w, id)[k]
              /\ ApplyOp(m, id)[k] = m[k] \/ ApplyOp(m, id)[k] = ApplyOp(w, id)[k]
<1> DEFINE op == Op[id.term][id.index]
<1>0. \A w : ApplyOp(w, id) = CASE op.k = "Put" -> [w EXCEPT ![op.key] = op.val]
                                [] op.k = "Del" -> [w EXCEPT ![op.key] = NoValue]
                                [] OTHER        -> w
  BY Zenon DEF ApplyOp
<1> HIDE DEF op
<1>1. CASE op.k = "Put"
  <2>1. \A w : ApplyOp(w, id) = [w EXCEPT ![op.key] = op.val]
    BY <1>0, <1>1
  <2> QED BY <2>1
<1>2. CASE op.k = "Del"
  <2>1. \A w : ApplyOp(w, id) = [w EXCEPT ![op.key] = NoValue]
    BY <1>0, <1>2
  <2> QED BY <2>1
<1>3. CASE op.k # "Put" /\ op.k # "Del"
  <2>1. \A w : ApplyOp(w, id) = w
    BY <1>0, <1>3
  <2> QED BY <2>1
<1> QED BY <1>1, <1>2, <1>3

\* The history of the map, entry by entry.
LEMMA StatesAre ==
  ASSUME setting \in Settings
  PROVE  /\ Len(Chosen) \in Nat
         /\ StateAt[0] = NoKvs
         /\ \A i \in 1..Len(Chosen) : StateAt[i] = ApplyOp(StateAt[i - 1], ChosenId(i))
         /\ \A i \in 0..Len(Chosen) : DOMAIN StateAt[i] = Key
<1> DEFINE N == Len(Chosen)
<1>1. N \in Nat
  BY Commits
<1>2. AppliedUpto(StateAt, N)
  <2>1. StateAt = CHOOSE f : AppliedUpto(f, N)
    BY Zenon DEF StateAt, AppliedUpto
  <2> HIDE DEF N
  <2>2. \E f : AppliedUpto(f, N)
    BY <1>1, HistoryExists
  <2> QED BY <2>1, <2>2, Zenon
<1> HIDE DEF N
<1>3. \A i \in 0..N : StateAt[i] = IF i = 0 THEN NoKvs ELSE ApplyOp(StateAt[i - 1], ChosenId(i))
  BY <1>2, Zenon DEF AppliedUpto
<1>4. StateAt[0] = NoKvs
  BY <1>1, <1>3
<1>5. \A i \in 1..N : StateAt[i] = ApplyOp(StateAt[i - 1], ChosenId(i))
  BY <1>1, <1>3
<1> DEFINE S == {i \in Nat : i <= N /\ DOMAIN StateAt[i] # Key}
<1>6. ASSUME NEW x \in S PROVE FALSE
  <2>1. S \in SUBSET Nat
    OBVIOUS
  <2>2. PICK z \in S : \A y \in S : z <= y
    <3> HIDE DEF S
    <3> QED BY <1>6, <2>1, Least
  <2>3. z \in Nat /\ z <= N /\ DOMAIN StateAt[z] # Key
    BY <2>2
  <2>4. z # 0
    BY <1>4, <2>3 DEF NoKvs
  <2>5. z - 1 \in Nat /\ z - 1 <= N /\ ~ (z <= z - 1) /\ z \in 1..N
    BY <1>1, <2>3, <2>4
  <2>6. z - 1 \notin S
    <3> HIDE DEF S
    <3> QED BY <2>2, <2>5
  <2>7. DOMAIN StateAt[z - 1] = Key
    BY <2>5, <2>6
  <2>8. DOMAIN ApplyOp(StateAt[z - 1], ChosenId(z)) = Key
    BY <2>7, Writes
  <2> HIDE DEF S
  <2> QED BY <1>5, <2>3, <2>5, <2>8
<1>7. ASSUME NEW i \in 0..N PROVE DOMAIN StateAt[i] = Key
  <2>1. i \notin S
    BY <1>6
  <2> QED BY <1>1, <2>1
<1> QED BY <1>1, <1>4, <1>5, <1>7 DEF N

\* A map that is not behind an index is not behind an earlier one.
LEMMA AheadBefore ==
  ASSUME setting \in Settings, NEW m, NEW i \in Nat, NEW h \in Nat, h <= i, Ahead(m, i)
  PROVE  Ahead(m, h)
<1>1. Len(Chosen) \in Nat
  BY StatesAre
<1>2. \A j \in i..Len(Chosen) : j \in h..Len(Chosen)
  BY <1>1
<1> QED BY <1>2 DEF Ahead

\* When an entry is applied to a map that is not behind the one before, a key
\* it writes is right, and any other is as it was.
LEMMA Catches ==
  ASSUME setting \in Settings, NEW m, NEW i \in Nat, i + 1 <= Len(Chosen), Ahead(m, i)
  PROVE  Ahead(ApplyOp(m, ChosenId(i + 1)), i + 1)
<1> DEFINE id == ChosenId(i + 1)
           w  == ApplyOp(m, id)
           N  == Len(Chosen)
<1>1. N \in Nat /\ i + 1 \in 1..N /\ i \in 0..N /\ (i + 1) - 1 = i /\ i + 1 \in (i + 1)..N
  BY StatesAre
<1>2. StateAt[i + 1] = ApplyOp(StateAt[i], id) /\ DOMAIN StateAt[i] = Key
  BY <1>1, StatesAre
<1>3. DOMAIN m = Key /\ \A k \in Key : \E j \in i..N : m[k] = StateAt[j][k]
  BY DEF Ahead
<1> HIDE DEF id, N
<1>4. DOMAIN w = Key
  BY <1>3, Writes
<1>5. ASSUME NEW k \in Key PROVE \E j \in (i + 1)..N : w[k] = StateAt[j][k]
  <2>1. /\ m[k] = StateAt[i][k] => w[k] = StateAt[i + 1][k]
        /\ w[k] = m[k] \/ w[k] = StateAt[i + 1][k]
    BY <1>2, <1>3, Writes
  <2>2. PICK j \in i..N : m[k] = StateAt[j][k]
    BY <1>3
  <2>3. j = i \/ j \in (i + 1)..N
    BY <1>1
  <2> HIDE DEF w
  <2> QED BY <1>1, <2>1, <2>2, <2>3
<1> QED BY <1>4, <1>5 DEF Ahead, id, N

\* A state of the engine whose queue sends such maps only.
QueuesAhead(e) == DOMAIN e = {"rs", "cmds"} /\ SendsAhead(e.cmds)

\* A command at the end of a queue, and the one at its head.
LEMMA QueueAhead ==
  ASSUME NEW cs, SendsAhead(cs)
  PROVE  /\ \A c : (c.op = "InstallFullSnapshot" => Ahead(c.snap.kvs, c.snap.snap.index)) => SendsAhead(Append(cs, c))
         /\ cs # <<>> => /\ SendsAhead(Tail(cs))
                         /\ Head(cs).op = "InstallFullSnapshot" =>
                              Ahead(Head(cs).snap.kvs, Head(cs).snap.snap.index)
<1>1. /\ IsSeq(cs) /\ Len(cs) \in Nat
      /\ \A n \in 1..Len(cs) : cs[n].op = "InstallFullSnapshot" => Ahead(cs[n].snap.kvs, cs[n].snap.snap.index)
  BY Seqs DEF SendsAhead
<1>2. ASSUME NEW c, c.op = "InstallFullSnapshot" => Ahead(c.snap.kvs, c.snap.snap.index)
      PROVE  SendsAhead(Append(cs, c))
  <2> DEFINE a == Append(cs, c)
  <2>1. /\ IsSeq(a) /\ Len(a) = Len(cs) + 1 /\ a[Len(cs) + 1] = c
        /\ \A n \in 1..Len(cs) : a[n] = cs[n]
    BY <1>1, Seqs
  <2>2. \A n \in 1..Len(a) : n = Len(cs) + 1 \/ n \in 1..Len(cs)
    BY <1>1, <2>1
  <2> HIDE DEF a
  <2>3. SendsAhead(a)
    BY <1>1, <1>2, <2>1, <2>2 DEF SendsAhead
  <2> QED BY <2>3 DEF a
<1>3. ASSUME cs # <<>>
      PROVE  /\ SendsAhead(Tail(cs))
             /\ Head(cs).op = "InstallFullSnapshot" => Ahead(Head(cs).snap.kvs, Head(cs).snap.snap.index)
  <2> DEFINE a == Tail(cs)
             c == Head(cs)
  <2>1. /\ IsSeq(a) /\ Len(cs) >= 1 /\ Len(a) = Len(cs) - 1 /\ c = cs[1]
        /\ \A n \in 1..(Len(cs) - 1) : a[n] = cs[n + 1]
    BY <1>1, <1>3, Seqs
  <2>2. 1 \in 1..Len(cs) /\ \A n \in 1..Len(a) : n \in 1..(Len(cs) - 1) /\ n + 1 \in 1..Len(cs)
    BY <1>1, <2>1
  <2> HIDE DEF a, c
  <2>3. SendsAhead(a) /\ (c.op = "InstallFullSnapshot" => Ahead(c.snap.kvs, c.snap.snap.index))
    BY <1>1, <2>1, <2>2 DEF SendsAhead
  <2> QED BY <2>3 DEF a, c
<1> QED BY <1>2, <1>3

\* A command pushed by the engine.
LEMMA PushAhead ==
  ASSUME NEW e, QueuesAhead(e), NEW c,
         c.op = "InstallFullSnapshot" => Ahead(c.snap.kvs, c.snap.snap.index)
  PROVE  QueuesAhead(Push(e, c))
<1>1. DOMAIN Push(e, c) = {"rs", "cmds"} /\ Push(e, c).cmds = Append(e.cmds, c)
  BY DEF Push, QueuesAhead
<1>2. SendsAhead(Append(e.cmds, c))
  BY QueueAhead DEF QueuesAhead
<1> QED BY <1>1, <1>2 DEF QueuesAhead

\* A change of the state of the engine.
LEMMA StateAhead ==
  ASSUME NEW e, QueuesAhead(e), NEW r
  PROVE  QueuesAhead([e EXCEPT !.rs = r])
BY DEF QueuesAhead

\* A vote, a log IO, a truncation and a commit queue no snapshot.
LEMMA VoteAhead ==
  ASSUME NEW e, QueuesAhead(e), NEW t
  PROVE  /\ QueuesAhead(UpdateVote(e, t))
         /\ \A io : QueuesAhead(AcceptLogIO(e, io)) /\ QueuesAhead(UpdateCommitted(e, io))
         /\ QueuesAhead(TruncateLogs(e, t))
<1>1. ASSUME NEW f, QueuesAhead(f), NEW io PROVE QueuesAhead(AcceptLogIO(f, io))
  <2>1. QueuesAhead([f EXCEPT !.rs.logAcc = io])
    BY <1>1 DEF QueuesAhead
  <2> QED BY <1>1, <2>1 DEF AcceptLogIO
<1>2. QueuesAhead(UpdateVote(e, t))
  <2> DEFINE f == AcceptLogIO([e EXCEPT !.rs.vote = t], IOId(t, NoLogId))
             c == [op |-> "SaveVote", vote |-> t]
  <2>1. QueuesAhead([e EXCEPT !.rs.vote = t])
    BY DEF QueuesAhead
  <2>2. QueuesAhead(f)
    BY <1>1, <2>1
  <2>3. c.op # "InstallFullSnapshot"
    OBVIOUS
  <2>4. UpdateVote(e, t) = IF t > e.rs.vote THEN Push(f, c) ELSE e
    BY Zenon DEF UpdateVote
  <2> HIDE DEF f, c
  <2>5. QueuesAhead(Push(f, c))
    BY <2>2, <2>3, PushAhead
  <2> QED BY <2>4, <2>5
<1>3. ASSUME NEW io PROVE QueuesAhead(UpdateCommitted(e, io))
  <2> DEFINE cc    == IF IOLt(e.rs.clusterCommitted, io) THEN io ELSE e.rs.clusterCommitted
             local == IF e.rs.logAcc.vote >= cc.vote THEN MinId(e.rs.logAcc.id, cc.id) ELSE NoLogId
             e1 == [e EXCEPT !.rs.clusterCommitted = cc]
             e2 == [e1 EXCEPT !.rs = CommitMembership([e1.rs EXCEPT !.applyAcc = local], local)]
  <2>1. UpdateCommitted(e, io) = IF LogIdLt(e.rs.applyAcc, local) THEN e2 ELSE e1
    BY Zenon DEF UpdateCommitted
  <2> HIDE DEF cc, local
  <2>2. QueuesAhead(e1)
    BY DEF QueuesAhead
  <2> HIDE DEF e1
  <2>3. QueuesAhead(e2)
    BY <2>2, StateAhead
  <2> QED BY <2>1, <2>2, <2>3
<1>4. QueuesAhead(TruncateLogs(e, t))
  <2> DEFINE cut == [e.rs EXCEPT !.ids = Restrict(e.rs.ids, {i \in DOMAIN e.rs.ids : i < t})]
             f == [e EXCEPT !.rs = TruncateMembership(cut, t)]
             c == [op |-> "TruncateLog", since |-> t]
  <2>1. TruncateLogs(e, t) = IF t \in DOMAIN e.rs.ids THEN Push(f, c) ELSE e
    BY Zenon DEF TruncateLogs
  <2> HIDE DEF cut
  <2>2. QueuesAhead(f) /\ c.op # "InstallFullSnapshot"
    BY StateAhead
  <2> HIDE DEF f, c
  <2>3. QueuesAhead(Push(f, c))
    BY <2>2, PushAhead
  <2> QED BY <2>1, <2>3
<1> QED BY <1>1, <1>2, <1>3, <1>4

\* Nor does an append request.
LEMMA AppendAhead ==
  ASSUME NEW e, QueuesAhead(e), NEW t, NEW prev, NEW last
  PROVE  QueuesAhead(EngineAppend(e, t, prev, last))
<1>1. ASSUME NEW f, QueuesAhead(f) PROVE QueuesAhead(FollowAppend(f, t, prev, last))
  <2> DEFINE io    == IOId(t, MaxId(IdOf(t, prev), IF last > prev THEN IdOf(t, last) ELSE NoLogId))
             e1    == AcceptLogIO(f, io)
             fresh == {i \in (prev + 1)..last : ~HasLogId(e1.rs, IdOf(t, i))}
             since == CHOOSE i \in fresh : \A j \in fresh : i <= j
             e2    == TruncateLogs(e1, since)
             ids   == e2.rs.ids
             r     == [e2.rs EXCEPT !.ids = [i \in DOMAIN ids \cup since..last |->
                                               IF i >= since THEN LeaderLog[t][i] ELSE ids[i]]]
             s     == AppendMembership(r,
                        LastTwoMemberships([n \in 1..(last - since + 1) |-> IdOf(t, since + n - 1)]))
             a     == [op |-> "AppendEntries", vote |-> t, base |-> since - 1,
                       es |-> SubSeq(LeaderLog[t], since, last)]
             u     == [op |-> "UpdateIOProgress", when |-> f.rs.logAcc, io |-> io]
  <2>1. FollowAppend(f, t, prev, last) =
          CASE fresh # {} -> Push([e2 EXCEPT !.rs = s], a)
            [] fresh = {} /\ IOLt(f.rs.logAcc, io) -> Push(e1, u)
            [] OTHER -> e1
    BY Zenon DEF FollowAppend
  <2>2. a.op # "InstallFullSnapshot" /\ u.op # "InstallFullSnapshot"
    <3> HIDE DEF io, since
    <3> QED OBVIOUS
  <2> HIDE DEF io, fresh, since, s, a, u
  <2>3. QueuesAhead(e1)
    BY <1>1, VoteAhead
  <2> HIDE DEF e1
  <2>4. QueuesAhead(e2)
    BY <2>3, VoteAhead
  <2> HIDE DEF e2
  <2>5. QueuesAhead([e2 EXCEPT !.rs = s])
    BY <2>4, StateAhead
  <2>6. QueuesAhead(Push([e2 EXCEPT !.rs = s], a))
    BY <2>2, <2>5, PushAhead
  <2>7. QueuesAhead(Push(e1, u))
    BY <2>2, <2>3, PushAhead
  <2> QED BY <2>1, <2>3, <2>6, <2>7
<1> DEFINE e1 == UpdateVote(e, t)
<1>2. QueuesAhead(e1)
  BY VoteAhead
<1>3. EngineAppend(e, t, prev, last) =
        CASE t < e.rs.vote -> e
          [] t >= e.rs.vote /\ prev > 0 /\ ~HasLogId(e1.rs, IdOf(t, prev)) -> TruncateLogs(e1, prev)
          [] OTHER -> FollowAppend(e1, t, prev, last)
  BY Zenon DEF EngineAppend
<1> HIDE DEF e1
<1>4. QueuesAhead(TruncateLogs(e1, prev)) /\ QueuesAhead(FollowAppend(e1, t, prev, last))
  BY <1>1, <1>2, VoteAhead
<1> QED BY <1>3, <1>4

\* A snapshot of a leader, whose data is not behind its log id, is queued.
LEMMA InstallAhead ==
  ASSUME NEW e, QueuesAhead(e), NEW t, NEW snap, Ahead(snap.kvs, snap.snap.index)
  PROVE  QueuesAhead(EngineInstall(e, t, snap))
<1> DEFINE e1 == UpdateVote(e, t)
           id == snap.snap
           e2 == [e1 EXCEPT !.rs.snap = id]
           conflict == id.index \in DOMAIN e2.rs.ids /\ e2.rs.ids[id.index] # id.term
           e3 == IF conflict THEN TruncateLogs(e2, e2.rs.applyAcc.index + 1) ELSE e2
           e4 == AcceptLogIO(e3, IOId(t, id))
           f  == [e4 EXCEPT !.rs = UpdateMembership([e4.rs EXCEPT !.applyAcc = id], snap.mem)]
           c  == [op |-> "InstallFullSnapshot", snap |-> snap, io |-> IOId(t, id)]
           e5 == Push(f, c)
           g  == [e5 EXCEPT !.rs = PurgeIds(@, id)]
           p  == [op |-> "PurgeLog", upto |-> id]
<1>1. EngineInstall(e, t, snap) = IF InstallNeeded(e1.rs, id) THEN Push(g, p) ELSE e1
  BY Zenon DEF EngineInstall
<1>2. c.op = "InstallFullSnapshot" /\ c.snap = snap /\ p.op # "InstallFullSnapshot"
  OBVIOUS
<1> HIDE DEF c, p, conflict
<1>3. QueuesAhead(e1)
  BY VoteAhead
<1> HIDE DEF e1
<1>4. QueuesAhead(e2)
  BY <1>3 DEF QueuesAhead
<1> HIDE DEF e2
<1>5. QueuesAhead(e3)
  BY <1>4, VoteAhead
<1> HIDE DEF e3
<1>6. QueuesAhead(e4)
  BY <1>5, VoteAhead
<1> HIDE DEF e4
<1>7. QueuesAhead(f)
  BY <1>6, StateAhead
<1> HIDE DEF f
<1>8. QueuesAhead(e5)
  BY <1>2, <1>7, PushAhead
<1> HIDE DEF e5
<1>9. QueuesAhead(g)
  BY <1>8 DEF QueuesAhead
<1> HIDE DEF g
<1>10. QueuesAhead(Push(g, p))
  BY <1>2, <1>9, PushAhead
<1> QED BY <1>1, <1>3, <1>10

\* What the engine does about snapshots it builds queues none to install.
LEMMA BuildAhead ==
  ASSUME QueuesAhead(Engine)
  PROVE  /\ QueuesAhead(QueueBuild([Engine EXCEPT !.rs.triedAt = rs.applyAcc]))
         /\ \A id : QueuesAhead(BuildingSnapshotDone(Engine, id))
<1>1. QueuesAhead(QueueBuild([Engine EXCEPT !.rs.triedAt = rs.applyAcc]))
  <2> DEFINE e == [Engine EXCEPT !.rs.triedAt = rs.applyAcc]
             f == [e EXCEPT !.rs.building = TRUE]
             c == [op |-> "BuildSnapshot"]
  <2>1. QueuesAhead(e)
    BY DEF QueuesAhead
  <2>2. QueueBuild(e) = IF e.rs.building THEN e ELSE Push(f, c)
    BY Zenon DEF QueueBuild
  <2> HIDE DEF e
  <2>3. QueuesAhead(f) /\ c.op # "InstallFullSnapshot"
    BY <2>1 DEF QueuesAhead
  <2> HIDE DEF f, c
  <2>4. QueuesAhead(Push(f, c))
    BY <2>3, PushAhead
  <2>5. QueuesAhead(QueueBuild(e))
    BY <2>1, <2>2, <2>4
  <2> QED BY <2>5 DEF e
<1>2. ASSUME NEW e, QueuesAhead(e) PROVE QueuesAhead(PolicyPurge(e))
  <2> DEFINE end == e.rs.snap.index - Keep
             to  == [term |-> e.rs.ids[end], index |-> end]
             f   == [e EXCEPT !.rs = PurgeIds(@, to)]
             c   == [op |-> "PurgeLog", upto |-> to]
  <2>1. PolicyPurge(e) = IF e.rs.purged + 1 <= end THEN Push(f, c) ELSE e
    BY Zenon DEF PolicyPurge
  <2> HIDE DEF to
  <2>2. QueuesAhead(f) /\ c.op # "InstallFullSnapshot"
    BY <1>2 DEF QueuesAhead
  <2> HIDE DEF f, c, end
  <2>3. QueuesAhead(Push(f, c))
    BY <2>2, PushAhead
  <2> QED BY <1>2, <2>1, <2>3
<1>3. ASSUME NEW id PROVE QueuesAhead(BuildingSnapshotDone(Engine, id))
  <2> DEFINE e1 == [Engine EXCEPT !.rs.building = FALSE, !.rs.snapFlushed = MaxId(@, id)]
             e2 == [e1 EXCEPT !.rs.snap = id]
  <2>1. BuildingSnapshotDone(Engine, id) = IF LogIdLt(Engine.rs.snap, id) THEN PolicyPurge(e2) ELSE e1
    BY Zenon DEF BuildingSnapshotDone
  <2>2. QueuesAhead(e1)
    BY DEF QueuesAhead
  <2> HIDE DEF e1
  <2>3. QueuesAhead(e2)
    BY <2>2 DEF QueuesAhead
  <2> HIDE DEF e2
  <2> QED BY <1>2, <2>1, <2>2, <2>3
<1> QED BY <1>1, <1>3

\* The invariant after a step, from what the step leaves.
LEMMA AfterAhead ==
  ASSUME setting' = setting, Ahead(db'.kvs, db'.snap.index), up' => Ahead(sm'.kvs, sm'.applied.index),
         SendsAhead(cmds'), SendsAhead(smq')
  PROVE  KeyInv'
<1>1. Ahead(db.kvs, db.snap.index)' /\ (up => Ahead(sm.kvs, sm.applied.index))'
  BY FrozenMaps
<1>2. SendsAhead(cmds)' /\ SendsAhead(smq)'
  BY FrozenMaps
<1> QED BY <1>1, <1>2 DEF KeyInv

\* The log store leaves the snapshot alone.
LEMMA StorageApart ==
  ASSUME NEW d, DOMAIN d = DbFields
  PROVE  /\ \A v : PutVote(d, v).kvs = d.kvs /\ PutVote(d, v).snap = d.snap
         /\ \A i : DeleteFrom(d, i).kvs = d.kvs /\ DeleteFrom(d, i).snap = d.snap
         /\ \A id : PurgeRange(d, id).kvs = d.kvs /\ PurgeRange(d, id).snap = d.snap
         /\ \A b, es, n : PutEntries(d, b, es, n).kvs = d.kvs /\ PutEntries(d, b, es, n).snap = d.snap
         /\ \A s : SetCurrentSnapshot(d, s).kvs = s.kvs /\ SetCurrentSnapshot(d, s).snap = s.snap
<1>1. \A v : PutVote(d, v).kvs = d.kvs /\ PutVote(d, v).snap = d.snap
  BY DEF PutVote, DbFields
<1>2. \A i : DeleteFrom(d, i).kvs = d.kvs /\ DeleteFrom(d, i).snap = d.snap
  BY DEF DeleteFrom, DbFields
<1>3. \A id : PurgeRange(d, id).kvs = d.kvs /\ PurgeRange(d, id).snap = d.snap
  BY DEF PurgeRange, DeleteUpto, PutPurged, DbFields
<1>4. \A b, es, n : PutEntries(d, b, es, n).kvs = d.kvs /\ PutEntries(d, b, es, n).snap = d.snap
  BY DEF PutEntries, DbFields
<1>5. \A s : SetCurrentSnapshot(d, s).kvs = s.kvs /\ SetCurrentSnapshot(d, s).snap = s.snap
  BY DEF SetCurrentSnapshot, DbFields
<1> QED BY <1>1, <1>2, <1>3, <1>4, <1>5

\* A leader sends the map of some entry it has committed, at or past the log
\* id of the snapshot.
LEMMA SentAhead ==
  ASSUME setting \in Settings, NEW t \in Term, NEW i \in 1..Committed[t], NEW j \in i..Committed[t]
  PROVE  Ahead(StateAt[j], IdOf(t, i).index)
<1>1. t \in Vote /\ t \in Nat /\ Com(t) = Committed[t] /\ t <= MaxTerm /\ MaxTerm \in Vote
  BY Commits, Logs DEF Term, Vote, Com
<1>2. Committed[t] \in Nat /\ Len(Chosen) \in Nat /\ Committed[t] <= Len(Chosen)
  <2>1. Com(t) \in 0..Own(t) /\ Own(t) \in Nat /\ Com(MaxTerm) \in 0..Own(MaxTerm) /\ Own(MaxTerm) \in Nat
    BY <1>1, Commits
  <2>2. Com(t) <= Com(MaxTerm) /\ Len(Chosen) = Com(MaxTerm)
    BY <1>1, Commits
  <2> QED BY <1>1, <2>1, <2>2
<1>3. IdOf(t, i).index = i /\ j \in i..Len(Chosen) /\ j \in 0..Len(Chosen)
  BY <1>2 DEF IdOf
<1>4. DOMAIN StateAt[j] = Key
  BY <1>3, StatesAre
<1> QED BY <1>3, <1>4 DEF Ahead

\* Requests of leaders.
LEMMA ReceiveAhead ==
  ASSUME NodeInv, KeyInv, Receive, setting' = setting
  PROVE  KeyInv'
<1>1. setting \in Settings /\ QueuesAhead(Engine)
  BY DEF NodeInv, KeyInv, QueuesAhead, Engine
<1>2. /\ UNCHANGED <<up, db, smq, sm>>
      /\ SendsAhead(cmds')
  <2>1. ASSUME NEW t, NEW prev, NEW last, NEW commit, AppendEntriesRequest(t, prev, last, commit)
        PROVE  UNCHANGED <<up, db, smq, sm>> /\ SendsAhead(cmds')
    <3> DEFINE e == EngineAppend(Engine, t, prev, last)
               f == UpdateCommitted(e, IOId(t, IdOf(t, commit)))
    <3>1. QueuesAhead(e)
      BY <1>1, AppendAhead
    <3>2. QueuesAhead(f)
      <4> HIDE DEF e
      <4> QED BY <3>1, VoteAhead
    <3>3. cmds' = f.cmds /\ UNCHANGED <<up, db, smq, sm>>
      BY <2>1, Zenon DEF AppendEntriesRequest, SetEngine
    <3> HIDE DEF f
    <3> QED BY <3>2, <3>3 DEF QueuesAhead
  <2>2. ASSUME NEW t \in Term, NEW i \in 1..Committed[t], NEW j \in i..Committed[t], InstallSnapshotRequest(t, i, j)
        PROVE  UNCHANGED <<up, db, smq, sm>> /\ SendsAhead(cmds')
    <3> DEFINE s == [snap |-> IdOf(t, i), kvs |-> StateAt[j], mem |-> MemAt[i]]
               f == EngineInstall(Engine, t, s)
    <3>1. s.snap = IdOf(t, i) /\ s.kvs = StateAt[j]
      OBVIOUS
    <3>2. cmds' = f.cmds /\ UNCHANGED <<up, db, smq, sm>>
      BY <2>2, Zenon DEF InstallSnapshotRequest, SetEngine
    <3> HIDE DEF s
    <3>3. Ahead(s.kvs, s.snap.index)
      BY <1>1, <3>1, SentAhead
    <3>4. QueuesAhead(f)
      BY <1>1, <3>3, InstallAhead
    <3> HIDE DEF f
    <3> QED BY <3>2, <3>4 DEF QueuesAhead
  <2> QED BY <2>1, <2>2 DEF Receive
<1> QED BY <1>2, AfterAhead DEF KeyInv

\* The commands of RaftCore.
LEMMA CoreAhead ==
  ASSUME NodeInv, KeyInv, Core \/ \E n \in inflight : LocalIO(n), setting' = setting
  PROVE  KeyInv'
<1>0. DOMAIN db = DbFields
  BY DEF NodeInv, Durable
<1>1. /\ Ahead(db.kvs, db.snap.index) /\ (up => Ahead(sm.kvs, sm.applied.index))
      /\ SendsAhead(cmds) /\ SendsAhead(smq) /\ QueuesAhead(Engine)
  BY DEF KeyInv, QueuesAhead, Engine
<1>2. CASE SaveVote \/ TruncateLog \/ AppendEntries \/ UpdateIOProgress \/ PurgeLog
  <2>1. /\ cmds # <<>> /\ cmds' = Tail(cmds) /\ UNCHANGED <<up, smq, sm>>
    BY <1>2 DEF SaveVote, TruncateLog, AppendEntries, UpdateIOProgress, PurgeLog, Runnable
  <2>2. db'.kvs = db.kvs /\ db'.snap = db.snap
    <3>1. CASE SaveVote
      BY <1>0, <3>1, StorageApart, Zenon DEF SaveVote
    <3>2. CASE TruncateLog
      BY <1>0, <3>2, StorageApart, Zenon DEF TruncateLog
    <3>3. CASE AppendEntries
      <4>1. \E b, es, n : db' = PutEntries(db, b, es, n)
        BY <3>3, Zenon DEF AppendEntries
      <4>2. PICK b, es, n : db' = PutEntries(db, b, es, n)
        BY <4>1, Zenon
      <4>3. PutEntries(db, b, es, n).kvs = db.kvs /\ PutEntries(db, b, es, n).snap = db.snap
        BY <1>0, StorageApart
      <4> QED BY <4>2, <4>3, Zenon
    <3>4. CASE UpdateIOProgress
      BY <3>4 DEF UpdateIOProgress
    <3>5. CASE PurgeLog
      BY <1>0, <3>5, StorageApart, Zenon DEF PurgeLog
    <3> QED BY <1>2, <3>1, <3>2, <3>3, <3>4, <3>5
  <2>3. SendsAhead(cmds')
    BY <1>1, <2>1, QueueAhead
  <2> QED BY <1>1, <2>1, <2>2, <2>3, AfterAhead
<1>3. CASE SendToStateMachine
  <2>1. /\ cmds # <<>> /\ cmds' = Tail(cmds) /\ smq' = Append(smq, Head(cmds)) /\ UNCHANGED <<up, db, sm>>
    BY <1>3, Zenon DEF SendToStateMachine, Send, Runnable
  <2>2. SendsAhead(cmds') /\ SendsAhead(smq')
    BY <1>1, <2>1, QueueAhead
  <2> QED BY <1>1, <2>1, <2>2, AfterAhead
<1>4. CASE SaveCommittedAndApply
  <2> DEFINE c == [op |-> "Apply", since |-> rs.applySub.index + 1, last |-> ApplyUpto]
  <2>1. smq' = Append(smq, c) /\ UNCHANGED <<up, db, cmds, sm>>
    BY <1>4, Zenon DEF SaveCommittedAndApply, Send
  <2>2. c.op # "InstallFullSnapshot"
    OBVIOUS
  <2> HIDE DEF c
  <2>3. SendsAhead(smq')
    BY <1>1, <2>1, <2>2, QueueAhead
  <2> QED BY <1>1, <2>1, <2>3, AfterAhead
<1>5. CASE BuildSnapshotDone \/ TriggerSnapshot
  <2>1. UNCHANGED <<up, db, smq, sm>> /\ SendsAhead(cmds')
    <3>1. CASE BuildSnapshotDone
      <4>1. cmds' = BuildingSnapshotDone(Engine, Head(notes).id).cmds /\ UNCHANGED <<up, db, smq, sm>>
        BY <3>1, Zenon DEF BuildSnapshotDone, SetEngine
      <4> QED BY <1>1, <4>1, BuildAhead DEF QueuesAhead
    <3>2. CASE TriggerSnapshot
      <4>1. cmds' = QueueBuild([Engine EXCEPT !.rs.triedAt = rs.applyAcc]).cmds /\ UNCHANGED <<up, db, smq, sm>>
        BY <3>2, Zenon DEF TriggerSnapshot, SetEngine
      <4> QED BY <1>1, <4>1, BuildAhead DEF QueuesAhead
    <3> QED BY <1>5, <3>1, <3>2
  <2> QED BY <1>1, <2>1, AfterAhead
<1>6. CASE InstallSnapshotDone \/ \E n \in inflight : LocalIO(n)
  <2>1. UNCHANGED <<up, db, cmds, smq, sm>>
    BY <1>6 DEF InstallSnapshotDone, LocalIO
  <2> QED BY <1>1, <2>1, AfterAhead
<1> QED BY <1>2, <1>3, <1>4, <1>5, <1>6 DEF Core

\* The worker: an install loads a map that is not behind, and the entries
\* read are the chosen ones that follow the last one applied.
LEMMA WorkerAhead ==
  ASSUME NodeInv, KeyInv, Worker, setting' = setting
  PROVE  KeyInv'
<1>1. /\ Ahead(db.kvs, db.snap.index) /\ (up => Ahead(sm.kvs, sm.applied.index))
      /\ SendsAhead(cmds) /\ SendsAhead(smq)
  BY DEF KeyInv
<1>2. setting \in Settings /\ Durable(db) /\ up
      /\ Good(db, rs, cmds, smq, batch, sm, builder, notes)
  BY DEF NodeInv, Worker, WorkerFree, GetSnapshotBuilder, InstallSnapshot, ReadEntries, ApplyOne
<1>3. CASE GetSnapshotBuilder \/ ReadEntries
  <2>1. smq # <<>> /\ smq' = Tail(smq) /\ UNCHANGED <<up, db, cmds, sm>>
    BY <1>3 DEF GetSnapshotBuilder, ReadEntries, WorkerFree
  <2>2. SendsAhead(smq')
    BY <1>1, <2>1, QueueAhead
  <2> QED BY <1>1, <2>1, <2>2, AfterAhead
<1>4. CASE InstallSnapshot
  <2> DEFINE c == Head(smq)
  <2>1. /\ smq # <<>> /\ c.op = "InstallFullSnapshot" /\ smq' = Tail(smq)
        /\ sm' = StateOf(c.snap) /\ db' = SetCurrentSnapshot(db, c.snap) /\ UNCHANGED <<up, cmds>>
    BY <1>4, Zenon DEF InstallSnapshot, WorkerFree
  <2> HIDE DEF c
  <2>2. Ahead(c.snap.kvs, c.snap.snap.index) /\ SendsAhead(smq')
    BY <1>1, <2>1, QueueAhead DEF c
  <2>3. /\ sm'.kvs = c.snap.kvs /\ sm'.applied = c.snap.snap
        /\ db'.kvs = c.snap.kvs /\ db'.snap = c.snap.snap
    <3>1. DOMAIN db = DbFields
      BY <1>2 DEF Durable
    <3>2. StateOf(c.snap).kvs = c.snap.kvs /\ StateOf(c.snap).applied = c.snap.snap
      BY DEF StateOf
    <3> QED BY <2>1, <3>1, <3>2, StorageApart
  <2> QED BY <1>1, <2>1, <2>2, <2>3, AfterAhead
<1>5. CASE ApplyOne
  <2> DEFINE id == Head(batch)
             i  == sm.applied.index
  <2>1. /\ batch # <<>> /\ sm' = [applied |-> id, mem |-> MemOp(sm.mem, id), kvs |-> ApplyOp(sm.kvs, id)]
        /\ UNCHANGED <<up, db, cmds, smq>>
    BY <1>5, Zenon DEF ApplyOne
  <2>2. sm'.applied = id /\ sm'.kvs = ApplyOp(sm.kvs, id)
    BY <2>1
  <2>3. IsSeq(batch) /\ i \in Nat
    BY <1>2, Runs
  <2>4. Head(batch) = batch[1] /\ 1 \in 1..Len(batch) /\ Len(batch) \in Nat
    BY <2>1, <2>3, Seqs
  <2>5. id = ChosenId(id.index) /\ id.index = i + 1
    BY <1>2, <2>4, BatchIs
  <2>6. i + 1 <= Len(Chosen)
    <3>1. Good(db, rs, cmds, smq, Tail(batch), sm', builder, notes)
      BY <1>2, <2>1, <2>2, ApplyOneKeeps
    <3>2. sm'.applied \in Upto(MaxTerm)
      BY <3>1 DEF Good, Working
    <3>3. sm'.applied.index \in 0..Com(MaxTerm)
      BY <1>2, <3>2, ChosenIds, Commits
    <3> QED BY <1>2, <2>2, <2>5, <3>3, Commits
  <2> HIDE DEF id, i
  <2>7. Ahead(ApplyOp(sm.kvs, ChosenId(i + 1)), i + 1)
    BY <1>1, <1>2, <2>3, <2>6, Catches DEF i
  <2>8. Ahead(sm'.kvs, sm'.applied.index)
    BY <2>2, <2>5, <2>7
  <2> QED BY <1>1, <2>1, <2>8, AfterAhead
<1> QED BY <1>3, <1>4, <1>5 DEF Worker

\* The builder writes the map of now with the log id of when it was created,
\* a death leaves the snapshot, and a start loads it.
LEMMA SnapshotAhead ==
  ASSUME NodeInv, KeyInv, BuilderDone \/ Crash \/ Start, setting' = setting
  PROVE  KeyInv'
<1>1. /\ Ahead(db.kvs, db.snap.index) /\ (up => Ahead(sm.kvs, sm.applied.index))
      /\ SendsAhead(cmds) /\ SendsAhead(smq)
  BY DEF KeyInv
<1>2. setting \in Settings /\ Durable(db) /\ DOMAIN db = DbFields
  BY DEF NodeInv, Durable
<1>3. CASE BuilderDone
  <2> DEFINE b == Head(builder)
             s == [snap |-> b.applied, mem |-> b.mem, kvs |-> sm.kvs]
  <2>1. /\ up /\ builder # <<>> /\ db' = SetCurrentSnapshot(db, s) /\ UNCHANGED <<up, cmds, smq, sm>>
    BY <1>3, Zenon DEF BuilderDone
  <2>2. Good(db, rs, cmds, smq, batch, sm, builder, notes)
    BY <2>1 DEF NodeInv
  <2>3. IsSeq(builder) /\ sm.applied.index \in Nat
    BY <1>2, <2>2, Runs
  <2>4. b = builder[1] /\ 1 \in 1..Len(builder)
    BY <2>1, <2>3, Seqs
  <2>5. b.applied \in Upto(MaxTerm) /\ b.applied.index <= sm.applied.index
    BY <2>2, <2>4 DEF Good, Working
  <2>6. b.applied.index \in Nat
    BY <1>2, <2>5, ChosenIds, Commits
  <2>7. s.snap = b.applied /\ s.kvs = sm.kvs
    OBVIOUS
  <2> HIDE DEF b, s
  <2>8. db'.kvs = sm.kvs /\ db'.snap = b.applied
    BY <1>2, <2>1, <2>7, StorageApart
  <2>9. Ahead(sm.kvs, b.applied.index)
    BY <1>1, <1>2, <2>1, <2>3, <2>5, <2>6, AheadBefore
  <2> QED BY <1>1, <2>1, <2>8, <2>9, AfterAhead
<1>4. CASE Crash
  <2>1. ~ up' /\ cmds' = <<>> /\ smq' = <<>> /\ db' = db
    BY <1>4 DEF Crash
  <2>2. SendsAhead(<<>>)
    BY Seqs DEF SendsAhead
  <2> QED BY <1>1, <2>1, <2>2, AfterAhead
<1>5. CASE Start
  <2> DEFINE d == IF LogIdLt(LastLogId(db), db.snap) THEN PurgeRange(db, db.snap) ELSE db
             s == StateOf(CurrentSnapshot(db))
  <2>1. sm' = RestoreFromSnapshot(s, db) /\ db' = d /\ UNCHANGED <<cmds, smq>>
    BY <1>5, Zenon DEF Start
  <2>2. sm' = s
    BY <2>1, Zenon DEF RestoreFromSnapshot
  <2>3. s.kvs = db.kvs /\ s.applied = db.snap
    BY DEF StateOf, CurrentSnapshot
  <2>4. d.kvs = db.kvs /\ d.snap = db.snap
    BY <1>2, StorageApart
  <2> HIDE DEF d, s
  <2> QED BY <1>1, <2>1, <2>2, <2>3, <2>4, AfterAhead
<1> QED BY <1>3, <1>4, <1>5

\* The invariant holds at first and after every step.
LEMMA KeyInvKeeps ==
  ASSUME SnapshotsSeparate
  PROVE  /\ Init => KeyInv
         /\ NodeInv /\ KeyInv /\ [Next /\ UNCHANGED setting]_<<vars, setting>> => KeyInv'
<1>1. ASSUME Init PROVE KeyInv
  <2>1. /\ setting \in Settings /\ cmds = <<>> /\ smq = <<>> /\ db.snap.index = 0 /\ db.kvs = NoKvs
        /\ sm.applied.index = 0 /\ sm.kvs = NoKvs
    BY <1>1 DEF Init, EmptyDb, NoLogId
  <2>2. StateAt[0] = NoKvs /\ Len(Chosen) \in Nat /\ DOMAIN NoKvs = Key /\ 0 \in 0..Len(Chosen)
    BY <2>1, StatesAre DEF NoKvs
  <2>3. Ahead(NoKvs, 0)
    BY <2>2 DEF Ahead
  <2>4. SendsAhead(<<>>)
    BY Seqs DEF SendsAhead
  <2> QED BY <2>1, <2>3, <2>4 DEF KeyInv
<1>2. ASSUME NodeInv, KeyInv, [Next /\ UNCHANGED setting]_<<vars, setting>> PROVE KeyInv'
  <2>1. setting' = setting
    BY <1>2 DEF vars
  <2>2. CASE UNCHANGED <<vars, setting>>
    BY <1>2, <2>1, <2>2, AfterAhead DEF vars, KeyInv
  <2>3. CASE Next
    BY <1>2, <2>1, <2>3, ReceiveAhead, CoreAhead, WorkerAhead, SnapshotAhead DEF Next
  <2> QED BY <1>2, <2>2, <2>3
<1> QED BY <1>1, <1>2
----------------------------------------------------------------------------
(* The theorems.                                                           *)

\* The inductive invariant holds in every state: the queues of RaftCore and
\* of the worker, the disk, the engine's log and the state machine fit
\* together, for every history of leaders.
THEOREM NodeInvariant ==
  ASSUME SnapshotsSeparate
  PROVE  Spec => []NodeInv
<1>1. Init => NodeInv
  BY InitKeeps
<1>2. NodeInv /\ [Next /\ UNCHANGED setting]_<<vars, setting>> => NodeInv'
  BY NextKeeps
<1> QED BY <1>1, <1>2, PTL DEF Spec

\* Worker::apply only hands chosen entries to the state machine, though it
\* reads them from the log long after openraft decided to apply them.
THEOREM AppliesChosen ==
  ASSUME SnapshotsSeparate
  PROVE  Spec => []OnlyChosenApplied
<1>1. NodeInv => OnlyChosenApplied
  <2>1. SUFFICES ASSUME NodeInv, up
                 PROVE  /\ sm.applied = ChosenId(sm.applied.index)
                        /\ \A id \in Range(batch) : id = ChosenId(id.index)
    BY DEF OnlyChosenApplied
  <2> QED BY <2>1, BatchIs DEF Range
<1> QED BY <1>1, NodeInvariant, PTL

\* try_get_log_entries returns the entries that follow the last one applied,
\* and what is queued for the worker follows those: none is skipped or
\* applied twice, across truncations, installs, purges and restarts.
THEOREM AppliesInSequence ==
  ASSUME SnapshotsSeparate
  PROVE  Spec => []AppliesWithoutGap
<1>1. NodeInv => AppliesWithoutGap
  <2>1. SUFFICES ASSUME NodeInv, up PROVE AppliesWithoutGap
    BY DEF AppliesWithoutGap
  <2>2. \A n \in 1..Len(batch) : batch[n].index = sm.applied.index + n
    BY <2>1, BatchIs
  <2> QED BY <2>1, <2>2, QueueIs DEF AppliesWithoutGap
<1> QED BY <1>1, NodeInvariant, PTL

\* A map loaded from a snapshot may hold writes after its log id, as a
\* builder clones the log id first and locks kvs later: replaying the log
\* from the log id never leaves a key of a running node older than
\* last_applied_log_id says.
THEOREM ReplayCatchesUp ==
  ASSUME SnapshotsSeparate
  PROVE  Spec => []NoKeyBehind
<1>1. Init => KeyInv
  BY KeyInvKeeps
<1>2. NodeInv /\ KeyInv /\ [Next /\ UNCHANGED setting]_<<vars, setting>> => KeyInv'
  BY KeyInvKeeps
<1>3. KeyInv => NoKeyBehind
  BY DEF KeyInv, Ahead, NoKeyBehind
<1> QED BY <1>1, <1>2, <1>3, NodeInvariant, PTL DEF Spec

\* IOProgress::submit never meets a log IO before the last submitted one.
THEOREM SubmissionOrder ==
  ASSUME SnapshotsSeparate
  PROVE  Spec => SubmitsInOrder
<1>1. NodeInv /\ NodeInv' /\ [Next /\ UNCHANGED setting]_<<vars, setting>>
        => [up => ~IOLt(rs'.logSub, rs.logSub)]_vars
  BY SubmitsForward DEF vars
<1> QED BY <1>1, NodeInvariant, PTL DEF Spec, SubmitsInOrder
=============================================================================
