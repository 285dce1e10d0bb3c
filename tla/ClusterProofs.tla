--------------------------- MODULE ClusterProofs ---------------------------
(***************************************************************************)
(* Cluster is safe for any set of nodes, any budgets and any order of the  *)
(* messages, as long as a leader that restarts finds the log it wrote.     *)
(*                                                                         *)
(* The argument is raft's, over what the code keeps.  Votes only rise and  *)
(* a vote is known to the node it names before anyone else has it, so that *)
(* every committed vote belongs to one leader with one log that grows.     *)
(* Every entry of every log, with all before it, comes from the log of the *)
(* leader whose id it carries.  An entry is choosable under a vote while a *)
(* quorum has acknowledged it or may still do so; what is choosable under  *)
(* a vote is in the log of every later leader, because a quorum voted for  *)
(* it after comparing logs, and what is chosen stays choosable for ever.   *)
(***************************************************************************)
EXTENDS Cluster, FiniteSetTheorems, SequenceTheorems, WellFoundedInduction, TLAPS

Ids == Nat \X Nat
Votes == [term : Nat, node : Nat, done : BOOLEAN]
Entries == [id : Ids, val : Int]
LogIds == [id : Ids, at : Nat]
IOs == [vote : Votes, last : LogIds]
NodeStates ==
  [vote : Votes, log : Seq(Entries), disk : Seq(Entries), committed : Nat, accepted : IOs,
   cluster : IOs, role : {"follower", "candidate", "leader"}, noop : Nat]
Reads ==
  [pc : {"idle", "wait", "failed", "done"}, at : Nat, vote : Votes, upto : Nat, ok : SUBSET Node,
   floor : Seq(Entries), saw : Seq(Entries)]

BudgetSet ==
  [started : SUBSET Node, voted : SUBSET Node, electors : SUBSET Node,
   mortals : SUBSET Node, inits : Nat, elections : Nat, writes : Nat,
   crashes : Nat, reads : Nat, parts : BOOLEAN]

TypeInv ==
  /\ node \in [Node -> NodeStates]
  /\ left \in BudgetSet
  /\ asked \in SUBSET [vote : Votes, last : LogIds]
  /\ granted \in SUBSET [vote : Votes, from : Node]
  /\ sent \in SUBSET [vote : Votes, log : Seq(Entries), commit : Nat]
  /\ acked \in SUBSET [vote : Votes, from : Node, upto : Nat]
  /\ read \in [Reader -> Reads]
  /\ chosen \in Seq(Entries)

\* Logs l and m are the same up to entry i.
Agree(l, m, i) == i <= Len(l) /\ i <= Len(m) /\ \A k \in 1..i : l[k] = m[k]

Undone(v) == [v EXCEPT !.done = FALSE]

\* The node a vote names has it, or a greater one.
Known(v) == v.term > 0 => v.node \in Node /\ ~ VoteLt(node[v.node].vote, v)

\* A committed vote is that of a leader.
Led(v) == (v.term > 0 /\ v.done) => \E p \in sent : p.vote = v

NodeOK(n) ==
  LET s == node[n]
  IN  /\ Known(s.vote) /\ Led(s.vote)
      /\ s.role = "candidate" => s.vote.node = n /\ ~ s.vote.done /\ s.vote.term > 0
      /\ s.role = "leader" => s.vote.node = n /\ s.vote.done /\ s.vote.term > 0
      /\ (s.vote.term > 0 /\ s.vote.done /\ s.vote.node = n) => s.role = "leader"
      /\ IF s.vote.term > 0 THEN s.accepted.vote = s.vote ELSE s.accepted = NoIO
      /\ ~ s.accepted.vote.done => s.accepted.last = NoLogId
      /\ Led(s.cluster.vote) /\ ~ VoteLt(s.vote, s.cluster.vote)
      /\ s.cluster.vote.term = 0 => s.cluster = NoIO
      /\ s.cluster.vote.term > 0 => s.cluster.vote.done
      /\ s.role = "candidate" =>
           \E q \in asked : q.vote = s.vote /\ q.last = LastId(s.log)
      /\ s.role = "leader" =>
           /\ \E p \in sent : p.vote = s.vote /\ p.log = s.log
           /\ s.noop \in 1..Len(s.log) /\ s.log[s.noop].id = LeaderId(s.vote)

NodeInv == \A n \in Node : NodeOK(n)

AskedInv ==
  /\ \A q \in asked : q.vote.term > 0 /\ ~ q.vote.done /\ Known(q.vote)
  /\ \A q, r \in asked : q.vote = r.vote => q = r

GrantedInv ==
  \A g \in granted :
    /\ ~ VoteLt(node[g.from].vote, g.vote)
    /\ \E q \in asked : q.vote = g.vote

Granters(v) == {n \in Node : \E g \in granted : g.vote = v /\ g.from = n}

\* The log of a leader: what it had as a candidate, then entries of its own.
SentInv ==
  /\ \A p, q \in sent : p.vote = q.vote => p = q
  /\ \A p \in sent :
       /\ p.vote.term > 0 /\ p.vote.done /\ Known(p.vote)
       /\ HasQuorum(Granters(Undone(p.vote)))
       /\ p.log # <<>> /\ p.log[Len(p.log)].id = LeaderId(p.vote)
       /\ \A i \in 1..Len(p.log) : ~ IdLt(LeaderId(p.vote), p.log[i].id)
       /\ \A i, j \in 1..Len(p.log) : i <= j => ~ IdLt(p.log[j].id, p.log[i].id)

\* Every entry is the first one of all, or comes from the log of its leader.
FromLeader(l, i) ==
  \/ i = 1 /\ l[1] = InitialEntry
  \/ \E p \in sent : LeaderId(p.vote) = l[i].id /\ Agree(l, p.log, i)
Origin(l) == \A i \in 1..Len(l) : FromLeader(l, i)

Bounded(l, v) == \A i \in 1..Len(l) : ~ IdLt(LeaderId(v), l[i].id)

LogInv ==
  /\ \A n \in Node : /\ Origin(node[n].log) /\ Origin(node[n].disk)
                     /\ Bounded(node[n].log, node[n].vote)
                     /\ Bounded(node[n].disk, node[n].vote)
  /\ \A p \in sent : Origin(p.log)

\* What a node has accepted from a leader is what that leader has.
AcceptedInv ==
  \A n \in Node : \A p \in sent :
    LET a == node[n].accepted
    IN  a.vote = p.vote => /\ Agree(node[n].log, p.log, a.last.at)
                           /\ a.last = EntryId(p.log, a.last.at)

HasAcked(n, v, i) == \E b \in acked : b.vote = v /\ b.from = n /\ b.upto >= i

\* An entry may still be acknowledged by a quorum.
Choosable(v, i) ==
  HasQuorum({n \in Node : HasAcked(n, v, i) \/ ~ VoteLt(v, node[n].vote)})

\* Entry i of p is one p's leader has proposed and may commit.
Open(p, i) == /\ i \in 1..Len(p.log) /\ p.log[i].id = LeaderId(p.vote)
              /\ Choosable(p.vote, i)

AckedInv ==
  /\ \A b \in acked :
       /\ ~ VoteLt(node[b.from].vote, b.vote)
       /\ \E p \in sent : p.vote = b.vote /\ b.upto <= Len(p.log)
  /\ \A p \in sent, n \in Node : \A i \in 1..Len(p.log) :
       (HasAcked(n, p.vote, i) /\ Open(p, i)) =>
         Agree(node[n].log, p.log, i) /\ Agree(node[n].disk, p.log, i)

\* A node that acknowledged an entry grants later votes only to logs as good.
GrantInv ==
  \A g \in granted, q \in asked, p \in sent : \A i \in 1..Len(p.log) :
    (/\ q.vote = g.vote /\ VoteLt(p.vote, g.vote)
     /\ HasAcked(g.from, p.vote, i) /\ Open(p, i))
      => ~ LogLt(q.last, EntryId(p.log, i))

\* What is choosable is in the log of every later leader.
CompleteInv ==
  \A p, q \in sent : \A i \in 1..Len(p.log) :
    VoteLt(p.vote, q.vote) /\ Open(p, i) => Agree(p.log, q.log, i)

HasChosen(p, i) ==
  /\ i \in 1..Len(p.log) /\ p.log[i].id = LeaderId(p.vote)
  /\ HasQuorum({n \in Node : HasAcked(n, p.vote, i)})

\* The first k chosen entries were chosen under vote v or a smaller one.
Justified(v, k) ==
  /\ k <= Len(chosen)
  /\ k > 0 => \E p \in sent : \E i \in k..Len(p.log) :
                ~ VoteLt(v, p.vote) /\ HasChosen(p, i) /\ Agree(chosen, p.log, k)

ChosenInv ==
  chosen # <<>> =>
    \E p \in sent : HasChosen(p, Len(chosen)) /\ Agree(chosen, p.log, Len(chosen))

CommitInv ==
  /\ \A n \in Node :
       /\ Agree(node[n].log, chosen, node[n].committed)
       /\ Justified(node[n].vote, node[n].committed)
       /\ Justified(node[n].cluster.vote, node[n].cluster.last.at)
       /\ node[n].cluster.last = EntryId(chosen, node[n].cluster.last.at)
  /\ \A p \in sent : Justified(p.vote, p.commit)

SafeInv ==
  /\ TypeInv /\ NodeInv /\ AskedInv /\ GrantedInv /\ SentInv /\ LogInv /\ AcceptedInv
  /\ AckedInv /\ GrantInv /\ CompleteInv /\ ChosenInv /\ CommitInv

\* What a leader chose it knows to be committed.
KnowsChosen(n) ==
  (node[n].role = "leader" /\ chosen # <<>> /\ chosen[Len(chosen)].id = LeaderId(node[n].vote))
    => Len(chosen) <= node[n].committed

\* A read that began behind what others chose will not find a quorum.
Outvoted(R) ==
  \E Q \in SUBSET Node : /\ HasQuorum(Q) /\ Q \cap R.ok = {}
                        /\ \A m \in Q : VoteLt(R.vote, node[m].vote)

ReadOK(R) ==
  R.pc = "wait" => /\ Agree(R.floor, chosen, Len(R.floor))
                   /\ Len(R.floor) <= R.upto \/ Outvoted(R)

ReadInv == (\A n \in Node : KnowsChosen(n)) /\ (\A r \in Reader : ReadOK(read[r]))

\* Either nobody reads, or nobody crashes.
ReadSafe ==
  \/ left.reads = 0 /\ \A r \in Reader : read[r].pc = "idle"
  \/ left.crashes = 0 /\ ReadInv

\* Votes of reads.
ReadVotes ==
  \A r \in Reader : read[r].pc = "wait" =>
    /\ read[r].at \in read[r].ok /\ read[r].vote.node = read[r].at
    /\ read[r].vote.term > 0 /\ read[r].vote.done /\ Known(read[r].vote) /\ Led(read[r].vote)

----------------------------------------------------------------------------
(* Ids and votes are in total order.                                        *)

\* IdLt is irreflexive, transitive and total.
LEMMA IdOrder ==
  ASSUME NEW a \in Ids, NEW b \in Ids, NEW c \in Ids
  PROVE  /\ ~ IdLt(a, a)
         /\ IdLt(a, b) => ~ IdLt(b, a)
         /\ IdLt(a, b) /\ IdLt(b, c) => IdLt(a, c)
         /\ ~ IdLt(b, a) /\ IdLt(b, c) => IdLt(a, c)
         /\ IdLt(a, b) /\ ~ IdLt(c, b) => IdLt(a, c)
         /\ ~ IdLt(b, a) /\ ~ IdLt(c, b) => ~ IdLt(c, a)
         /\ IdLt(a, b) \/ a = b \/ IdLt(b, a)
  BY DEF Ids, IdLt

\* The leader id of a vote, and when two votes have the same.
LEMMA LeaderIds ==
  ASSUME NEW a \in Votes, NEW b \in Votes
  PROVE  /\ LeaderId(a) \in Ids
         /\ LeaderId(a) = LeaderId(b) <=> (a.term = b.term /\ a.node = b.node)
         /\ (LeaderId(a) = LeaderId(b) /\ a.done = b.done) => a = b
         /\ IdLt(LeaderId(a), LeaderId(b)) <=> (a.term < b.term \/ (a.term = b.term /\ a.node < b.node))
  BY DEF Votes, Ids, LeaderId, IdLt

\* VoteLt, written out.
LEMMA VoteLtMeans ==
  ASSUME NEW a \in Votes, NEW b \in Votes
  PROVE  VoteLt(a, b) <=> \/ a.term < b.term
                          \/ a.term = b.term /\ a.node < b.node
                          \/ a.term = b.term /\ a.node = b.node /\ ~ a.done /\ b.done
  BY LeaderIds DEF VoteLt

\* VoteLt is irreflexive, transitive and total.
LEMMA VoteOrder ==
  ASSUME NEW a \in Votes, NEW b \in Votes, NEW c \in Votes
  PROVE  /\ ~ VoteLt(a, a)
         /\ VoteLt(a, b) => ~ VoteLt(b, a)
         /\ VoteLt(a, b) /\ VoteLt(b, c) => VoteLt(a, c)
         /\ ~ VoteLt(b, a) /\ VoteLt(b, c) => VoteLt(a, c)
         /\ VoteLt(a, b) /\ ~ VoteLt(c, b) => VoteLt(a, c)
         /\ ~ VoteLt(b, a) /\ ~ VoteLt(c, b) => ~ VoteLt(c, a)
         /\ VoteLt(a, b) \/ a = b \/ VoteLt(b, a)
<1>1. a.term \in Nat /\ b.term \in Nat /\ c.term \in Nat /\ a.node \in Nat /\ b.node \in Nat /\ c.node \in Nat
      /\ a.done \in BOOLEAN /\ b.done \in BOOLEAN /\ c.done \in BOOLEAN
  BY DEF Votes
<1>2. (a.term = b.term /\ a.node = b.node /\ a.done = b.done) => a = b
  BY LeaderIds
<1>. QED  BY <1>1, <1>2, VoteLtMeans

\* The order of votes and the order of their leader ids.
LEMMA VoteIdOrder ==
  ASSUME NEW a \in Votes, NEW b \in Votes
  PROVE  /\ VoteLt(a, b) => ~ IdLt(LeaderId(b), LeaderId(a))
         /\ (VoteLt(a, b) /\ a.done) => IdLt(LeaderId(a), LeaderId(b))
         /\ IdLt(LeaderId(a), LeaderId(b)) => VoteLt(a, b)
         /\ ~ VoteLt(b, a) => ~ IdLt(LeaderId(b), LeaderId(a))
  BY VoteLtMeans, LeaderIds DEF Votes

\* A vote and its uncommitted form.
LEMMA UndoneVotes ==
  ASSUME NEW a \in Votes, NEW b \in Votes, b.done
  PROVE  /\ Undone(b) \in Votes /\ ~ Undone(b).done
         /\ Undone(b).term = b.term /\ Undone(b).node = b.node
         /\ VoteLt(Undone(b), b)
         /\ (VoteLt(a, b) /\ a.done) => VoteLt(a, Undone(b))
         /\ (~ a.done /\ a.term = b.term /\ a.node = b.node) => a = Undone(b)
         /\ (VoteLt(a, b) /\ ~ VoteLt(a, Undone(b))) => a = Undone(b)
<1>1. Undone(b) \in Votes /\ ~ Undone(b).done /\ Undone(b).term = b.term /\ Undone(b).node = b.node
  BY DEF Undone, Votes
<1>2. a.term \in Nat /\ b.term \in Nat /\ a.node \in Nat /\ b.node \in Nat
      /\ a.done \in BOOLEAN /\ b.done \in BOOLEAN
  BY DEF Votes
<1>3. (a.term = b.term /\ a.node = b.node /\ ~ a.done) => a = Undone(b)
  <2>1. Undone(b).done = FALSE /\ (~ a.done => a.done = FALSE)
    BY <1>1, <1>2 DEF Undone, Votes
  <2>. QED  BY ZenonT(60), <1>1, <2>1, LeaderIds
<1>. QED  BY <1>1, <1>2, <1>3, VoteLtMeans

----------------------------------------------------------------------------
(* Logs that agree.                                                         *)

\* Agreement is symmetric, transitive and closed under shorter prefixes.
LEMMA AgreeFacts ==
  ASSUME NEW l \in Seq(Entries), NEW m \in Seq(Entries), NEW o \in Seq(Entries),
         NEW i \in Nat, NEW k \in Nat, k <= i, Agree(l, m, i)
  PROVE  /\ Agree(m, l, i) /\ Agree(l, m, k) /\ Agree(m, l, k)
         /\ Agree(m, o, i) => Agree(l, o, i)
         /\ Agree(m, o, k) => Agree(l, o, k)
         /\ Agree(l, o, k) => Agree(m, o, k)
         /\ k > 0 => l[k] = m[k] /\ EntryId(l, k) = EntryId(m, k)
<1>1. Len(l) \in Nat /\ Len(m) \in Nat /\ Len(o) \in Nat
  OBVIOUS
<1>. QED  BY <1>1 DEF Agree, EntryId

\* A log agrees with itself, with what it is cut to and with what extends it.
LEMMA AgreeParts ==
  ASSUME NEW l \in Seq(Entries), NEW m \in Seq(Entries), NEW e \in Entries,
         NEW i \in 0..Len(l), NEW j \in 0..Len(m), i <= j
  PROVE  /\ Agree(l, l, i)
         /\ SubSeq(l, 1, i) \in Seq(Entries) /\ Len(SubSeq(l, 1, i)) = i
         /\ Agree(SubSeq(l, 1, i), l, i)
         /\ Append(l, e) \in Seq(Entries) /\ Len(Append(l, e)) = Len(l) + 1
         /\ Agree(Append(l, e), l, Len(l)) /\ Append(l, e)[Len(l) + 1] = e
<1>1. Len(l) \in Nat /\ Len(m) \in Nat
  OBVIOUS
<1>2. SubSeq(l, 1, i) \in Seq(Entries) /\ Len(SubSeq(l, 1, i)) = i
      /\ \A k \in 1..i : SubSeq(l, 1, i)[k] = l[k]
  BY <1>1
<1>3. Append(l, e) \in Seq(Entries) /\ Len(Append(l, e)) = Len(l) + 1
      /\ Append(l, e)[Len(l) + 1] = e /\ \A k \in 1..Len(l) : Append(l, e)[k] = l[k]
  OBVIOUS
<1>. QED  BY <1>1, <1>2, <1>3 DEF Agree

\* The part before entry j, followed by entries j to k of another log that has
\* the same before j.
LEMMA AgreeSplice ==
  ASSUME NEW l \in Seq(Entries), NEW m \in Seq(Entries), NEW k \in 1..Len(m), NEW j \in 1..k,
         Agree(l, m, j - 1)
  PROVE  LET s == SubSeq(l, 1, j - 1) \o SubSeq(m, j, k)
         IN  s \in Seq(Entries) /\ Len(s) = k /\ Agree(s, m, k) /\ Agree(s, l, j - 1)
<1>. DEFINE a == SubSeq(l, 1, j - 1)
            b == SubSeq(m, j, k)
<1>0. Len(l) \in Nat /\ Len(m) \in Nat /\ j - 1 \in 0..Len(l)
  BY DEF Agree
<1>1. a \in Seq(Entries) /\ Len(a) = j - 1 /\ \A x \in 1..(j - 1) : a[x] = l[x]
  BY <1>0
<1>2. b \in Seq(Entries) /\ Len(b) = k - j + 1 /\ \A x \in 1..(k - j + 1) : b[x] = m[j + x - 1]
  BY <1>0
<1>. HIDE DEF a, b
<1>3. a \o b \in Seq(Entries) /\ Len(a \o b) = k
      /\ \A x \in 1..k : (a \o b)[x] = IF x <= j - 1 THEN a[x] ELSE b[x - (j - 1)]
  <2>1. a \o b \in Seq(Entries) /\ Len(a \o b) = Len(a) + Len(b)
        /\ \A x \in 1..(Len(a) + Len(b)) : (a \o b)[x] = IF x <= Len(a) THEN a[x] ELSE b[x - Len(a)]
    BY <1>1, <1>2, ConcatProperties
  <2>2. Len(a) + Len(b) = k
    BY <1>1, <1>2, <1>0
  <2>3. j \in Int /\ k \in Int
    BY <1>0
  <2>. QED  BY <1>1, <2>1, <2>2, <2>3
<1>4. \A x \in 1..k : (a \o b)[x] = m[x]
  <2>1. ASSUME NEW x \in 1..k  PROVE (a \o b)[x] = m[x]
    <3>1. CASE x <= j - 1
      BY <3>1, <1>1, <1>3, <1>0 DEF Agree
    <3>2. CASE x > j - 1
      <4>1. PICK y \in 1..(k - j + 1) : y = x - (j - 1)
        BY <3>2, <1>0
      <4>2. (a \o b)[x] = b[y]
        BY <3>2, <4>1, <1>3
      <4>3. b[y] = m[j + y - 1] /\ j + y - 1 = x
        BY <4>1, <1>2
      <4>. QED  BY <4>2, <4>3
    <3>3. x <= j - 1 \/ x > j - 1
      BY <1>0
    <3>. QED  BY <3>1, <3>2, <3>3
  <2>. QED  BY <2>1
<1>5. \A x \in 1..(j - 1) : (a \o b)[x] = l[x]
  BY <1>1, <1>3, <1>0
<1>6. a \o b \in Seq(Entries) /\ Len(a \o b) = k /\ Agree(a \o b, m, k) /\ Agree(a \o b, l, j - 1)
  BY <1>0, <1>3, <1>4, <1>5 DEF Agree
<1>. QED  BY <1>6 DEF a, b

\* IsPrefix in terms of Agree.
LEMMA PrefixAgree ==
  ASSUME NEW l \in Seq(Entries), NEW m \in Seq(Entries)
  PROVE  /\ IsPrefix(l, m) <=> Agree(l, m, Len(l))
         /\ Len(l) = Len(m) /\ Agree(l, m, Len(l)) => l = m
<1>1. Len(l) \in Nat /\ Len(m) \in Nat
  OBVIOUS
<1>2. ASSUME Agree(l, m, Len(l))  PROVE IsPrefix(l, m)
  <2>1. SubSeq(l, 1, Len(l)) \in Seq(Entries) /\ SubSeq(m, 1, Len(l)) \in Seq(Entries)
        /\ Len(SubSeq(l, 1, Len(l))) = Len(l) /\ Len(SubSeq(m, 1, Len(l))) = Len(l)
        /\ \A k \in 1..Len(l) : SubSeq(l, 1, Len(l))[k] = l[k] /\ SubSeq(m, 1, Len(l))[k] = m[k]
    BY <1>1, <1>2 DEF Agree
  <2>2. SubSeq(l, 1, Len(l)) = SubSeq(m, 1, Len(l))
    BY <1>1, <1>2, <2>1 DEF Agree
  <2>. QED  BY <1>2, <2>2 DEF IsPrefix, Agree
<1>3. ASSUME IsPrefix(l, m)  PROVE Agree(l, m, Len(l))
  <2>1. Len(l) <= Len(m) /\ SubSeq(l, 1, Len(l)) = SubSeq(m, 1, Len(l))
    BY <1>3 DEF IsPrefix
  <2>2. \A k \in 1..Len(l) : SubSeq(l, 1, Len(l))[k] = l[k] /\ SubSeq(m, 1, Len(l))[k] = m[k]
    BY <1>1, <2>1
  <2>. QED  BY <1>1, <2>1, <2>2 DEF Agree
<1>4. Len(l) = Len(m) /\ Agree(l, m, Len(l)) => l = m
  BY DEF Agree
<1>. QED  BY <1>2, <1>3, <1>4

\* Two prefixes of one log.
LEMMA AgreeNested ==
  ASSUME NEW l \in Seq(Entries), NEW m \in Seq(Entries), NEW o \in Seq(Entries),
         NEW i \in Nat, NEW j \in Nat, i <= j, Agree(l, o, i), Agree(m, o, j)
  PROVE  Agree(l, m, i)
<1>1. Len(l) \in Nat /\ Len(m) \in Nat /\ Len(o) \in Nat
  OBVIOUS
<1>. QED  BY <1>1 DEF Agree

----------------------------------------------------------------------------
(* Quorums.                                                                 *)

\* A quorum is more than half of the nodes.
LEMMA QuorumMeans ==
  ASSUME NEW Q
  PROVE  HasQuorum(Q) <=> 2 * Cardinality(Node \cap Q) > Cardinality(Node)
  BY DEF HasQuorum, IsQuorum, IsMajority

\* Two quorums have a node in common.
LEMMA QuorumsMeet ==
  ASSUME NEW Q, NEW R, HasQuorum(Q), HasQuorum(R)
  PROVE  \E n \in Node : n \in Q /\ n \in R
<1>. DEFINE A == Node \cap Q
            B == Node \cap R
<1>1. IsFiniteSet(Node)
  BY ClusterAssumption
<1>2. IsFiniteSet(A) /\ IsFiniteSet(B) /\ A \subseteq Node /\ B \subseteq Node
  BY <1>1, FS_Subset
<1>3. 2 * Cardinality(A) > Cardinality(Node) /\ 2 * Cardinality(B) > Cardinality(Node)
  BY QuorumMeans
<1>4. Cardinality(A) + Cardinality(B) > Cardinality(Node)
  <2>1. Cardinality(A) \in Nat /\ Cardinality(B) \in Nat /\ Cardinality(Node) \in Nat
    BY <1>1, <1>2, FS_CardinalityType
  <2>. QED  BY <2>1, <1>3
<1>5. A \cap B # {}
  BY <1>1, <1>2, <1>4, FS_MajoritiesIntersect
<1>. QED  BY <1>5

\* A set with at least the nodes of a quorum is one.
LEMMA QuorumGrows ==
  ASSUME NEW Q, NEW R, HasQuorum(Q), \A n \in Node : n \in Q => n \in R
  PROVE  HasQuorum(R)
<1>. DEFINE A == Node \cap Q
            B == Node \cap R
<1>1. IsFiniteSet(Node)
  BY ClusterAssumption
<1>2. IsFiniteSet(A) /\ IsFiniteSet(B) /\ A \subseteq B
  BY <1>1, FS_Subset
<1>3. Cardinality(A) <= Cardinality(B) /\ Cardinality(A) \in Nat /\ Cardinality(B) \in Nat /\ Cardinality(Node) \in Nat
  BY <1>1, <1>2, FS_Subset, FS_CardinalityType
<1>4. 2 * Cardinality(A) > Cardinality(Node)
  BY QuorumMeans
<1>5. 2 * Cardinality(B) > Cardinality(Node)
  BY <1>3, <1>4
<1>. QED  BY <1>5, QuorumMeans

\* All nodes are a quorum, and no quorum is empty.
LEMMA QuorumExists ==
  /\ HasQuorum(Node)
  /\ \A Q : HasQuorum(Q) => \E n \in Node : n \in Q
<1>1. IsFiniteSet(Node) /\ Node # {} /\ Node \cap Node = Node
  BY ClusterAssumption
<1>2. Cardinality(Node) \in Nat /\ Cardinality(Node) # 0
  BY <1>1, FS_CardinalityType, FS_EmptySet
<1>3. HasQuorum(Node)
  BY <1>1, <1>2, QuorumMeans
<1>. QED  BY <1>3, QuorumsMeet

----------------------------------------------------------------------------
(* What the invariant says of logs.                                         *)

\* A leader id is that of one leader.
LEMMA OneLeader ==
  ASSUME TypeInv, SentInv, NEW p \in sent, NEW q \in sent, LeaderId(p.vote) = LeaderId(q.vote)
  PROVE  p = q
<1>1. p.vote \in Votes /\ q.vote \in Votes /\ p.vote.done /\ q.vote.done
  BY DEF TypeInv, SentInv
<1>2. p.vote.done = q.vote.done
  BY <1>1 DEF Votes
<1>3. p.vote = q.vote
  BY <1>1, <1>2, LeaderIds
<1>. QED  BY <1>3 DEF SentInv

\* Entries of one id at one index have the same entries before them.
LEMMA OriginMatch ==
  ASSUME TypeInv, SentInv, NEW l \in Seq(Entries), NEW m \in Seq(Entries), NEW i \in Nat \ {0},
         i <= Len(l), i <= Len(m), FromLeader(l, i), FromLeader(m, i), l[i].id = m[i].id
  PROVE  Agree(l, m, i)
<1>1. ASSUME NEW p \in sent  PROVE LeaderId(p.vote) # InitialEntry.id
  <2>1. p.vote.term > 0
    BY DEF SentInv
  <2>2. InitialEntry.id = <<0, 0>>
    BY DEF InitialEntry
  <2>. QED  BY <2>1, <2>2 DEF LeaderId
<1>2. CASE i = 1 /\ l[1] = InitialEntry
  <2>1. m[1] = InitialEntry
    BY <1>1, <1>2 DEF FromLeader
  <2>. QED  BY <1>2, <2>1 DEF Agree
<1>3. CASE \E p \in sent : LeaderId(p.vote) = l[i].id /\ Agree(l, p.log, i)
  <2>1. PICK p \in sent : LeaderId(p.vote) = l[i].id /\ Agree(l, p.log, i)
    BY <1>3
  <2>2. PICK q \in sent : LeaderId(q.vote) = m[i].id /\ Agree(m, q.log, i)
    BY <1>1, <2>1 DEF FromLeader
  <2>3. p = q
    BY <2>1, <2>2, OneLeader
  <2>4. p.log \in Seq(Entries)
    BY DEF TypeInv
  <2>. QED  BY <2>1, <2>2, <2>3, <2>4, AgreeFacts
<1>. QED  BY <1>2, <1>3 DEF FromLeader

\* The ids of a log ascend.
LEMMA OriginSorted ==
  ASSUME TypeInv, SentInv, NEW l \in Seq(Entries), Origin(l),
         NEW i \in 1..Len(l), NEW j \in 1..Len(l), i <= j
  PROVE  ~ IdLt(l[j].id, l[i].id)
<1>1. l[i] \in Entries /\ l[j] \in Entries /\ Len(l) \in Nat
  OBVIOUS
<1>2. CASE j = 1 /\ l[1] = InitialEntry
  <2>1. i = j
    BY <1>2
  <2>. QED  BY <2>1, <1>1, IdOrder DEF Entries
<1>3. CASE \E p \in sent : LeaderId(p.vote) = l[j].id /\ Agree(l, p.log, j)
  <2>1. PICK p \in sent : LeaderId(p.vote) = l[j].id /\ Agree(l, p.log, j)
    BY <1>3
  <2>2. p.log \in Seq(Entries) /\ Len(p.log) \in Nat
    BY DEF TypeInv
  <2>3. l[j] = p.log[j] /\ l[i] = p.log[i] /\ i \in 1..Len(p.log) /\ j \in 1..Len(p.log)
    BY <2>1, <2>2, <1>1 DEF Agree
  <2>. QED  BY <2>3 DEF SentInv
<1>4. FromLeader(l, j)
  BY DEF Origin
<1>. QED  BY <1>2, <1>3, <1>4 DEF FromLeader

\* So do its log ids.
LEMMA LogIdOrder ==
  ASSUME TypeInv, SentInv, NEW l \in Seq(Entries), Origin(l),
         NEW i \in 0..Len(l), NEW j \in 0..Len(l)
  PROVE  LogLt(EntryId(l, i), EntryId(l, j)) <=> i < j
<1>0. Len(l) \in Nat /\ NoLogId = [id |-> <<0, 0>>, at |-> 0] /\ <<0, 0>> \in Ids
  BY DEF NoLogId, Ids
<1>1. \A k \in 1..Len(l) : l[k].id \in Ids /\ ~ IdLt(l[k].id, <<0, 0>>)
  <2>1. \A k \in 1..Len(l) : l[k].id \in Ids
    <3>1. \A k \in 1..Len(l) : l[k] \in Entries
      OBVIOUS
    <3>. QED  BY <3>1 DEF Entries
  <2>. QED  BY <2>1 DEF Ids, IdLt
<1>2. \A k \in 1..Len(l) : EntryId(l, k) = [id |-> l[k].id, at |-> k]
  BY <1>0 DEF EntryId
<1>3. EntryId(l, 0) = NoLogId
  BY DEF EntryId
<1>4. CASE i = 0 /\ j = 0
  BY <1>0, <1>3, <1>4, IdOrder DEF LogLt
<1>5. CASE i = 0 /\ j # 0
  <2>1. IdLt(<<0, 0>>, l[j].id) \/ <<0, 0>> = l[j].id
    BY <1>0, <1>1, <1>5, IdOrder
  <2>2. EntryId(l, j) = [id |-> l[j].id, at |-> j] /\ j > 0
    BY <1>0, <1>2, <1>5
  <2>. QED  BY SMTT(30), <2>1, <2>2, <1>0, <1>3, <1>5 DEF LogLt
<1>6. CASE i # 0 /\ j = 0
  BY <1>0, <1>1, <1>2, <1>3, <1>6 DEF LogLt
<1>7. CASE i # 0 /\ j # 0
  <2>1. i \in 1..Len(l) /\ j \in 1..Len(l)
    BY <1>7, <1>0
  <2>2. EntryId(l, i) = [id |-> l[i].id, at |-> i] /\ EntryId(l, j) = [id |-> l[j].id, at |-> j]
    BY <2>1, <1>2
  <2>3. l[i].id \in Ids /\ l[j].id \in Ids
    BY <2>1, <1>1
  <2>4. (i <= j => ~ IdLt(l[j].id, l[i].id)) /\ (j <= i => ~ IdLt(l[i].id, l[j].id))
    BY <2>1, OriginSorted
  <2>5. i \in Nat /\ j \in Nat
    BY <2>1
  <2>. QED  BY <2>2, <2>3, <2>4, <2>5, IdOrder DEF LogLt
<1>. QED  BY <1>4, <1>5, <1>6, <1>7

\* What a quorum has acknowledged is choosable.
LEMMA ChosenOpen ==
  ASSUME NEW p, NEW i, HasChosen(p, i)
  PROVE  Open(p, i)
<1>. DEFINE A == {n \in Node : HasAcked(n, p.vote, i)}
            B == {n \in Node : HasAcked(n, p.vote, i) \/ ~ VoteLt(p.vote, node[n].vote)}
<1>1. HasQuorum(A)
  BY DEF HasChosen
<1>2. HasQuorum(B)
  <2>1. \A n \in Node : n \in A => n \in B
    OBVIOUS
  <2>. HIDE DEF A, B
  <2>. QED  BY <1>1, <2>1, QuorumGrows
<1>. QED  BY <1>2 DEF HasChosen, Open, Choosable

\* What was chosen under a vote is in the log of its leader and of every later one.
LEMMA JustAgree ==
  ASSUME TypeInv, SentInv, CompleteInv, NEW v \in Votes, NEW k \in Nat, Justified(v, k),
         NEW q \in sent, ~ VoteLt(q.vote, v)
  PROVE  Agree(chosen, q.log, k)
<1>0. q.vote \in Votes /\ q.log \in Seq(Entries) /\ chosen \in Seq(Entries)
      /\ Len(q.log) \in Nat /\ Len(chosen) \in Nat /\ k <= Len(chosen)
  BY DEF TypeInv, Justified
<1>1. CASE k = 0
  BY <1>0, <1>1 DEF Agree
<1>2. CASE k > 0
  <2>0. PICK p \in sent : \E i \in k..Len(p.log) :
          ~ VoteLt(v, p.vote) /\ HasChosen(p, i) /\ Agree(chosen, p.log, k)
    BY <1>2 DEF Justified
  <2>1. PICK i \in k..Len(p.log) :
          ~ VoteLt(v, p.vote) /\ HasChosen(p, i) /\ Agree(chosen, p.log, k)
    BY <2>0
  <2>2. p.vote \in Votes /\ p.log \in Seq(Entries)
    BY DEF TypeInv
  <2>3. ~ VoteLt(q.vote, p.vote)
    BY <1>0, <2>1, <2>2, VoteOrder
  <2>4. CASE p.vote = q.vote
    BY <2>1, <2>4 DEF SentInv
  <2>5. CASE VoteLt(p.vote, q.vote)
    <3>1. Open(p, i) /\ i \in 1..Len(p.log)
      BY <2>1, ChosenOpen DEF HasChosen
    <3>2. Agree(p.log, q.log, i)
      BY <3>1, <2>5 DEF CompleteInv
    <3>3. i \in Nat /\ k <= i
      BY <2>1, <3>1
    <3>4. Agree(p.log, q.log, k)
      BY <3>2, <3>3, <2>2, <1>0, AgreeFacts
    <3>. QED  BY SMTT(30), <3>4, <2>1, <2>2, <1>0, AgreeFacts
  <2>. QED  BY <1>0, <2>2, <2>3, <2>4, <2>5, VoteOrder
<1>. QED  BY <1>1, <1>2

----------------------------------------------------------------------------
(* What every step keeps.                                                   *)

\* Votes rise, logs of leaders grow, messages stay, a node acknowledges under
\* its own vote or an older one only, and what is chosen stays.
Mono ==
  /\ TypeInv'
  /\ \A n \in Node : \A v \in Votes :
       (v.term > 0 /\ ~ VoteLt(node[n].vote, v)) => ~ VoteLt(node[n].vote', v)
  /\ \A p \in sent : \E q \in sent' : q.vote = p.vote /\ Agree(p.log, q.log, Len(p.log))
  /\ asked \subseteq asked' /\ granted \subseteq granted'
  /\ \A n \in Node : \A v \in Votes : \A i \in Nat :
       /\ HasAcked(n, v, i) => HasAcked(n, v, i)'
       /\ HasAcked(n, v, i)' => HasAcked(n, v, i) \/ ~ VoteLt(v, node[n].vote)
  /\ Agree(chosen, chosen', Len(chosen))

\* What is known of a vote, and where an entry comes from, stays known.
KnownNext(v) == v.term > 0 => v.node \in Node /\ ~ VoteLt(node'[v.node].vote, v)
LedNext(v) == (v.term > 0 /\ v.done) => \E p \in sent' : p.vote = v

\* What is known of a vote stays known.
LEMMA MonoVotes ==
  ASSUME Mono
  PROVE  \A v \in Votes : (Known(v) => KnownNext(v)) /\ (Led(v) => LedNext(v))
  BY DEF Mono, Known, Led, KnownNext, LedNext

\* An entry does not become choosable again.
LEMMA MonoChoosable ==
  ASSUME TypeInv, Mono, NEW v \in Votes, v.term > 0, NEW i \in Nat, Choosable(v, i)'
  PROVE  Choosable(v, i)
<1>. DEFINE A == {n \in Node : HasAcked(n, v, i)' \/ ~ VoteLt(v, node[n].vote')}
            B == {n \in Node : HasAcked(n, v, i) \/ ~ VoteLt(v, node[n].vote)}
<1>1. HasQuorum(A)
  BY DEF Choosable
<1>2. ASSUME NEW n \in Node, n \in A  PROVE n \in B
  <2>1. node[n].vote \in Votes /\ node[n].vote' \in Votes
    BY DEF Mono, TypeInv, NodeStates
  <2>2. CASE HasAcked(n, v, i)'
    BY <2>2 DEF Mono
  <2>3. CASE ~ VoteLt(v, node[n].vote')
    <3>1. SUFFICES ASSUME VoteLt(v, node[n].vote)  PROVE FALSE
      OBVIOUS
    <3>2. node[n].vote.term > 0
      BY <3>1, <2>1, VoteLtMeans DEF Votes
    <3>3. ~ VoteLt(node[n].vote', node[n].vote)
      BY <2>1, <3>2, VoteOrder DEF Mono
    <3>. QED  BY <3>1, <3>3, <2>1, <2>3, VoteOrder
  <2>. QED  BY <1>2, <2>2, <2>3
<1>3. HasQuorum(B)
  <2>1. \A n \in Node : n \in A => n \in B
    BY <1>2
  <2>. HIDE DEF A, B
  <2>. QED  BY <1>1, <2>1, QuorumGrows
<1>. QED  BY <1>3 DEF Choosable

\* An entry of a leader that is open was open before.
LEMMA MonoOpen ==
  ASSUME TypeInv, SentInv, Mono, NEW p \in sent, NEW q \in sent', q.vote = p.vote,
         Agree(p.log, q.log, Len(p.log)), NEW i \in 1..Len(p.log), Open(q, i)'
  PROVE  Open(p, i)
<1>1. p.vote \in Votes /\ p.vote.term > 0 /\ i \in Nat
  BY DEF TypeInv, SentInv
<1>2. Choosable(p.vote, i)
  BY <1>1, MonoChoosable DEF Open
<1>3. p.log[i] = q.log[i]
  BY DEF Agree
<1>. QED  BY <1>2, <1>3 DEF Open

----------------------------------------------------------------------------
(* What the parts of handlers return.                                       *)

\* Two records of a node that differ in vote, disk, accepted IO, role and noop.
SameLog(s, t) == t.log = s.log /\ t.committed = s.committed /\ t.cluster = s.cluster

AcceptedUnder(s, v) == IF VoteLt(s.vote, v) THEN [vote |-> v, last |-> NoLogId] ELSE s.accepted

\* What node record s is after it took vote v.
IsAdopted(s, t, v) ==
  /\ SameLog(s, t) /\ t.vote = v
  /\ t.disk = (IF VoteLt(s.vote, v) THEN s.log ELSE s.disk)
  /\ t.accepted = AcceptedUnder(s, v)

\* An accepted IO is the greater one, and nothing else changes.
LEMMA AcceptIs ==
  ASSUME NEW s \in NodeStates, NEW io \in IOs
  PROVE  LET t == AcceptLogIO(s, io)
         IN  /\ t \in NodeStates
             /\ t.vote = s.vote /\ t.log = s.log /\ t.disk = s.disk /\ t.committed = s.committed
             /\ t.cluster = s.cluster /\ t.role = s.role /\ t.noop = s.noop
             /\ t.accepted = IF IOLt(s.accepted, io) THEN io ELSE s.accepted
  BY DEF AcceptLogIO, NodeStates

\* The vote a log IO was accepted under is the node's.
Accepts(s) == IF s.vote.term > 0 THEN s.accepted.vote = s.vote ELSE s.accepted = NoIO

\* Constants of the model are what they should be.
LEMMA ConstantTypes ==
  /\ NoVote \in Votes /\ NoVote.term = 0 /\ NoVote.node = 0 /\ ~ NoVote.done
  /\ NoLogId \in LogIds /\ NoIO \in IOs /\ NoIO.vote = NoVote /\ NoIO.last = NoLogId
  /\ NoLogId.at = 0 /\ NoLogId.id = <<0, 0>>
  /\ InitialEntry \in Entries /\ InitialEntry.id = <<0, 0>>
  BY DEF NoVote, NewVote, Votes, NoLogId, LogIds, Ids, NoIO, IOs, InitialEntry, Entries

\* A vote that is not smaller is taken.
LEMMA UpdateVoteIs ==
  ASSUME NEW n \in Node, NEW s \in NodeStates, NEW v \in Votes, v.term > 0,
         ~ VoteLt(v, s.vote), Accepts(s)
  PROVE  LET t == UpdateVote(n, s, v)
         IN  /\ t \in NodeStates /\ IsAdopted(s, t, v)
             /\ v.node # n => t.role = "follower" /\ t.noop = 0
             /\ v.node = n => t.role = s.role /\ t.noop = s.noop
<1>. DEFINE io == [vote |-> v, last |-> NoLogId]
            a == AcceptLogIO(s, io)
            saved == IF VoteLt(s.vote, v) THEN [a EXCEPT !.vote = v, !.disk = s.log] ELSE s
<1>1. io \in IOs /\ io.vote = v /\ s.vote \in Votes /\ s.accepted \in IOs /\ s.accepted.vote \in Votes
  BY ConstantTypes DEF IOs, NodeStates
<1>2. a \in NodeStates /\ a.log = s.log /\ a.committed = s.committed /\ a.cluster = s.cluster
      /\ a.role = s.role /\ a.noop = s.noop
      /\ a.accepted = IF IOLt(s.accepted, io) THEN io ELSE s.accepted
  BY <1>1, AcceptIs
<1>3. VoteLt(s.vote, v) => IOLt(s.accepted, io)
  <2>1. CASE s.vote.term > 0
    BY <2>1, <1>1 DEF IOLt, Accepts
  <2>2. CASE ~ s.vote.term > 0
    <3>1. s.accepted.vote = NoVote
      BY <2>2, ConstantTypes DEF Accepts
    <3>2. VoteLt(NoVote, v)
      BY ConstantTypes, VoteLtMeans
    <3>. QED  BY <3>1, <3>2, <1>1 DEF IOLt
  <2>. QED  BY <2>1, <2>2
<1>. HIDE DEF io, a
<1>4. saved \in NodeStates
  BY <1>2 DEF NodeStates
<1>5. /\ saved.log = s.log /\ saved.committed = s.committed /\ saved.cluster = s.cluster
      /\ saved.role = s.role /\ saved.noop = s.noop
      /\ saved.disk = IF VoteLt(s.vote, v) THEN s.log ELSE s.disk
  BY <1>2 DEF NodeStates
<1>6. saved.vote = v
  <2>1. CASE VoteLt(s.vote, v)
    BY <2>1, <1>2 DEF NodeStates
  <2>2. CASE ~ VoteLt(s.vote, v)
    BY <2>2, <1>1, VoteOrder
  <2>. QED  BY <2>1, <2>2
<1>7. saved.accepted = AcceptedUnder(s, v)
  BY <1>2, <1>3 DEF NodeStates, AcceptedUnder, io
<1>8. UpdateVote(n, s, v) = IF v.node = n THEN saved ELSE BecomeFollowing(saved)
  BY DEF UpdateVote, saved, a, io
<1>. HIDE DEF saved
<1>9. /\ BecomeFollowing(saved) \in NodeStates
      /\ IsAdopted(s, saved, v) /\ IsAdopted(s, BecomeFollowing(saved), v)
      /\ BecomeFollowing(saved).role = "follower" /\ BecomeFollowing(saved).noop = 0
  BY <1>4, <1>5, <1>6, <1>7 DEF BecomeFollowing, NodeStates, IsAdopted, SameLog
<1>. QED  BY <1>4, <1>5, <1>8, <1>9

\* A leader's own log grows.
LEMMA LeaderAppendIs ==
  ASSUME NEW s \in NodeStates, NEW e \in Entries, s.accepted.vote = s.vote,
         LogLt(s.accepted.last, [id |-> e.id, at |-> Len(s.log) + 1])
  PROVE  LET t == LeaderAppend(s, e)
         IN  /\ t \in NodeStates
             /\ t.vote = s.vote /\ t.log = Append(s.log, e) /\ t.disk = s.disk
             /\ t.committed = s.committed /\ t.cluster = s.cluster /\ t.role = s.role /\ t.noop = s.noop
             /\ t.accepted = [vote |-> s.vote, last |-> LastId(Append(s.log, e))]
<1>. DEFINE l == Append(s.log, e)
            t1 == [s EXCEPT !.log = l]
            io == [vote |-> s.vote, last |-> LastId(l)]
<1>1. l \in Seq(Entries) /\ Len(l) = Len(s.log) + 1 /\ l[Len(l)] = e /\ Len(s.log) \in Nat
  BY DEF NodeStates
<1>2. LastId(l) = [id |-> e.id, at |-> Len(s.log) + 1]
  BY <1>1 DEF LastId, EntryId
<1>3. io \in IOs
  BY <1>1, <1>2 DEF IOs, NodeStates, LogIds, Entries
<1>. HIDE DEF l
<1>4. t1 \in NodeStates /\ t1.log = l /\ t1.vote = s.vote /\ t1.disk = s.disk /\ t1.accepted = s.accepted
      /\ t1.committed = s.committed /\ t1.cluster = s.cluster /\ t1.role = s.role /\ t1.noop = s.noop
  BY <1>1 DEF NodeStates
<1>5. IOLt(t1.accepted, io)
  BY <1>2, <1>4 DEF IOLt
<1>6. LeaderAppend(s, e) = AcceptLogIO(t1, io)
  BY DEF LeaderAppend, l, t1, io
<1>. HIDE DEF t1
<1>. QED  BY <1>3, <1>4, <1>5, <1>6, AcceptIs DEF l, io

\* A candidate that wins: the vote is committed, a blank entry follows its log.
LEMMA EstablishIs ==
  ASSUME NEW s \in NodeStates, Bounded(s.log, s.vote)
  PROVE  LET t == Establish(s)
             v == [s.vote EXCEPT !.done = TRUE]
         IN  /\ t \in NodeStates /\ v \in Votes /\ Blank(v) \in Entries
             /\ t.vote = v /\ t.log = Append(s.log, Blank(v)) /\ t.disk = s.log
             /\ t.committed = s.committed /\ t.cluster = s.cluster /\ t.role = "leader"
             /\ t.noop = Len(s.log) + 1
             /\ t.accepted = [vote |-> v, last |-> LastId(Append(s.log, Blank(v)))]
<1>. DEFINE v == [s.vote EXCEPT !.done = TRUE]
            a == [vote |-> v, last |-> LastId(s.log)]
            x == Len(s.log) + 1
            led == [s EXCEPT !.vote = v, !.disk = s.log, !.role = "leader", !.accepted = a, !.noop = x]
            e == Blank(v)
<1>1. s.vote \in Votes /\ v \in Votes /\ LeaderId(v) = LeaderId(s.vote)
  BY DEF NodeStates, Votes, LeaderId
<1>. HIDE DEF v
<1>2. e \in Entries /\ e.id = LeaderId(v)
  BY <1>1, LeaderIds DEF Blank, Entries
<1>3. s.log \in Seq(Entries) /\ Len(s.log) \in Nat
  BY DEF NodeStates
<1>4. LastId(s.log) \in LogIds /\ LogLt(LastId(s.log), [id |-> LeaderId(v), at |-> Len(s.log) + 1])
  <2>1. CASE Len(s.log) = 0
    <3>1. LastId(s.log) = NoLogId
      BY <2>1 DEF LastId, EntryId
    <3>2. IdLt(<<0, 0>>, LeaderId(v)) \/ <<0, 0>> = LeaderId(v)
      BY <1>1, LeaderIds DEF Ids, IdLt
    <3>. QED  BY <2>1, <3>1, <3>2, ConstantTypes DEF LogLt
  <2>2. CASE Len(s.log) # 0
    <3>1. s.log[Len(s.log)] \in Entries /\ LastId(s.log) = [id |-> s.log[Len(s.log)].id, at |-> Len(s.log)]
          /\ ~ IdLt(LeaderId(v), s.log[Len(s.log)].id)
      BY <1>1, <1>3, <2>2 DEF LastId, EntryId, Bounded
    <3>2. s.log[Len(s.log)].id \in Ids
      BY <3>1 DEF Entries
    <3>3. IdLt(s.log[Len(s.log)].id, LeaderId(v)) \/ s.log[Len(s.log)].id = LeaderId(v)
      BY <1>1, <3>1, <3>2, LeaderIds, IdOrder
    <3>. QED  BY <1>3, <3>1, <3>2, <3>3 DEF LogLt, LogIds
  <2>. QED  BY <2>1, <2>2
<1>5. led \in NodeStates /\ led.vote = v /\ led.log = s.log /\ led.disk = s.log
      /\ led.committed = s.committed /\ led.cluster = s.cluster /\ led.role = "leader"
      /\ led.noop = Len(s.log) + 1 /\ led.accepted = [vote |-> v, last |-> LastId(s.log)]
  <2>1. a \in IOs /\ x \in Nat
    BY <1>1, <1>3, <1>4 DEF IOs
  <2>. HIDE DEF a, x
  <2>2. led \in NodeStates /\ led.vote = v /\ led.log = s.log /\ led.disk = s.log
        /\ led.committed = s.committed /\ led.cluster = s.cluster /\ led.role = "leader"
        /\ led.noop = x /\ led.accepted = a
    BY <1>1, <2>1 DEF NodeStates
  <2>. HIDE DEF led
  <2>. QED  BY <2>2 DEF a, x
<1>6. Establish(s) = LeaderAppend(led, e)
  BY DEF Establish, led, e, v, a, x
<1>. HIDE DEF led, e
<1>7. led.accepted.vote = led.vote /\ LogLt(led.accepted.last, [id |-> e.id, at |-> Len(led.log) + 1])
  BY <1>2, <1>4, <1>5
<1>8. LET t == LeaderAppend(led, e)
      IN  /\ t \in NodeStates
          /\ t.vote = led.vote /\ t.log = Append(led.log, e) /\ t.disk = led.disk
          /\ t.committed = led.committed /\ t.cluster = led.cluster /\ t.role = led.role /\ t.noop = led.noop
          /\ t.accepted = [vote |-> led.vote, last |-> LastId(Append(led.log, e))]
  BY <1>2, <1>5, <1>7, LeaderAppendIs
<1>9. v = [s.vote EXCEPT !.done = TRUE] /\ e = Blank(v)
  BY DEF v, e
<1>. QED  BY <1>1, <1>2, <1>5, <1>6, <1>8, <1>9

\* Min is the least element.
LEMMA MinIs ==
  ASSUME NEW S \in SUBSET Nat, NEW x \in S
  PROVE  Min(S) \in S /\ \A y \in S : Min(S) <= y
<1>1. \E z \in S : \A y \in S : z <= y
  <2>1. S # {}
    OBVIOUS
  <2>2. PICK z \in S : \A y \in S : <<y, z>> \notin OpToRel(<, Nat)
    BY <2>1, NatLessThanWellFounded, WFMin, Zenon
  <2>3. ASSUME NEW y \in S  PROVE z <= y
    <3>1. y \in Nat /\ z \in Nat
      OBVIOUS
    <3>2. ~ (y < z)
      BY <2>2, <3>1, Zenon DEF OpToRel
    <3>. QED  BY <3>1, <3>2
  <2>. QED  BY <2>3
<1>. QED  BY <1>1 DEF Min

\* Where a node has what a request holds, what a request does to it.
Matches(s, l) ==
  \A i \in 1..Len(l) : HasLogId(s, EntryId(l, i)) => Agree(s.log, l, i)

\* t is s after a part of log l arrived from the leader with vote v.
IsReplicated(s, t, l, v) ==
  /\ t.vote = s.vote /\ t.disk = s.disk /\ t.committed = s.committed /\ t.cluster = s.cluster
  /\ t.role = s.role /\ t.noop = s.noop
  /\ \A i \in 1..Len(t.log) : Agree(t.log, s.log, i) \/ Agree(t.log, l, i)
  /\ \A i \in 1..Len(l) : Agree(s.log, l, i) => Agree(t.log, l, i)
  /\ \/ t.accepted = s.accepted
     \/ \E j \in 1..Len(l) : /\ t.accepted = [vote |-> v, last |-> EntryId(l, j)]
                             /\ Agree(t.log, l, j)

\* An entry that is there is found.
LEMMA HasLogIdIf ==
  ASSUME NEW s, NEW l \in Seq(Entries), NEW i \in 1..Len(l), Agree(s.log, l, i)
  PROVE  HasLogId(s, EntryId(l, i))
  BY DEF HasLogId, EntryId, Agree

\* A log is cut before the entry that conflicts.
LEMMA TruncateIs ==
  ASSUME NEW s \in NodeStates, NEW l \in Seq(Entries), NEW v, NEW k \in 1..Len(l),
         ~ HasLogId(s, EntryId(l, k))
  PROVE  LET t == TruncateLogs(s, k)
         IN  t \in NodeStates /\ IsReplicated(s, t, l, v)
<1>. DEFINE t == TruncateLogs(s, k)
            c == SubSeq(s.log, 1, k - 1)
<1>1. s.log \in Seq(Entries) /\ Len(s.log) \in Nat /\ Len(l) \in Nat
  BY DEF NodeStates
<1>2. ~ Agree(s.log, l, k)
  BY HasLogIdIf
<1>3. CASE k <= Len(s.log)
  <2>1. k - 1 \in 0..Len(s.log)
    BY <1>1, <1>3
  <2>2. c \in Seq(Entries) /\ Len(c) = k - 1 /\ Agree(c, s.log, k - 1)
    BY <1>1, <2>1, AgreeParts, ConstantTypes
  <2>. HIDE DEF c
  <2>3. t \in NodeStates /\ t.log = c /\ t.vote = s.vote /\ t.disk = s.disk /\ t.committed = s.committed
        /\ t.cluster = s.cluster /\ t.role = s.role /\ t.noop = s.noop /\ t.accepted = s.accepted
    BY <1>3, <2>2 DEF TruncateLogs, NodeStates, c
  <2>4. \A i \in 1..Len(c) : Agree(c, s.log, i)
    BY <1>1, <2>1, <2>2, AgreeFacts
  <2>5. ASSUME NEW i \in 1..Len(l), Agree(s.log, l, i)  PROVE Agree(c, l, i)
    <3>1. i <= k - 1
      <4>1. SUFFICES ASSUME k <= i  PROVE FALSE
        BY <1>1
      <4>. QED  BY <4>1, <1>1, <1>2, <2>5, AgreeFacts
    <3>2. Agree(c, s.log, i)
      BY <1>1, <2>1, <2>2, <3>1, AgreeFacts
    <3>. QED  BY <1>1, <2>2, <2>5, <3>2, AgreeFacts
  <2>. QED  BY <2>3, <2>4, <2>5 DEF IsReplicated
<1>4. CASE ~ k <= Len(s.log)
  <2>1. t = s
    BY <1>4 DEF TruncateLogs
  <2>2. \A i \in 1..Len(s.log) : Agree(s.log, s.log, i)
    BY <1>1 DEF Agree
  <2>. QED  BY <2>1, <2>2 DEF IsReplicated
<1>. QED  BY <1>3, <1>4

\* A follower's log gets the request's entries where they differ from its own.
LEMMA FollowAppendIs ==
  ASSUME NEW s \in NodeStates, NEW r, r.vote \in Votes, r.log \in Seq(Entries), r.prev = 0,
         r.last \in 1..Len(r.log), Matches(s, r.log)
  PROVE  LET t == FollowAppend(s, r)
         IN  t \in NodeStates /\ IsReplicated(s, t, r.log, r.vote)
<1>. DEFINE l == r.log
            z == r.last
            io == [vote |-> r.vote, last |-> EntryId(r.log, r.last)]
            s1 == AcceptLogIO(s, io)
            S == {i \in r.prev + 1 .. r.last : ~ HasLogId(s1, EntryId(r.log, i))} \cup {r.last + 1}
            j == FirstConflicting(s1, r)
            t == FollowAppend(s, r)
<1>1. s.log \in Seq(Entries) /\ Len(s.log) \in Nat /\ Len(l) \in Nat /\ z \in Nat /\ z > 0 /\ z <= Len(l)
  BY DEF NodeStates
<1>2. io \in IOs
  <2>1. l[z] \in Entries /\ EntryId(l, z) = [id |-> l[z].id, at |-> z]
    BY <1>1 DEF EntryId
  <2>. QED  BY <1>1, <2>1 DEF IOs, LogIds, Entries
<1>3. /\ s1 \in NodeStates
      /\ s1.vote = s.vote /\ s1.log = s.log /\ s1.disk = s.disk /\ s1.committed = s.committed
      /\ s1.cluster = s.cluster /\ s1.role = s.role /\ s1.noop = s.noop
      /\ s1.accepted = IF IOLt(s.accepted, io) THEN io ELSE s.accepted
  BY <1>2, AcceptIs
<1>. HIDE DEF s1
<1>4. \A e : HasLogId(s1, e) <=> HasLogId(s, e)
  BY <1>3 DEF HasLogId
<1>5. j \in S /\ \A y \in S : j <= y
  <2>1. S \in SUBSET Nat /\ z + 1 \in S
    BY <1>1
  <2>2. Min(S) \in S /\ \A y \in S : Min(S) <= y
    <3>. HIDE DEF S
    <3>. QED  BY <2>1, MinIs
  <2>. QED  BY <2>2 DEF FirstConflicting
<1>6. j \in 1..(z + 1) /\ (j <= z => ~ HasLogId(s, EntryId(l, j)))
      /\ \A i \in 1..z : i < j => HasLogId(s, EntryId(l, i))
  <2>1. j \in 1..(z + 1) /\ (j <= z => ~ HasLogId(s1, EntryId(l, j)))
    BY <1>1, <1>5
  <2>2. ASSUME NEW i \in 1..z, i < j  PROVE HasLogId(s1, EntryId(l, i))
    <3>1. ~ i \in S
      BY <1>1, <1>5, <2>1, <2>2
    <3>. QED  BY <1>1, <3>1
  <2>. QED  BY <1>4, <2>1, <2>2
<1>7. t = IF j <= z THEN [s1 EXCEPT !.log = SubSeq(@, 1, j - 1) \o SubSeq(l, j, z)] ELSE s1
  BY DEF FollowAppend, s1
<1>. SUFFICES t \in NodeStates /\ IsReplicated(s, t, l, r.vote)
  OBVIOUS
<1>. HIDE DEF j, S, t
<1>8. \A i \in 1..z : i < j => Agree(s.log, l, i)
  BY <1>1, <1>6 DEF Matches
<1>9. CASE j <= z
  <2>. DEFINE c == SubSeq(s.log, 1, j - 1) \o SubSeq(l, j, z)
  <2>1. j \in 1..z /\ z \in 1..Len(l)
    BY <1>1, <1>6, <1>9
  <2>2. Agree(s.log, l, j - 1)
    <3>1. CASE j = 1
      BY <3>1, <1>1 DEF Agree
    <3>2. CASE j # 1
      <4>1. j - 1 \in 1..z /\ j - 1 < j
        BY <1>1, <2>1, <3>2
      <4>. QED  BY <4>1, <1>8
    <3>. QED  BY <3>1, <3>2
  <2>3. c \in Seq(Entries) /\ Len(c) = z /\ Agree(c, l, z) /\ Agree(c, s.log, j - 1)
    BY <1>1, <2>1, <2>2, AgreeSplice
  <2>. HIDE DEF c
  <2>4. t = [s1 EXCEPT !.log = c]
    BY <1>3, <1>7, <1>9 DEF c
  <2>5. t \in NodeStates /\ t.log = c /\ t.vote = s.vote /\ t.disk = s.disk /\ t.committed = s.committed
        /\ t.cluster = s.cluster /\ t.role = s.role /\ t.noop = s.noop /\ t.accepted = s1.accepted
    BY <1>3, <2>3, <2>4 DEF NodeStates
  <2>6. \A i \in 1..Len(c) : Agree(c, l, i)
    BY SMTT(30), <1>1, <2>3, AgreeFacts
  <2>7. ASSUME NEW i \in 1..Len(l), Agree(s.log, l, i)  PROVE Agree(c, l, i)
    <3>1. ~ Agree(s.log, l, j)
      BY <1>1, <1>6, <1>9, <2>1, HasLogIdIf
    <3>2. i < j
      <4>1. SUFFICES ASSUME j <= i  PROVE FALSE
        BY <1>1, <2>1
      <4>. QED  BY <4>1, <1>1, <2>1, <2>7, <3>1, AgreeFacts
    <3>. QED  BY <1>1, <2>1, <2>3, <2>6, <3>2
  <2>8. t.accepted = s.accepted \/ t.accepted = io
    BY <1>3, <2>5
  <2>9. z \in 1..Len(l) /\ Agree(t.log, l, z)
    BY <2>1, <2>3, <2>5
  <2>10. \/ t.accepted = s.accepted
         \/ \E x \in 1..Len(l) : t.accepted = [vote |-> r.vote, last |-> EntryId(l, x)] /\ Agree(t.log, l, x)
    BY <2>8, <2>9
  <2>11. \A i \in 1..Len(t.log) : Agree(t.log, s.log, i) \/ Agree(t.log, l, i)
    BY <2>5, <2>6
  <2>12. \A i \in 1..Len(l) : Agree(s.log, l, i) => Agree(t.log, l, i)
    BY <2>5, <2>7
  <2>. QED  BY <2>5, <2>10, <2>11, <2>12 DEF IsReplicated
<1>10. CASE ~ j <= z
  <2>1. t = s1
    BY <1>7, <1>10
  <2>2. \A i \in 1..Len(s.log) : Agree(s.log, s.log, i)
    BY <1>1 DEF Agree
  <2>3. Agree(s.log, l, z)
    <3>1. z \in 1..z /\ z < j
      BY <1>1, <1>6, <1>10
    <3>. QED  BY <3>1, <1>8
  <2>4. t.accepted = s.accepted \/ t.accepted = io
    BY <1>3, <2>1
  <2>5. z \in 1..Len(l)
    BY <1>1
  <2>6. \/ t.accepted = s.accepted
        \/ \E x \in 1..Len(l) : t.accepted = [vote |-> r.vote, last |-> EntryId(l, x)] /\ Agree(t.log, l, x)
    BY <1>3, <2>1, <2>3, <2>4, <2>5
  <2>. QED  BY <1>3, <2>1, <2>2, <2>6 DEF IsReplicated
<1>. QED  BY <1>9, <1>10

\* A commit index only changes what is known of the leader's log and the node's own.
LEMMA UpdateCommittedIs ==
  ASSUME NEW s \in NodeStates, NEW io \in IOs
  PROVE  LET t == UpdateCommitted(s, io)
             local == LocalCommitted(s, t.cluster)
         IN  /\ t \in NodeStates
             /\ t.vote = s.vote /\ t.log = s.log /\ t.disk = s.disk /\ t.accepted = s.accepted
             /\ t.role = s.role /\ t.noop = s.noop
             /\ t.cluster = IF IOLt(s.cluster, io) THEN io ELSE s.cluster
             /\ t.committed = IF LogLt(EntryId(s.log, s.committed), local) THEN local.at ELSE s.committed
<1>. DEFINE cluster == IF IOLt(s.cluster, io) THEN io ELSE s.cluster
            local == LocalCommitted(s, cluster)
            c == IF LogLt(EntryId(s.log, s.committed), local) THEN local.at ELSE s.committed
            t == UpdateCommitted(s, io)
<1>1. cluster \in IOs
  BY DEF NodeStates
<1>2. local \in LogIds
  BY <1>1, ConstantTypes DEF LocalCommitted, MinLogId, NodeStates, IOs
<1>3. c \in Nat
  BY <1>2 DEF LogIds, NodeStates
<1>4. t = [s EXCEPT !.cluster = cluster, !.committed = c]
  BY DEF UpdateCommitted, NodeStates
<1>. HIDE DEF cluster, c, t
<1>5. t \in NodeStates
      /\ t.vote = s.vote /\ t.log = s.log /\ t.disk = s.disk /\ t.accepted = s.accepted
      /\ t.role = s.role /\ t.noop = s.noop /\ t.cluster = cluster /\ t.committed = c
  BY <1>1, <1>3, <1>4 DEF NodeStates
<1>. QED  BY <1>5 DEF t, c, cluster

----------------------------------------------------------------------------
(* The steps, in terms of what they do to the fields of one node.           *)

Others(n) == /\ n \in Node /\ node' \in [Node -> NodeStates]
             /\ \A m \in Node : m # n => node'[m] = node[m]

\* What a leader has to send after a step is what it had, made longer.
Published(s) ==
  \E w \in sent' :
    /\ w \in [vote : Votes, log : Seq(Entries), commit : Nat]
    /\ w.vote = s.vote /\ w.log = s.log
    /\ w.commit = s.committed \/ \E p \in sent : p.vote = s.vote /\ w.commit = p.commit
    /\ sent' = {p \in sent : p.vote # s.vote} \cup {w}

\* Node n takes vote v of another node, and may grant it.
AdoptStep(n, v) ==
  /\ Others(n)
  /\ v \in Votes /\ v.term > 0 /\ v.node # n /\ ~ VoteLt(v, node[n].vote) /\ Known(v) /\ Led(v)
  /\ IsAdopted(node[n], node'[n], v)
  /\ node'[n].role = "follower"
  /\ \/ granted' = granted
     \/ \E q \in asked : /\ q.vote = v /\ ~ LogLt(q.last, LastId(node[n].log))
                         /\ granted' = granted \cup {[vote |-> v, from |-> n]}
  /\ UNCHANGED <<asked, sent, acked, chosen>>

ElectStep(n, v) ==
  /\ Others(n)
  /\ v = NewVote(node[n].vote.term + 1, n)
  /\ IsAdopted(node[n], node'[n], v)
  /\ node'[n].role = "candidate"
  /\ asked' = asked \cup {[vote |-> v, last |-> LastId(node[n].log)]}
  /\ granted' = granted \cup {[vote |-> v, from |-> n]}
  /\ UNCHANGED <<sent, acked, chosen>>

\* Node n, a leader now, has entry e after what it had.
GrowStep(n, e) ==
  /\ Others(n)
  /\ e \in Entries /\ e.id = LeaderId(node'[n].vote)
  /\ node'[n].log = Append(node[n].log, e)
  /\ node'[n].committed = node[n].committed /\ node'[n].cluster = node[n].cluster
  /\ node'[n].role = "leader"
  /\ node'[n].accepted = [vote |-> node'[n].vote, last |-> LastId(node'[n].log)]
  /\ Published(node'[n])
  /\ UNCHANGED <<asked, granted, acked, chosen>>

WinStep(n, e) ==
  /\ GrowStep(n, e)
  /\ node[n].role = "candidate" /\ HasQuorum(Granters(node[n].vote))
  /\ node'[n].vote = [node[n].vote EXCEPT !.done = TRUE]
  /\ node'[n].disk = node[n].log /\ node'[n].noop = Len(node[n].log) + 1

WriteStep(n, e) ==
  /\ GrowStep(n, e)
  /\ node[n].role = "leader"
  /\ node'[n].vote = node[n].vote /\ node'[n].disk = node[n].disk /\ node'[n].noop = node[n].noop

\* A request of the leader with record p reaches node n.
FollowStep(n, p) ==
  /\ Others(n)
  /\ p \in sent /\ p.vote.node # n
  /\ UNCHANGED <<asked, granted, sent, acked, chosen>>
  /\ \E s \in NodeStates :
       /\ \/ VoteLt(p.vote, node[n].vote) /\ s = node[n]
          \/ /\ ~ VoteLt(p.vote, node[n].vote)
             /\ \E u \in NodeStates : /\ IsAdopted(node[n], u, p.vote) /\ u.role = "follower"
                                      /\ IsReplicated(u, s, p.log, p.vote)
       /\ node'[n] = UpdateCommitted(s, [vote |-> p.vote, last |-> EntryId(p.log, p.commit)])

FlushStep(n) ==
  /\ Others(n)
  /\ node'[n] = [node[n] EXCEPT !.disk = node[n].log]
  /\ acked' = Acknowledge(n, node[n].accepted)
  /\ UNCHANGED <<asked, granted, sent, chosen>>

CommitStep(n, i) ==
  /\ Others(n)
  /\ node[n].role = "leader" /\ i \in node[n].committed + 1 .. Len(node[n].log) /\ MayCommit(node[n], i)
  /\ node'[n] = TryCommit(node[n], i)
  /\ Published(node'[n]) /\ Choose(node'[n])
  /\ UNCHANGED <<asked, granted, acked>>

\* A node that is not the leader of its vote restarts with log l.
RestartStep(n, l) ==
  /\ Others(n)
  /\ ~ (node[n].vote.term > 0 /\ IsLeader(n, node[n].vote))
  /\ l = node[n].log \/ l = node[n].disk
  /\ node'[n] = Restarted(node[n], l)
  /\ UNCHANGED <<asked, granted, sent, acked, chosen>>

\* A leader restarts.
ResumeStep(n) ==
  /\ Others(n)
  /\ node[n].role = "leader"
  /\ node'[n].vote = node[n].vote /\ node'[n].log = node[n].log /\ node'[n].disk = node[n].log
  /\ node'[n].committed = 0 /\ node'[n].cluster = NoIO /\ node'[n].role = "leader"
  /\ node'[n].accepted = [vote |-> node[n].vote, last |-> LastId(node[n].log)]
  /\ node'[n].noop \in OwnEntries(node[n])
  /\ Published(node'[n])
  /\ UNCHANGED <<asked, granted, acked, chosen>>

InitializeStep(n) ==
  /\ Others(n)
  /\ node[n].vote.term = 0 /\ node[n].log = <<>>
  /\ node'[n] = [node[n] EXCEPT !.vote = [NewVote(0, n) EXCEPT !.done = TRUE], !.log = <<InitialEntry>>]
  /\ UNCHANGED <<asked, granted, sent, acked, chosen>>

Still == UNCHANGED <<node, asked, granted, sent, acked, chosen>>

Step ==
  \/ Still
  \/ \E n \in Node :
       \/ InitializeStep(n) \/ FlushStep(n) \/ ResumeStep(n)
       \/ \E v \in Votes : AdoptStep(n, v) \/ ElectStep(n, v)
       \/ \E e \in Entries : WinStep(n, e) \/ WriteStep(n, e)
       \/ \E p \in sent : FollowStep(n, p)
       \/ \E i \in Nat : CommitStep(n, i)
       \/ \E l \in Seq(Entries) : RestartStep(n, l)

\* What a leader had to send is replaced by what continues it.
LEMMA PublishIs ==
  ASSUME TypeInv, SentInv, NEW s \in NodeStates, Publish(s),
         \A p \in sent : p.vote = s.vote => Agree(p.log, s.log, Len(p.log))
  PROVE  Published(s)
<1>. DEFINE old == {p \in sent : p.vote = s.vote /\ IsPrefix(p.log, s.log)}
            C == {s.committed} \cup {p.commit : p \in old}
            w == [vote |-> s.vote, log |-> s.log, commit |-> Max(C)]
<1>1. sent' = (sent \ old) \cup {w}
  BY DEF Publish
<1>2. \A p \in sent : p \in old <=> p.vote = s.vote
  <2>1. s.log \in Seq(Entries)
    BY DEF NodeStates
  <2>. QED  BY <2>1, PrefixAgree DEF TypeInv
<1>3. Max(C) \in C
  <2>1. s.committed \in Nat
    BY DEF NodeStates
  <2>2. CASE old = {}
    <3>1. C = {s.committed}
      BY <2>2
    <3>. HIDE DEF C
    <3>. QED  BY <2>1, <3>1 DEF Max
  <2>3. CASE old # {}
    <3>1. PICK p \in old : TRUE
      BY <2>3
    <3>2. p \in sent /\ p.commit \in Nat
      BY <3>1 DEF TypeInv
    <3>3. \A q \in old : q = p
      BY <3>1, <1>2 DEF SentInv
    <3>4. C = {s.committed, p.commit}
      BY <3>1, <3>3
    <3>. HIDE DEF C, old
    <3>. QED  BY <2>1, <3>2, <3>4 DEF Max
  <2>. QED  BY <2>2, <2>3
<1>4. Max(C) = s.committed \/ \E p \in sent : p.vote = s.vote /\ Max(C) = p.commit
  BY <1>2, <1>3
<1>5. Max(C) \in Nat
  BY <1>4 DEF TypeInv, NodeStates
<1>. HIDE DEF C
<1>6. w \in [vote : Votes, log : Seq(Entries), commit : Nat] /\ w.vote = s.vote /\ w.log = s.log
      /\ w.commit = Max(C)
  BY <1>5 DEF NodeStates
<1>7. sent' = {p \in sent : p.vote # s.vote} \cup {w}
  BY <1>1, <1>2
<1>. HIDE DEF w, old
<1>8. w \in sent'
  BY <1>7
<1>. QED  BY <1>4, <1>6, <1>7, <1>8 DEF Published

\* Setting one node's record.
LEMMA SetIs ==
  ASSUME TypeInv, NEW n \in Node, NEW s \in NodeStates, Set(n, s)
  PROVE  Others(n) /\ node'[n] = s
  BY DEF TypeInv, Set, Others

\* A node's record, and what NodeInv says of it.
LEMMA NodeFacts ==
  ASSUME TypeInv, NodeInv, NEW n \in Node
  PROVE  /\ node[n] \in NodeStates /\ Accepts(node[n])
         /\ node[n].vote \in Votes /\ node[n].log \in Seq(Entries) /\ node[n].disk \in Seq(Entries)
         /\ Len(node[n].log) \in Nat /\ Len(node[n].disk) \in Nat /\ node[n].committed \in Nat
         /\ node[n].accepted \in IOs /\ node[n].accepted.vote \in Votes /\ node[n].accepted.last \in LogIds
         /\ node[n].cluster \in IOs /\ node[n].cluster.vote \in Votes /\ node[n].cluster.last \in LogIds
         /\ node[n].accepted.last.at \in Nat /\ node[n].cluster.last.at \in Nat
  BY DEF TypeInv, NodeInv, NodeOK, NodeStates, Accepts, IOs, LogIds

\* Each action of the specification is one of the steps.
LEMMA InitializeIs ==
  ASSUME TypeInv, NodeInv, NEW n \in Node, Initialize(n)
  PROVE  InitializeStep(n)
<1>. DEFINE v == [NewVote(0, n) EXCEPT !.done = TRUE]
            t == [node[n] EXCEPT !.vote = v, !.log = <<InitialEntry>>]
<1>0. n \in Nat
  BY ClusterAssumption
<1>1. v \in Votes /\ <<InitialEntry>> \in Seq(Entries)
  <2>1. v \in Votes
    BY <1>0 DEF NewVote, Votes
  <2>2. <<InitialEntry>> \in Seq(Entries)
    BY ConstantTypes
  <2>. QED  BY <2>1, <2>2
<1>. HIDE DEF v
<1>2. t \in NodeStates
  BY <1>1, NodeFacts DEF NodeStates
<1>3. node[n].log = <<>> /\ node[n].vote.term = 0
  BY NodeFacts DEF Initialize, IsInitialized, Votes
<1>4. Set(n, t)
  BY DEF Initialize, v
<1>5. Others(n) /\ node'[n] = t
  BY <1>2, <1>4, SetIs
<1>. QED  BY <1>3, <1>5 DEF InitializeStep, Initialize, v

\* A candidate's vote is its own, of the next term.
LEMMA ElectIs ==
  ASSUME TypeInv, NodeInv, NEW n \in Node, Elect(n)
  PROVE  \E v \in Votes : ElectStep(n, v)
<1>. DEFINE v == NewVote(node[n].vote.term + 1, n)
            u == UpdateVote(n, node[n], v)
            t == [u EXCEPT !.role = "candidate"]
<1>1. node[n] \in NodeStates /\ Accepts(node[n]) /\ node[n].vote \in Votes
  BY NodeFacts
<1>2. v \in Votes /\ v.term > 0 /\ v.node = n /\ v.term = node[n].vote.term + 1
  BY <1>1, ClusterAssumption DEF NewVote, Votes
<1>3. ~ VoteLt(v, node[n].vote)
  BY <1>1, <1>2, VoteLtMeans DEF Votes
<1>. HIDE DEF v
<1>4. u \in NodeStates /\ IsAdopted(node[n], u, v)
  BY <1>1, <1>2, <1>3, UpdateVoteIs
<1>5. Set(n, t) /\ asked' = asked \cup {[vote |-> v, last |-> LastId(node[n].log)]}
      /\ granted' = granted \cup {[vote |-> v, from |-> n]} /\ UNCHANGED <<sent, acked, chosen>>
  BY DEF Elect, v, AskForVotes
<1>. HIDE DEF u
<1>6. t \in NodeStates /\ IsAdopted(node[n], t, v) /\ t.role = "candidate"
  BY <1>4 DEF NodeStates, IsAdopted, SameLog
<1>7. Others(n) /\ node'[n] = t
  BY <1>5, <1>6, SetIs
<1>. HIDE DEF t
<1>8. ElectStep(n, v)
  BY <1>5, <1>6, <1>7 DEF ElectStep, v
<1>. QED  BY <1>2, <1>8

\* The steps that take another node's vote.
LEMMA AdoptIs ==
  ASSUME TypeInv, NodeInv, NEW n \in Node, NEW v \in Votes, v.term > 0, v.node # n,
         ~ VoteLt(v, node[n].vote), Set(n, UpdateVote(n, node[n], v))
  PROVE  /\ Others(n) /\ IsAdopted(node[n], node'[n], v) /\ node'[n].role = "follower"
<1>1. UpdateVote(n, node[n], v) \in NodeStates /\ IsAdopted(node[n], UpdateVote(n, node[n], v), v)
      /\ UpdateVote(n, node[n], v).role = "follower"
  BY NodeFacts, UpdateVoteIs
<1>. QED  BY <1>1, SetIs

\* A vote is granted to a log that is not behind.
LEMMA HandleVoteRequestIs ==
  ASSUME TypeInv, NodeInv, AskedInv, NEW n \in Node, HandleVoteRequest(n)
  PROVE  \E v \in Votes : AdoptStep(n, v)
<1>1. PICK q \in asked :
        /\ q.vote.node # n
        /\ ~ LogLt(q.last, LastId(node[n].log))
        /\ ~ VoteLt(q.vote, node[n].vote)
        /\ Set(n, UpdateVote(n, node[n], q.vote))
        /\ granted' = granted \cup {[vote |-> q.vote, from |-> n]}
        /\ UNCHANGED <<left, asked, sent, acked, read, chosen>>
  BY DEF HandleVoteRequest
<1>2. q.vote \in Votes /\ q.vote.term > 0 /\ Known(q.vote) /\ Led(q.vote)
  BY DEF TypeInv, AskedInv, Led
<1>3. Others(n) /\ IsAdopted(node[n], node'[n], q.vote) /\ node'[n].role = "follower"
  BY <1>1, <1>2, AdoptIs
<1>4. AdoptStep(n, q.vote)
  BY <1>1, <1>2, <1>3 DEF AdoptStep
<1>. QED  BY <1>2, <1>4

\* A refused candidate takes a vote that another node has.
LEMMA HandleVoteRefusedIs ==
  ASSUME TypeInv, NodeInv, NEW n \in Node, HandleVoteRefused(n)
  PROVE  \E v \in Votes : AdoptStep(n, v)
<1>1. PICK h \in SeenVotes :
        /\ node[n].role = "candidate" /\ VoteLt(node[n].vote, Undone(h))
        /\ Set(n, UpdateVote(n, node[n], Undone(h)))
        /\ UNCHANGED <<left, asked, granted, sent, acked, read, chosen>>
  BY DEF HandleVoteRefused, Undone
<1>2. PICK m \in Node : h = node[m].vote
  BY <1>1 DEF SeenVotes
<1>. DEFINE v == Undone(h)
<1>3. h \in Votes /\ Known(h)
  BY <1>2, NodeFacts DEF NodeInv, NodeOK
<1>4. v \in Votes /\ v.term = h.term /\ v.node = h.node /\ ~ v.done
  BY <1>3 DEF Undone, Votes
<1>. HIDE DEF v
<1>5. node[n].vote \in Votes /\ node[n].vote.term > 0 /\ VoteLt(node[n].vote, v)
  BY <1>1, NodeFacts DEF NodeInv, NodeOK, v
<1>6. v.term > 0
  BY <1>4, <1>5, VoteLtMeans DEF Votes
<1>7. Known(v)
  <2>1. h.node \in Node /\ ~ VoteLt(node[h.node].vote, h)
    BY <1>3, <1>4, <1>6 DEF Known
  <2>2. node[h.node].vote \in Votes
    BY <2>1, NodeFacts
  <2>3. ~ VoteLt(node[h.node].vote, v)
    BY <1>3, <1>4, <2>1, <2>2, VoteLtMeans DEF Votes
  <2>. QED  BY <1>4, <2>1, <2>3 DEF Known
<1>8. v.node # n /\ ~ VoteLt(v, node[n].vote) /\ Led(v)
  BY <1>4, <1>5, <1>6, <1>7, NodeFacts, VoteOrder DEF Known, Led
<1>9. Others(n) /\ IsAdopted(node[n], node'[n], v) /\ node'[n].role = "follower"
  BY <1>1, <1>4, <1>6, <1>8, AdoptIs DEF v
<1>10. AdoptStep(n, v)
  BY <1>1, <1>4, <1>6, <1>7, <1>8, <1>9 DEF AdoptStep
<1>. QED  BY <1>4, <1>10

\* So does a leader.
LEMMA HandleHigherVoteIs ==
  ASSUME TypeInv, NodeInv, NEW n \in Node, HandleHigherVote(n)
  PROVE  \E v \in Votes : AdoptStep(n, v)
<1>1. PICK v \in SeenVotes :
        /\ node[n].role = "leader" /\ VoteLt(node[n].vote, v)
        /\ Set(n, UpdateVote(n, node[n], v))
        /\ UNCHANGED <<left, asked, granted, sent, acked, read, chosen>>
  BY DEF HandleHigherVote
<1>2. PICK m \in Node : v = node[m].vote
  BY <1>1 DEF SeenVotes
<1>3. v \in Votes /\ Known(v) /\ Led(v)
  BY <1>2, NodeFacts DEF NodeInv, NodeOK
<1>4. node[n].vote \in Votes /\ node[n].vote.term > 0
  BY <1>1, NodeFacts DEF NodeInv, NodeOK
<1>5. v.term > 0
  BY <1>1, <1>3, <1>4, VoteLtMeans DEF Votes
<1>6. v.node # n /\ ~ VoteLt(v, node[n].vote)
  BY <1>1, <1>3, <1>4, <1>5, VoteOrder DEF Known
<1>7. Others(n) /\ IsAdopted(node[n], node'[n], v) /\ node'[n].role = "follower"
  BY <1>1, <1>3, <1>5, <1>6, AdoptIs
<1>8. AdoptStep(n, v)
  BY <1>1, <1>3, <1>5, <1>6, <1>7 DEF AdoptStep
<1>. QED  BY <1>3, <1>8

\* A heartbeat for a read is that of the leader.
LEMMA ConfirmReadIs ==
  ASSUME TypeInv, NodeInv, ReadVotes, NEW r \in Reader, NEW n \in Node, ConfirmRead(r, n)
  PROVE  Still \/ \E v \in Votes : AdoptStep(n, v)
<1>. DEFINE v == read[r].vote
<1>1. CASE VoteLt(v, node[n].vote)
  BY <1>1 DEF ConfirmRead, Still
<1>2. CASE ~ VoteLt(v, node[n].vote)
  <2>1. v \in Votes /\ v.term > 0 /\ Known(v) /\ Led(v) /\ v.node # n
    BY DEF ConfirmRead, ReadVotes, TypeInv, Reads
  <2>2. Set(n, UpdateVote(n, node[n], v)) /\ UNCHANGED <<asked, granted, sent, acked, chosen>>
    BY <1>2 DEF ConfirmRead
  <2>. HIDE DEF v
  <2>3. Others(n) /\ IsAdopted(node[n], node'[n], v) /\ node'[n].role = "follower"
    BY <1>2, <2>1, <2>2, AdoptIs
  <2>4. AdoptStep(n, v)
    BY <1>2, <2>1, <2>2, <2>3 DEF AdoptStep
  <2>. QED  BY <2>1, <2>4
<1>. QED  BY <1>1, <1>2

\* A leader that knows no more to be committed than is chosen chooses nothing.
LEMMA ChooseSame ==
  ASSUME TypeInv, NEW s \in NodeStates, Agree(s.log, chosen, s.committed), Choose(s)
  PROVE  chosen' = chosen
<1>. DEFINE c == s.committed
            l == SubSeq(s.log, 1, c)
<1>1. s.log \in Seq(Entries) /\ chosen \in Seq(Entries) /\ c \in Nat /\ c \in 0..Len(s.log)
  BY DEF NodeStates, TypeInv, Agree
<1>2. l \in Seq(Entries) /\ Len(l) = c /\ Agree(l, s.log, c)
  BY <1>1, AgreeParts, ConstantTypes
<1>. HIDE DEF l
<1>3. Agree(l, chosen, c)
  BY <1>1, <1>2, AgreeFacts
<1>4. IsPrefix(l, chosen)
  BY <1>1, <1>2, <1>3, PrefixAgree
<1>. QED  BY <1>4 DEF Choose, l

\* The committed part of a log stays when the log grows.
LEMMA AgreeAppend ==
  ASSUME NEW l \in Seq(Entries), NEW m \in Seq(Entries), NEW e \in Entries, NEW c \in Nat, Agree(l, m, c)
  PROVE  Agree(Append(l, e), m, c) /\ Agree(l, Append(l, e), Len(l)) /\ Append(l, e) \in Seq(Entries)
         /\ Len(Append(l, e)) = Len(l) + 1 /\ Append(l, e)[Len(l) + 1] = e
         /\ \A i \in 1..Len(l) : Append(l, e)[i] = l[i]
<1>1. Append(l, e) \in Seq(Entries) /\ Len(Append(l, e)) = Len(l) + 1 /\ Append(l, e)[Len(l) + 1] = e
      /\ \A k \in 1..Len(l) : Append(l, e)[k] = l[k]
  OBVIOUS
<1>2. Len(l) \in Nat /\ Len(m) \in Nat
  OBVIOUS
<1>. QED  BY <1>1, <1>2 DEF Agree

\* A candidate wins with a quorum.
LEMMA HandleVoteGrantedIs ==
  ASSUME TypeInv, NodeInv, SentInv, LogInv, CommitInv, NEW n \in Node, HandleVoteGranted(n)
  PROVE  \E e \in Entries : WinStep(n, e)
<1>. DEFINE s == node[n]
            v == [s.vote EXCEPT !.done = TRUE]
            e == Blank(v)
            t == Establish(s)
<1>1. s \in NodeStates /\ s.vote \in Votes /\ s.log \in Seq(Entries) /\ Bounded(s.log, s.vote)
      /\ s.committed \in Nat /\ Agree(s.log, chosen, s.committed)
  BY NodeFacts DEF LogInv, CommitInv
<1>2. s.role = "candidate" /\ s.vote.term > 0 /\ ~ s.vote.done /\ s.vote.node = n
  BY DEF HandleVoteGranted, NodeInv, NodeOK
<1>3. /\ t \in NodeStates /\ v \in Votes /\ e \in Entries
      /\ t.vote = v /\ t.log = Append(s.log, e) /\ t.disk = s.log
      /\ t.committed = s.committed /\ t.cluster = s.cluster /\ t.role = "leader"
      /\ t.noop = Len(s.log) + 1
      /\ t.accepted = [vote |-> v, last |-> LastId(Append(s.log, e))]
  BY <1>1, EstablishIs
<1>4. Set(n, t) /\ Publish(t) /\ Choose(t) /\ UNCHANGED <<asked, granted, acked>>
  BY DEF HandleVoteGranted, Leads
<1>5. v.done /\ v.term = s.vote.term /\ v.node = n /\ e.id = LeaderId(v)
  BY <1>1, <1>2 DEF Votes, Blank
<1>6. HasQuorum(Granters(s.vote))
  <2>1. HasQuorum(GrantersOf(n))
    BY DEF HandleVoteGranted
  <2>2. \A m \in Node : m \in GrantersOf(n) => m \in Granters(s.vote)
    BY DEF GrantersOf, CandidateVoteMatches, Granters
  <2>. QED  BY <2>1, <2>2, QuorumGrows
<1>. HIDE DEF t, v, e, s
<1>7. \A p \in sent : p.vote # v
  <2>1. SUFFICES ASSUME NEW p \in sent, p.vote = v  PROVE FALSE
    OBVIOUS
  <2>2. ~ VoteLt(s.vote, v)
    BY <2>1, <1>2, <1>5 DEF SentInv, Known, s
  <2>. QED  BY <2>2, <1>1, <1>2, <1>3, <1>5, VoteLtMeans
<1>8. Published(t)
  BY <1>3, <1>4, <1>7, PublishIs
<1>9. Agree(t.log, chosen, t.committed)
  BY <1>1, <1>3, AgreeAppend DEF TypeInv
<1>10. chosen' = chosen
  BY <1>3, <1>4, <1>9, ChooseSame
<1>11. Others(n) /\ node'[n] = t
  BY <1>3, <1>4, SetIs
<1>12. GrowStep(n, e)
  BY <1>3, <1>4, <1>5, <1>8, <1>10, <1>11 DEF GrowStep, s
<1>13. WinStep(n, e)
  BY <1>2, <1>3, <1>6, <1>11, <1>12 DEF WinStep, s, v
<1>. QED  BY <1>3, <1>13

\* The leader of a vote has the log that was sent under it.
LEMMA LeaderLog ==
  ASSUME TypeInv, NodeInv, SentInv, NEW n \in Node, node[n].role = "leader",
         NEW p \in sent, p.vote = node[n].vote
  PROVE  p.log = node[n].log
  BY DEF NodeInv, NodeOK, SentInv

\* A write is an entry of the leader's own.
LEMMA ClientWriteIs ==
  ASSUME TypeInv, NodeInv, SentInv, LogInv, AcceptedInv, CommitInv, NEW n \in Node, ClientWrite(n)
  PROVE  \E e \in Entries : WriteStep(n, e)
<1>. DEFINE s == node[n]
            e == [id |-> LeaderId(s.vote), val |-> left["writes"]]
            t == LeaderAppend(s, e)
<1>1. s \in NodeStates /\ s.vote \in Votes /\ s.log \in Seq(Entries) /\ Bounded(s.log, s.vote)
      /\ s.committed \in Nat /\ Agree(s.log, chosen, s.committed) /\ Accepts(s) /\ Len(s.log) \in Nat
  BY NodeFacts DEF LogInv, CommitInv
<1>2. s.role = "leader" /\ s.vote.term > 0 /\ s.accepted.vote = s.vote
  BY <1>1 DEF ClientWrite, NodeInv, NodeOK, Accepts
<1>3. e \in Entries /\ e.id = LeaderId(s.vote)
  <2>1. left["writes"] \in Nat
    BY DEF TypeInv, BudgetSet
  <2>2. LeaderId(s.vote) \in Ids
    BY <1>1, LeaderIds
  <2>. QED  BY <2>1, <2>2 DEF Entries
<1>4. PICK p \in sent : p.vote = s.vote /\ p.log = s.log
  BY <1>2 DEF NodeInv, NodeOK
<1>5. LogLt(s.accepted.last, [id |-> e.id, at |-> Len(s.log) + 1])
  <2>. DEFINE a == s.accepted.last.at
  <2>1. s.accepted.last = EntryId(s.log, a) /\ a \in 0..Len(s.log)
    <3>1. Agree(s.log, p.log, a) /\ s.accepted.last = EntryId(p.log, a)
      BY <1>2, <1>4 DEF AcceptedInv
    <3>2. a \in Nat
      BY NodeFacts
    <3>. QED  BY <1>1, <1>4, <3>1, <3>2 DEF Agree
  <2>. HIDE DEF a
  <2>2. CASE a = 0
    <3>1. s.accepted.last = NoLogId
      BY <2>1, <2>2 DEF EntryId
    <3>2. IdLt(<<0, 0>>, LeaderId(s.vote)) \/ <<0, 0>> = LeaderId(s.vote)
      BY <1>1, LeaderIds DEF Ids, IdLt
    <3>. QED  BY <1>1, <1>3, <3>1, <3>2, ConstantTypes DEF LogLt
  <2>3. CASE a # 0
    <3>1. a \in 1..Len(s.log) /\ s.log[a] \in Entries /\ s.accepted.last = [id |-> s.log[a].id, at |-> a]
          /\ ~ IdLt(LeaderId(s.vote), s.log[a].id)
      BY <1>1, <2>1, <2>3 DEF EntryId, Bounded
    <3>2. IdLt(s.log[a].id, LeaderId(s.vote)) \/ s.log[a].id = LeaderId(s.vote)
      BY <1>1, <3>1, LeaderIds, IdOrder DEF Entries
    <3>. QED  BY <1>1, <1>3, <3>1, <3>2 DEF LogLt
  <2>. QED  BY <2>2, <2>3
<1>6. Set(n, t) /\ Publish(t) /\ Choose(t) /\ UNCHANGED <<asked, granted, acked>>
  BY DEF ClientWrite, Leads
<1>. HIDE DEF e
<1>7. /\ t \in NodeStates
      /\ t.vote = s.vote /\ t.log = Append(s.log, e) /\ t.disk = s.disk
      /\ t.committed = s.committed /\ t.cluster = s.cluster /\ t.role = s.role /\ t.noop = s.noop
      /\ t.accepted = [vote |-> s.vote, last |-> LastId(Append(s.log, e))]
  BY <1>1, <1>2, <1>3, <1>5, LeaderAppendIs
<1>. HIDE DEF t
<1>8. Agree(t.log, chosen, t.committed) /\ Agree(s.log, t.log, Len(s.log))
  BY <1>1, <1>3, <1>7, AgreeAppend DEF TypeInv
<1>9. \A q \in sent : q.vote = t.vote => Agree(q.log, t.log, Len(q.log))
  BY <1>2, <1>7, <1>8, LeaderLog
<1>10. Published(t)
  BY <1>6, <1>7, <1>9, PublishIs
<1>11. chosen' = chosen
  BY <1>6, <1>7, <1>8, ChooseSame
<1>12. Others(n) /\ node'[n] = t
  BY <1>6, <1>7, SetIs
<1>13. GrowStep(n, e)
  BY <1>2, <1>3, <1>6, <1>7, <1>10, <1>11, <1>12 DEF GrowStep
<1>14. WriteStep(n, e)
  BY <1>2, <1>7, <1>12, <1>13 DEF WriteStep
<1>. QED  BY <1>3, <1>14

\* A leader commits an entry of its own that a quorum has.
LEMMA UpdateProgressIs ==
  ASSUME TypeInv, NodeInv, SentInv, NEW n \in Node, UpdateProgress(n)
  PROVE  \E i \in Nat : CommitStep(n, i)
<1>. DEFINE s == node[n]
<1>1. PICK i \in s.committed + 1 .. Len(s.log) : MayCommit(s, i) /\ Leads(n, TryCommit(s, i))
  BY DEF UpdateProgress
<1>2. s.role = "leader" /\ UNCHANGED <<asked, granted, acked>>
  BY DEF UpdateProgress
<1>. DEFINE t == TryCommit(s, i)
            k == [vote |-> s.vote, last |-> EntryId(s.log, i)]
<1>3. s \in NodeStates /\ s.log \in Seq(Entries) /\ Len(s.log) \in Nat /\ s.committed \in Nat
      /\ s.vote \in Votes
  BY NodeFacts
<1>4. i \in Nat /\ i \in 1..Len(s.log)
  BY <1>1, <1>3
<1>5. k \in IOs
  <2>1. s.log[i] \in Entries /\ EntryId(s.log, i) = [id |-> s.log[i].id, at |-> i]
    BY <1>3, <1>4 DEF EntryId
  <2>. QED  BY <1>3, <1>4, <2>1 DEF IOs, LogIds, Entries
<1>6. t = [s EXCEPT !.committed = i, !.cluster = k]
  BY DEF TryCommit
<1>. HIDE DEF k
<1>7. t \in NodeStates /\ t.log = s.log /\ t.vote = s.vote
  BY <1>3, <1>4, <1>5, <1>6 DEF NodeStates
<1>8. Set(n, t) /\ Publish(t) /\ Choose(t)
  BY <1>1 DEF Leads
<1>9. \A q \in sent : q.vote = t.vote => Agree(q.log, t.log, Len(q.log))
  <2>1. \A q \in sent : q.vote = t.vote => q.log = s.log
    BY <1>2, <1>7, LeaderLog
  <2>2. Agree(s.log, s.log, Len(s.log))
    BY <1>3 DEF Agree
  <2>. QED  BY <1>7, <2>1, <2>2
<1>10. Published(t)
  BY <1>7, <1>8, <1>9, PublishIs
<1>11. Others(n) /\ node'[n] = t
  BY <1>7, <1>8, SetIs
<1>12. CommitStep(n, i)
  BY <1>1, <1>2, <1>8, <1>10, <1>11 DEF CommitStep
<1>. QED  BY <1>4, <1>12

\* A flush is answered to the leader whose entries were accepted.
LEMMA FlushIs ==
  ASSUME TypeInv, NodeInv, NEW n \in Node, Flush(n)
  PROVE  FlushStep(n)
<1>1. [node[n] EXCEPT !.disk = node[n].log] \in NodeStates
  BY NodeFacts DEF NodeStates
<1>2. Others(n) /\ node'[n] = [node[n] EXCEPT !.disk = node[n].log]
  BY <1>1, SetIs DEF Flush
<1>. QED  BY <1>2 DEF Flush, FlushStep

\* What a node is when it starts again.
LEMMA RestartedIs ==
  ASSUME NEW s \in NodeStates, NEW l \in Seq(Entries)
  PROVE  LET t == Restarted(s, l)
             v == IF s.vote.term = 0 THEN NoVote ELSE s.vote
         IN  /\ t \in NodeStates
             /\ t.vote = v /\ t.log = l /\ t.disk = l /\ t.committed = 0
             /\ t.accepted = [vote |-> v, last |-> NoLogId] /\ t.cluster = NoIO
             /\ t.role = "follower" /\ t.noop = 0
<1>. DEFINE v == IF s.vote.term = 0 THEN NoVote ELSE s.vote
            a == [vote |-> v, last |-> NoLogId]
            t == Restarted(s, l)
<1>1. v \in Votes /\ s.vote \in Votes
  BY ConstantTypes DEF NodeStates
<1>. HIDE DEF v
<1>2. a \in IOs /\ NoIO \in IOs
  BY <1>1, ConstantTypes DEF IOs
<1>. HIDE DEF a
<1>3. t = [s EXCEPT !.vote = v, !.log = l, !.disk = l, !.committed = 0, !.accepted = a,
                    !.cluster = NoIO, !.role = "follower", !.noop = 0]
  BY DEF Restarted, NodeStates, v, a
<1>. HIDE DEF t
<1>4. t \in NodeStates /\ t.vote = v /\ t.log = l /\ t.disk = l /\ t.committed = 0
      /\ t.accepted = a /\ t.cluster = NoIO /\ t.role = "follower" /\ t.noop = 0
  BY <1>1, <1>2, <1>3 DEF NodeStates
<1>. QED  BY <1>4 DEF t, v, a

\* A leader that starts again with its log resumes.
LEMMA ResumeIs ==
  ASSUME NEW s \in NodeStates, s.vote.term > 0, NEW i \in 1..Len(s.log), s.log[i].id = LeaderId(s.vote)
  PROVE  LET t == Resume(Restarted(s, s.log))
         IN  /\ t \in NodeStates
             /\ t.vote = s.vote /\ t.log = s.log /\ t.disk = s.log /\ t.committed = 0 /\ t.cluster = NoIO
             /\ t.role = "leader" /\ t.accepted = [vote |-> s.vote, last |-> LastId(s.log)]
             /\ t.noop \in OwnEntries(s)
<1>. DEFINE u == Restarted(s, s.log)
            u1 == [u EXCEPT !.role = "leader"]
            io == [vote |-> s.vote, last |-> LastId(s.log)]
            led == AcceptLogIO(u1, io)
            O == OwnEntries(s)
<1>1. s.log \in Seq(Entries) /\ Len(s.log) \in Nat /\ s.vote \in Votes /\ Len(s.log) > 0
  BY DEF NodeStates
<1>2. u \in NodeStates
      /\ u.vote = s.vote /\ u.log = s.log /\ u.disk = s.log /\ u.committed = 0
      /\ u.accepted = [vote |-> s.vote, last |-> NoLogId] /\ u.cluster = NoIO
      /\ u.role = "follower" /\ u.noop = 0
  BY <1>1, RestartedIs
<1>. HIDE DEF u
<1>3. u1 \in NodeStates
      /\ u1.vote = s.vote /\ u1.log = s.log /\ u1.disk = s.log /\ u1.committed = 0
      /\ u1.accepted = [vote |-> s.vote, last |-> NoLogId] /\ u1.cluster = NoIO
      /\ u1.role = "leader" /\ u1.noop = 0
  BY <1>2 DEF NodeStates
<1>4. LastId(s.log) \in LogIds /\ LogLt(NoLogId, LastId(s.log))
  <2>1. s.log[Len(s.log)] \in Entries /\ LastId(s.log) = [id |-> s.log[Len(s.log)].id, at |-> Len(s.log)]
    BY <1>1 DEF LastId, EntryId
  <2>2. s.log[Len(s.log)].id \in Ids
    BY <2>1 DEF Entries
  <2>3. IdLt(<<0, 0>>, s.log[Len(s.log)].id) \/ <<0, 0>> = s.log[Len(s.log)].id
    BY <2>2 DEF Ids, IdLt
  <2>. QED  BY <1>1, <2>1, <2>2, <2>3, ConstantTypes DEF LogLt, LogIds
<1>5. io \in IOs
  BY <1>1, <1>4 DEF IOs
<1>. HIDE DEF u1
<1>6. IOLt(u1.accepted, io)
  BY <1>3, <1>4 DEF IOLt
<1>7. /\ led \in NodeStates
      /\ led.vote = u1.vote /\ led.log = u1.log /\ led.disk = u1.disk /\ led.committed = u1.committed
      /\ led.cluster = u1.cluster /\ led.role = u1.role /\ led.noop = u1.noop
      /\ led.accepted = io
  BY <1>3, <1>5, <1>6, AcceptIs
<1>8. OwnEntries(u) = O /\ O \in SUBSET Nat /\ i \in O
  BY <1>2 DEF OwnEntries
<1>9. Min(O) \in O /\ Min(O) \in Nat
  <2>. HIDE DEF O
  <2>. QED  BY <1>8, MinIs
<1>10. Resume(u) = [led EXCEPT !.noop = Min(O)]
  BY <1>2, <1>8 DEF Resume, led, u1, io
<1>. HIDE DEF led, O
<1>11. LET t == Resume(u)
       IN  /\ t \in NodeStates
           /\ t.vote = led.vote /\ t.log = led.log /\ t.disk = led.disk /\ t.committed = led.committed
           /\ t.cluster = led.cluster /\ t.role = led.role /\ t.accepted = led.accepted
           /\ t.noop = Min(O)
  BY <1>7, <1>9, <1>10 DEF NodeStates
<1>. QED  BY <1>3, <1>7, <1>9, <1>11 DEF u, O

\* A node restarts as leader or as follower.
LEMMA RestartIs ==
  ASSUME ~ LeaderLoses, TypeInv, NodeInv, SentInv, NEW n \in Node, Restart(n)
  PROVE  ResumeStep(n) \/ \E l \in Seq(Entries) : RestartStep(n, l)
<1>. DEFINE s == node[n]
            owns == s.vote.term > 0 /\ IsLeader(n, s.vote)
<1>1. s \in NodeStates /\ s.vote \in Votes /\ s.log \in Seq(Entries) /\ s.disk \in Seq(Entries)
  BY NodeFacts
<1>2. UNCHANGED <<asked, granted, acked>>
  BY DEF Restart
<1>3. CASE owns
  <2>. DEFINE t == Resume(Restarted(s, s.log))
  <2>1. Leads(n, t)
    BY <1>3 DEF Restart
  <2>2. s.role = "leader" /\ s.noop \in 1..Len(s.log) /\ s.log[s.noop].id = LeaderId(s.vote)
    BY <1>3 DEF NodeInv, NodeOK, IsLeader
  <2>3. /\ t \in NodeStates
        /\ t.vote = s.vote /\ t.log = s.log /\ t.disk = s.log /\ t.committed = 0 /\ t.cluster = NoIO
        /\ t.role = "leader" /\ t.accepted = [vote |-> s.vote, last |-> LastId(s.log)]
        /\ t.noop \in OwnEntries(s)
    BY <1>1, <1>3, <2>2, ResumeIs
  <2>. HIDE DEF t
  <2>4. Set(n, t) /\ Publish(t) /\ Choose(t)
    BY <2>1 DEF Leads
  <2>5. \A q \in sent : q.vote = t.vote => Agree(q.log, t.log, Len(q.log))
    <3>1. \A q \in sent : q.vote = t.vote => q.log = s.log
      BY <2>2, <2>3, LeaderLog
    <3>2. Agree(s.log, s.log, Len(s.log))
      BY <1>1 DEF Agree
    <3>. QED  BY <2>3, <3>1, <3>2
  <2>6. Published(t)
    BY <2>3, <2>4, <2>5, PublishIs
  <2>7. Agree(t.log, chosen, t.committed)
    BY <1>1, <2>3 DEF Agree, TypeInv
  <2>8. chosen' = chosen
    BY <2>3, <2>4, <2>7, ChooseSame
  <2>9. Others(n) /\ node'[n] = t
    BY <2>3, <2>4, SetIs
  <2>10. ResumeStep(n)
    BY <1>2, <2>2, <2>3, <2>6, <2>8, <2>9 DEF ResumeStep
  <2>. QED  BY <2>10
<1>4. CASE ~ owns
  <2>1. PICK l \in {s.log, s.disk} : Set(n, Restarted(s, l)) /\ UNCHANGED <<sent, chosen>>
    BY <1>4 DEF Restart
  <2>2. l \in Seq(Entries)
    BY <1>1, <2>1
  <2>3. Restarted(s, l) \in NodeStates
    BY <1>1, <2>2, RestartedIs
  <2>4. Others(n) /\ node'[n] = Restarted(s, l)
    BY <2>1, <2>3, SetIs
  <2>5. RestartStep(n, l)
    BY <1>2, <1>4, <2>1, <2>4 DEF RestartStep
  <2>. QED  BY <2>2, <2>5
<1>. QED  BY <1>3, <1>4

\* An entry of an accepted leader that a node claims to have is there, with all
\* before it.
LEMMA MatchesIs ==
  ASSUME TypeInv, NodeInv, SentInv, LogInv, CompleteInv, CommitInv, NEW n \in Node, NEW p \in sent,
         ~ VoteLt(p.vote, node[n].vote), NEW u \in NodeStates, SameLog(node[n], u)
  PROVE  Matches(u, p.log)
<1>. DEFINE s == node[n]
<1>0. s.log \in Seq(Entries) /\ p.log \in Seq(Entries) /\ chosen \in Seq(Entries) /\ s.committed \in Nat
      /\ Len(p.log) \in Nat /\ Len(s.log) \in Nat /\ s.vote \in Votes
      /\ u.log = s.log /\ u.committed = s.committed
  BY NodeFacts DEF TypeInv, SameLog
<1>1. SUFFICES ASSUME NEW i \in 1..Len(p.log), HasLogId(u, EntryId(p.log, i))
               PROVE  Agree(s.log, p.log, i)
  BY <1>0 DEF Matches
<1>2. EntryId(p.log, i) = [id |-> p.log[i].id, at |-> i] /\ i \in Nat \ {0}
  BY <1>0 DEF EntryId
<1>3. i <= s.committed \/ (i <= Len(s.log) /\ s.log[i].id = p.log[i].id)
  BY <1>0, <1>1, <1>2 DEF HasLogId
<1>4. CASE i <= s.committed
  <2>1. Agree(s.log, chosen, s.committed) /\ Agree(chosen, p.log, s.committed)
    BY <1>0, JustAgree DEF CommitInv
  <2>2. Agree(s.log, p.log, s.committed)
    BY <1>0, <2>1, AgreeFacts
  <2>. QED  BY <1>0, <1>2, <1>4, <2>2, AgreeFacts
<1>5. CASE i <= Len(s.log) /\ s.log[i].id = p.log[i].id
  <2>1. FromLeader(s.log, i) /\ FromLeader(p.log, i)
    BY <1>0, <1>2, <1>5 DEF LogInv, Origin
  <2>. QED  BY <1>0, <1>2, <1>5, <2>1, OriginMatch
<1>. QED  BY <1>3, <1>4, <1>5

\* A request is a part of what a leader had to send.
LEMMA HandleAppendEntriesIs ==
  ASSUME TypeInv, NodeInv, SentInv, LogInv, CompleteInv, CommitInv, NEW n \in Node,
         HandleAppendEntries(n)
  PROVE  \E p \in sent : FollowStep(n, p)
<1>. DEFINE R(r) == IF VoteLt(r.vote, node[n].vote) THEN node[n] ELSE AppendEntries(n, node[n], r)
<1>1. PICK r \in Requests(n) :
        /\ r.vote.node # n
        /\ Set(n, UpdateCommitted(R(r), [vote |-> r.vote, last |-> EntryId(r.log, r.commit)]))
        /\ UNCHANGED <<left, asked, granted, sent, acked, read, chosen>>
  BY DEF HandleAppendEntries
<1>2. PICK p \in sent :
        /\ r.vote = p.vote /\ r.log = p.log /\ r.commit = p.commit
        /\ \/ r.prev = 0 /\ r.last \in 1..Len(p.log)
           \/ /\ r.prev \in 1..Len(p.log)
              /\ ~ HasLogId(node[n], EntryId(p.log, r.prev))
  <2>. DEFINE q(p, i, j) == [vote |-> p.vote, log |-> p.log, prev |-> i, last |-> j, commit |-> p.commit]
              ends(p) == IF left.parts THEN 1 .. Len(p.log) ELSE {Len(p.log)}
              miss(p) == {k \in 1 .. Len(p.log) : ~ HasLogId(node[n], EntryId(p.log, k))}
              reqs(p) == {q(p, 0, j) : j \in ends(p)} \cup {q(p, i, i) : i \in miss(p)}
  <2>1. Requests(n) = UNION {reqs(p) : p \in sent}
    BY DEF Requests
  <2>. HIDE DEF reqs
  <2>2. PICK p \in sent : r \in reqs(p)
    BY <2>1
  <2>3. (\E j \in ends(p) : r = q(p, 0, j)) \/ (\E i \in miss(p) : r = q(p, i, i))
    BY <2>2 DEF reqs
  <2>4. CASE \E j \in ends(p) : r = q(p, 0, j)
    <3>1. PICK j \in ends(p) : r = q(p, 0, j)
      BY <2>4
    <3>2. p.log \in Seq(Entries) /\ p.log # <<>>
      BY DEF TypeInv, SentInv
    <3>3. j \in 1..Len(p.log)
      BY <3>2
    <3>. QED  BY <3>1, <3>3
  <2>5. CASE \E i \in miss(p) : r = q(p, i, i)
    BY <2>5
  <2>. QED  BY <2>3, <2>4, <2>5
<1>. DEFINE s == node[n]
            l == p.log
            v == p.vote
            w == R(r)
            io == [vote |-> v, last |-> EntryId(l, p.commit)]
<1>3. s \in NodeStates /\ s.vote \in Votes /\ Accepts(s) /\ l \in Seq(Entries) /\ v \in Votes
      /\ v.term > 0 /\ p.commit \in Nat /\ Len(l) \in Nat /\ chosen \in Seq(Entries)
  BY NodeFacts DEF TypeInv, SentInv
<1>4. io \in IOs
  <2>1. p.commit <= Len(l)
    <3>1. Justified(v, p.commit)
      BY DEF CommitInv
    <3>2. Agree(chosen, l, p.commit)
      BY <1>3, <3>1, JustAgree, VoteOrder
    <3>. QED  BY <3>2 DEF Agree
  <2>2. EntryId(l, p.commit) \in LogIds
    <3>1. CASE p.commit = 0
      BY <3>1, ConstantTypes DEF EntryId
    <3>2. CASE p.commit # 0
      <4>1. l[p.commit] \in Entries
        BY <1>3, <2>1, <3>2
      <4>. QED  BY <1>3, <3>2, <4>1 DEF EntryId, LogIds, Entries
    <3>. QED  BY <3>1, <3>2
  <2>. QED  BY <1>3, <2>2 DEF IOs
<1>5. /\ w \in NodeStates
      /\ \/ VoteLt(v, s.vote) /\ w = s
         \/ /\ ~ VoteLt(v, s.vote)
            /\ \E u \in NodeStates : /\ IsAdopted(s, u, v) /\ u.role = "follower"
                                     /\ IsReplicated(u, w, l, v)
  <2>1. CASE VoteLt(v, s.vote)
    BY <1>2, <1>3, <2>1
  <2>2. CASE ~ VoteLt(v, s.vote)
    <3>. DEFINE u == UpdateVote(n, s, v)
    <3>1. w = AppendEntries(n, s, r)
      BY <1>2, <2>2
    <3>2. u \in NodeStates /\ IsAdopted(s, u, v) /\ u.role = "follower"
      BY <1>1, <1>2, <1>3, <2>2, UpdateVoteIs
    <3>3. w = IF r.prev > 0 /\ ~ HasLogId(u, EntryId(l, r.prev)) THEN TruncateLogs(u, r.prev)
              ELSE FollowAppend(u, r)
      BY <1>2, <3>1 DEF AppendEntries
    <3>. HIDE DEF u, w
    <3>4. Matches(u, l)
      BY <2>2, <3>2, MatchesIs DEF IsAdopted
    <3>5. CASE r.prev = 0 /\ r.last \in 1..Len(l)
      <4>1. w = FollowAppend(u, r)
        BY <3>3, <3>5
      <4>2. w \in NodeStates /\ IsReplicated(u, w, l, v)
        BY <1>2, <1>3, <3>2, <3>4, <3>5, <4>1, FollowAppendIs
      <4>. QED  BY <2>2, <3>2, <4>2
    <3>6. CASE r.prev \in 1..Len(l) /\ ~ HasLogId(s, EntryId(l, r.prev))
      <4>1. ~ HasLogId(u, EntryId(l, r.prev))
        BY <3>2, <3>6 DEF HasLogId, IsAdopted, SameLog
      <4>2. w = TruncateLogs(u, r.prev)
        BY <1>3, <3>3, <3>6, <4>1
      <4>3. w \in NodeStates /\ IsReplicated(u, w, l, v)
        BY <1>3, <3>2, <3>6, <4>1, <4>2, TruncateIs
      <4>. QED  BY <2>2, <3>2, <4>3
    <3>. QED  BY <1>2, <3>5, <3>6
  <2>. QED  BY <2>1, <2>2
<1>6. Set(n, UpdateCommitted(w, io))
  BY <1>1, <1>2
<1>. HIDE DEF w, io
<1>7. UpdateCommitted(w, io) \in NodeStates
  BY <1>4, <1>5, UpdateCommittedIs
<1>8. Others(n) /\ node'[n] = UpdateCommitted(w, io)
  BY <1>6, <1>7, SetIs
<1>9. FollowStep(n, p)
  BY <1>1, <1>2, <1>5, <1>8 DEF FollowStep, io
<1>. QED  BY <1>9

\* A step of node n that is not a restart.
Runs(n) ==
  \/ InitializeStep(n) \/ FlushStep(n)
  \/ \E v \in Votes : AdoptStep(n, v) \/ ElectStep(n, v)
  \/ \E e \in Entries : WinStep(n, e) \/ WriteStep(n, e)
  \/ \E p \in sent : FollowStep(n, p)
  \/ \E i \in Nat : CommitStep(n, i)

Quiet == Still \/ \E n \in Node : Runs(n)

\* Every step of the cluster is a restart or one of the steps above.
LEMMA RunIs ==
  ASSUME SafeInv, ReadVotes, Next
  PROVE  Quiet \/ \E n \in Node : Restart(n)
<1>. USE DEF SafeInv
<1>1. ASSUME NEW n \in Node, Initialize(n)  PROVE Quiet
  BY <1>1, InitializeIs DEF Quiet, Runs
<1>2. ASSUME NEW n \in Node, Elect(n)  PROVE Quiet
  BY <1>2, ElectIs DEF Quiet, Runs
<1>3. ASSUME NEW n \in Node, HandleVoteRequest(n)  PROVE Quiet
  BY <1>3, HandleVoteRequestIs DEF Quiet, Runs
<1>4. ASSUME NEW n \in Node, HandleVoteGranted(n)  PROVE Quiet
  BY <1>4, HandleVoteGrantedIs DEF Quiet, Runs
<1>5. ASSUME NEW n \in Node, HandleVoteRefused(n)  PROVE Quiet
  BY <1>5, HandleVoteRefusedIs DEF Quiet, Runs
<1>6. ASSUME NEW n \in Node, HandleAppendEntries(n)  PROVE Quiet
  BY <1>6, HandleAppendEntriesIs DEF Quiet, Runs
<1>7. ASSUME NEW n \in Node, Flush(n)  PROVE Quiet
  BY <1>7, FlushIs DEF Quiet, Runs
<1>8. ASSUME NEW n \in Node, UpdateProgress(n)  PROVE Quiet
  BY <1>8, UpdateProgressIs DEF Quiet, Runs
<1>9. ASSUME NEW n \in Node, HandleHigherVote(n)  PROVE Quiet
  BY <1>9, HandleHigherVoteIs DEF Quiet, Runs
<1>10. ASSUME NEW n \in Node, ClientWrite(n)  PROVE Quiet
  BY <1>10, ClientWriteIs DEF Quiet, Runs
<1>11. ASSUME NEW r \in Reader, EndRead(r)  PROVE Quiet
  BY <1>11 DEF Quiet, EndRead, Still
<1>12. ASSUME NEW r \in Reader, NEW n \in Node, BeginRead(r, n)  PROVE Quiet
  BY <1>12 DEF Quiet, BeginRead, Still
<1>13. ASSUME NEW r \in Reader, NEW n \in Node, ConfirmRead(r, n)  PROVE Quiet
  BY <1>13, ConfirmReadIs DEF Quiet, Runs
<1>. QED
  BY <1>1, <1>2, <1>3, <1>4, <1>5, <1>6, <1>7, <1>8, <1>9, <1>10, <1>11, <1>12, <1>13 DEF Next

\* Every action is a step, restarts too.
LEMMA StepIs ==
  ASSUME ~ LeaderLoses, SafeInv, ReadVotes, Next
  PROVE  Step
<1>1. ASSUME NEW n \in Node, Restart(n)  PROVE Step
  BY <1>1, RestartIs DEF Step, SafeInv
<1>. QED  BY <1>1, RunIs DEF Step, Quiet, Runs

----------------------------------------------------------------------------
(* Types.                                                                   *)

\* A budget that is spent is a budget.
LEMMA SpendType ==
  ASSUME left \in BudgetSet,
         NEW what \in {"inits", "elections", "writes", "crashes", "reads"}, Spend(what)
  PROVE  left' \in BudgetSet
<1>1. CASE what = "inits"
  BY <1>1 DEF Spend, BudgetSet
<1>2. CASE what = "elections"
  BY <1>2 DEF Spend, BudgetSet
<1>3. CASE what = "writes"
  BY <1>3 DEF Spend, BudgetSet
<1>4. CASE what = "crashes"
  BY <1>4 DEF Spend, BudgetSet
<1>5. CASE what = "reads"
  BY <1>5 DEF Spend, BudgetSet
<1>. QED  BY <1>1, <1>2, <1>3, <1>4, <1>5

\* So it is after every action.
LEMMA LeftType ==
  ASSUME TypeInv, Next
  PROVE  left' \in BudgetSet
<1>0. left \in BudgetSet
  BY DEF TypeInv
<1>1. CASE UNCHANGED left
  BY <1>0, <1>1
<1>2. CASE \E what \in {"inits", "elections", "writes", "crashes", "reads"} : Spend(what)
  BY <1>0, <1>2, SpendType
<1>. QED
  BY <1>1, <1>2 DEF Next, Initialize, Elect, HandleVoteRequest, HandleVoteGranted, HandleVoteRefused,
     HandleAppendEntries, Flush, UpdateProgress, HandleHigherVote, ClientWrite, Restart, BeginRead,
     ConfirmRead, EndRead

\* The types of reads.
LEMMA IdleReadType == IdleRead \in Reads
  BY ConstantTypes DEF IdleRead, Reads

\* Reads keep their type.
LEMMA ReadType ==
  ASSUME TypeInv, NodeInv, CommitInv, ReadVotes, Next
  PROVE  read' \in [Reader -> Reads]
<1>0. read \in [Reader -> Reads]
  BY DEF TypeInv
<1>1. CASE UNCHANGED read
  BY <1>0, <1>1
<1>2. ASSUME NEW n \in Node, Restart(n)  PROVE read' \in [Reader -> Reads]
  BY ZenonT(60), <1>0, <1>2 DEF Restart, Reads
<1>3. ASSUME NEW r \in Reader, EndRead(r)  PROVE read' \in [Reader -> Reads]
  <2>. DEFINE s == node[read[r].at]
              l == SubSeq(s.log, 1, s.committed)
  <2>1. read[r] \in Reads /\ read[r].pc = "wait" /\ read[r].at \in Node
    BY <1>0, <1>3 DEF EndRead, ReadVotes, Reads
  <2>2. l \in Seq(Entries)
    BY <2>1, NodeFacts DEF CommitInv, Agree
  <2>3. read' = [read EXCEPT ![r].pc = "done", ![r].saw = l]
    BY <1>3 DEF EndRead
  <2>. HIDE DEF l
  <2>. DEFINE R == [read[r] EXCEPT !.pc = "done", !.saw = l]
  <2>4. R \in Reads
    BY <2>1, <2>2 DEF Reads
  <2>5. read' = [read EXCEPT ![r] = R]
    BY <1>0, <2>3
  <2>. HIDE DEF R
  <2>. QED  BY <1>0, <2>4, <2>5
<1>4. ASSUME NEW r \in Reader, NEW n \in Node, BeginRead(r, n)  PROVE read' \in [Reader -> Reads]
  <2>. DEFINE k == ReadLogId(node[n])
              R == [IdleRead EXCEPT !.pc = "wait", !.at = n, !.vote = node[n].vote,
                                    !.upto = k, !.ok = {n}, !.floor = chosen]
  <2>1. k \in Nat /\ n \in Nat /\ {n} \in SUBSET Node /\ node[n].vote \in Votes /\ chosen \in Seq(Entries)
    <3>1. node[n].noop \in Nat /\ node[n].committed \in Nat
      BY DEF TypeInv, NodeStates
    <3>. QED  BY <3>1, NodeFacts, ClusterAssumption DEF ReadLogId, Larger, TypeInv
  <2>2. read' = [read EXCEPT ![r] = R]
    BY <1>4 DEF BeginRead
  <2>. HIDE DEF k
  <2>3. R \in Reads
    BY <2>1, IdleReadType DEF Reads
  <2>. HIDE DEF R
  <2>. QED  BY <1>0, <2>2, <2>3
<1>5. ASSUME NEW r \in Reader, NEW n \in Node, ConfirmRead(r, n)  PROVE read' \in [Reader -> Reads]
  <2>1. read[r] \in Reads
    BY <1>0
  <2>. DEFINE F == [read[r] EXCEPT !.pc = "failed"]
              G == [read[r] EXCEPT !.ok = read[r].ok \cup {n}]
  <2>2. F \in Reads
    BY <2>1 DEF Reads
  <2>3. G \in Reads
    BY <2>1 DEF Reads
  <2>4. read' = [read EXCEPT ![r] = F] \/ read' = [read EXCEPT ![r] = G]
    BY <1>0, <1>5 DEF ConfirmRead
  <2>. HIDE DEF F, G
  <2>. QED  BY <1>0, <2>2, <2>3, <2>4
<1>. QED
  BY <1>1, <1>2, <1>3, <1>4, <1>5 DEF Next, Initialize, Elect, HandleVoteRequest, HandleVoteGranted,
     HandleVoteRefused, HandleAppendEntries, Flush, UpdateProgress, HandleHigherVote, ClientWrite

\* Agreement once more, a fact at a time.
LEMMA AgreeTrans ==
  ASSUME NEW l, NEW m, NEW o, NEW i, Agree(l, m, i), Agree(m, o, i)
  PROVE  Agree(l, o, i)
  BY DEF Agree

\* Agreement is symmetric.
LEMMA AgreeSym ==
  ASSUME NEW l, NEW m, NEW i, Agree(l, m, i)
  PROVE  Agree(m, l, i)
  BY DEF Agree

\* It holds for shorter prefixes.
LEMMA AgreeCut ==
  ASSUME NEW l \in Seq(Entries), NEW m \in Seq(Entries), NEW i \in Nat, NEW k \in Nat, k <= i, Agree(l, m, i)
  PROVE  Agree(l, m, k)
  BY AgreeFacts

\* The answers a flush sends.
LEMMA AcknowledgeIs ==
  ASSUME TypeInv, NEW n \in Node, NEW io \in IOs
  PROVE  /\ Acknowledge(n, io) \in SUBSET [vote : Votes, from : Node, upto : Nat]
         /\ \A b \in acked : \E c \in Acknowledge(n, io) : c.vote = b.vote /\ c.from = b.from /\ c.upto >= b.upto
         /\ \A c \in Acknowledge(n, io) :
              c \in acked \/ (c.vote = io.vote /\ c.from = n /\ c.upto = io.last.at /\ io.last # NoLogId)
<1>. DEFINE old == {b \in acked : b.vote = io.vote /\ b.from = n}
            new == [vote |-> io.vote, from |-> n, upto |-> io.last.at]
<1>1. new \in [vote : Votes, from : Node, upto : Nat] /\ new.vote = io.vote /\ new.from = n
      /\ new.upto = io.last.at /\ io.last.at \in Nat
  BY DEF IOs, LogIds
<1>2. acked \in SUBSET [vote : Votes, from : Node, upto : Nat]
  BY DEF TypeInv
<1>3. CASE io.last = NoLogId \/ \E b \in old : b.upto >= io.last.at
  <2>1. Acknowledge(n, io) = acked
    BY <1>3 DEF Acknowledge
  <2>2. \A b \in acked : b.upto >= b.upto
    BY <1>2
  <2>. QED  BY <1>2, <2>1, <2>2
<1>4. CASE ~ (io.last = NoLogId \/ \E b \in old : b.upto >= io.last.at)
  <2>1. Acknowledge(n, io) = (acked \ old) \cup {new}
    BY <1>4 DEF Acknowledge
  <2>2. ASSUME NEW b \in acked
        PROVE  \E c \in Acknowledge(n, io) : c.vote = b.vote /\ c.from = b.from /\ c.upto >= b.upto
    <3>1. b.upto \in Nat
      BY <1>2
    <3>2. CASE b \in old
      <4>1. new \in Acknowledge(n, io) /\ b.vote = io.vote /\ b.from = n
        BY <2>1, <3>2
      <4>2. io.last.at >= b.upto
        BY <1>1, <1>4, <3>1, <3>2
      <4>. HIDE DEF new
      <4>. QED  BY <1>1, <4>1, <4>2
    <3>3. CASE b \notin old
      BY <2>1, <3>1, <3>3
    <3>. QED  BY <3>2, <3>3
  <2>3. Acknowledge(n, io) \in SUBSET [vote : Votes, from : Node, upto : Nat]
    BY <1>1, <1>2, <2>1
  <2>4. \A c \in Acknowledge(n, io) :
          c \in acked \/ (c.vote = io.vote /\ c.from = n /\ c.upto = io.last.at /\ io.last # NoLogId)
    BY <1>1, <1>4, <2>1
  <2>. QED  BY <2>2, <2>3, <2>4
<1>. QED  BY <1>3, <1>4

\* A leader that commits an entry chooses the log up to it.
LEMMA CommitChosen ==
  ASSUME SafeInv, NEW n \in Node, NEW i \in Nat, CommitStep(n, i)
  PROVE  /\ chosen' \in Seq(Entries) /\ Agree(chosen, chosen', Len(chosen))
         /\ chosen' = chosen \/ Len(chosen') = i
         /\ \E p \in sent : /\ p.vote = node[n].vote /\ p.log = node[n].log
                            /\ HasChosen(p, i) /\ Agree(chosen', p.log, i)
<1>. USE DEF SafeInv
<1>. DEFINE s == node[n]
            l == SubSeq(s.log, 1, i)
            k == Len(chosen)
<1>1. s \in NodeStates /\ s.log \in Seq(Entries) /\ Len(s.log) \in Nat /\ s.vote \in Votes /\ s.committed \in Nat
      /\ s.role = "leader" /\ i \in 1..Len(s.log) /\ s.log[i].id = LeaderId(s.vote)
      /\ chosen \in Seq(Entries) /\ k \in Nat
  BY NodeFacts DEF CommitStep, MayCommit, TypeInv
<1>2. PICK p \in sent : p.vote = s.vote /\ p.log = s.log
  BY <1>1 DEF NodeInv, NodeOK
<1>3. HasChosen(p, i)
  <2>1. HasQuorum(AckedUpto(s, i))
    BY DEF CommitStep, MayCommit
  <2>2. \A m \in Node : m \in AckedUpto(s, i) => m \in {x \in Node : HasAcked(x, p.vote, i)}
    BY <1>2 DEF AckedUpto, LeaderVoteMatches, HasAcked
  <2>3. HasQuorum({x \in Node : HasAcked(x, p.vote, i)})
    BY <2>1, <2>2, QuorumGrows
  <2>. QED  BY <1>1, <1>2, <2>3 DEF HasChosen
<1>4. l \in Seq(Entries) /\ Len(l) = i /\ Agree(l, s.log, i)
  BY <1>1, AgreeParts, ConstantTypes
<1>5. chosen' = IF IsPrefix(l, chosen) THEN chosen ELSE l
  <2>1. node'[n].log = s.log /\ node'[n].committed = i
    BY <1>1 DEF CommitStep, TryCommit, NodeStates
  <2>. QED  BY <2>1 DEF CommitStep, Choose
<1>. HIDE DEF l
<1>6. \E o \in Seq(Entries) : Agree(chosen, o, k) /\ Agree(l, o, i)
  <2>1. CASE chosen = <<>>
    <3>1. Agree(chosen, s.log, k)
      BY <1>1, <2>1 DEF Agree
    <3>. QED  BY <1>1, <1>4, <3>1
  <2>2. CASE chosen # <<>>
    <3>1. PICK x \in sent : HasChosen(x, k) /\ Agree(chosen, x.log, k)
      BY <2>2 DEF ChosenInv
    <3>2. x.vote \in Votes /\ x.log \in Seq(Entries)
      BY DEF TypeInv
    <3>3. CASE x.vote = p.vote
      <4>1. x = p
        BY <3>3 DEF SentInv
      <4>. QED  BY <1>1, <1>2, <1>4, <3>1, <4>1
    <3>4. CASE VoteLt(x.vote, p.vote)
      <4>1. Agree(x.log, p.log, k)
        BY <3>1, <3>4, ChosenOpen DEF CompleteInv, HasChosen
      <4>2. Agree(chosen, s.log, k)
        BY <1>1, <1>2, <3>1, <3>2, <4>1, AgreeFacts
      <4>. QED  BY <1>1, <1>4, <4>2
    <3>5. CASE VoteLt(p.vote, x.vote)
      <4>1. Agree(s.log, x.log, i)
        BY <1>1, <1>2, <1>3, <3>5, ChosenOpen DEF CompleteInv
      <4>2. Agree(l, x.log, i)
        BY <1>1, <1>4, <3>2, <4>1, AgreeTrans
      <4>. QED  BY <3>1, <3>2, <4>2
    <3>. QED  BY <1>1, <1>2, <3>2, <3>3, <3>4, <3>5, VoteOrder
  <2>. QED  BY <2>1, <2>2
<1>7. PICK o \in Seq(Entries) : Agree(chosen, o, k) /\ Agree(l, o, i)
  BY <1>6
<1>8. CASE i <= k
  <2>1. Agree(l, chosen, i)
    BY <1>1, <1>4, <1>7, <1>8, AgreeNested
  <2>2. chosen' = chosen
    BY <1>1, <1>4, <1>5, <2>1, PrefixAgree
  <2>3. Agree(chosen, s.log, i)
    BY <1>1, <1>4, <2>1, AgreeFacts
  <2>4. Agree(chosen, chosen, k)
    BY <1>1 DEF Agree
  <2>. QED  BY <1>1, <1>2, <1>3, <2>2, <2>3, <2>4
<1>9. CASE k < i
  <2>1. Agree(chosen, l, k)
    BY <1>1, <1>4, <1>7, <1>9, AgreeNested
  <2>2. chosen' = l
    <3>1. ~ IsPrefix(l, chosen)
      BY <1>1, <1>4, <1>9 DEF IsPrefix
    <3>. QED  BY <1>5, <3>1
  <2>. QED  BY <1>2, <1>3, <1>4, <2>1, <2>2
<1>. QED  BY <1>1, <1>8, <1>9

\* What a leader's step makes of what was sent.
LEMMA PublishedFacts ==
  ASSUME TypeInv, SentInv, NEW s, Published(s),
         \A p \in sent : p.vote = s.vote => Agree(p.log, s.log, Len(p.log))
  PROVE  /\ sent' \in SUBSET [vote : Votes, log : Seq(Entries), commit : Nat]
         /\ \A p \in sent : \E q \in sent' : q.vote = p.vote /\ Agree(p.log, q.log, Len(p.log))
         /\ \A p \in sent : p.vote # s.vote => p \in sent'
         /\ \A q \in sent' : q \in sent \/ (q.vote = s.vote /\ q.log = s.log)
         /\ \A q \in sent' : q \in sent \/ q.commit = s.committed
                              \/ \E p \in sent : p.vote = q.vote /\ p.commit = q.commit
         /\ \A p, q \in sent' : p.vote = q.vote => p = q
<1>1. PICK w \in sent' :
        /\ w \in [vote : Votes, log : Seq(Entries), commit : Nat]
        /\ w.vote = s.vote /\ w.log = s.log
        /\ w.commit = s.committed \/ \E p \in sent : p.vote = s.vote /\ w.commit = p.commit
        /\ sent' = {p \in sent : p.vote # s.vote} \cup {w}
  BY DEF Published
<1>2. sent' \in SUBSET [vote : Votes, log : Seq(Entries), commit : Nat]
  BY <1>1 DEF TypeInv
<1>3. ASSUME NEW p \in sent
      PROVE  \E q \in sent' : q.vote = p.vote /\ Agree(p.log, q.log, Len(p.log))
  <2>1. p.log \in Seq(Entries)
    BY DEF TypeInv
  <2>2. CASE p.vote = s.vote
    BY <1>1, <2>2
  <2>3. CASE p.vote # s.vote
    <3>1. Agree(p.log, p.log, Len(p.log))
      BY <2>1 DEF Agree
    <3>. QED  BY <1>1, <2>3, <3>1
  <2>. QED  BY <2>2, <2>3
<1>4. \A p \in sent : p.vote # s.vote => p \in sent'
  BY <1>1
<1>5. \A q \in sent' : q \in sent \/ q = w
  BY <1>1
<1>6. ASSUME NEW p \in sent', NEW q \in sent', p.vote = q.vote  PROVE p = q
  BY <1>1, <1>6 DEF SentInv
<1>. QED  BY <1>1, <1>2, <1>3, <1>4, <1>5, <1>6

\* A vote a node has is kept or gives way to a greater one, and only a node that
\* has seen no election forgets the one it was initialized with.
LEMMA StepVotes ==
  ASSUME SafeInv, Step
  PROVE  /\ node' \in [Node -> NodeStates]
         /\ \A m \in Node : \/ node'[m].vote = node[m].vote
                            \/ VoteLt(node[m].vote, node'[m].vote)
                            \/ node[m].vote.term = 0
<1>. USE DEF SafeInv
<1>. DEFINE Rises(m) == \/ node'[m].vote = node[m].vote
                        \/ VoteLt(node[m].vote, node'[m].vote)
                        \/ node[m].vote.term = 0
<1>1. CASE Still
  BY <1>1 DEF Still, TypeInv
<1>2. ASSUME NEW n \in Node, Others(n), Rises(n)
      PROVE  node' \in [Node -> NodeStates] /\ \A m \in Node : Rises(m)
  BY <1>2 DEF Others
<1>3. ASSUME NEW n \in Node, InitializeStep(n)  PROVE Others(n) /\ Rises(n)
  BY <1>3 DEF InitializeStep
<1>4. ASSUME NEW n \in Node, FlushStep(n)  PROVE Others(n) /\ Rises(n)
  BY <1>4, NodeFacts DEF FlushStep, NodeStates
<1>5. ASSUME NEW n \in Node, ResumeStep(n)  PROVE Others(n) /\ Rises(n)
  BY <1>5 DEF ResumeStep
<1>6. ASSUME NEW n \in Node, NEW v \in Votes, AdoptStep(n, v)  PROVE Others(n) /\ Rises(n)
  <2>1. Others(n) /\ node'[n].vote = v /\ ~ VoteLt(v, node[n].vote)
    BY <1>6 DEF AdoptStep, IsAdopted
  <2>. QED  BY <2>1, NodeFacts, VoteOrder
<1>7. ASSUME NEW n \in Node, NEW v \in Votes, ElectStep(n, v)  PROVE Others(n) /\ Rises(n)
  <2>1. Others(n) /\ node'[n].vote = v /\ v.term = node[n].vote.term + 1
    BY <1>7 DEF ElectStep, IsAdopted, NewVote
  <2>2. VoteLt(node[n].vote, v)
    BY <2>1, NodeFacts, VoteLtMeans DEF Votes
  <2>. QED  BY <2>1, <2>2
<1>8. ASSUME NEW n \in Node, NEW e \in Entries, WinStep(n, e)  PROVE Others(n) /\ Rises(n)
  <2>1. Others(n) /\ node'[n].vote = [node[n].vote EXCEPT !.done = TRUE] /\ node[n].role = "candidate"
    BY <1>8 DEF WinStep, GrowStep
  <2>2. ~ node[n].vote.done /\ node[n].vote \in Votes
    BY <2>1, NodeFacts DEF NodeInv, NodeOK
  <2>3. node'[n].vote \in Votes
    BY <2>1, <2>2 DEF Votes
  <2>4. VoteLt(node[n].vote, node'[n].vote)
    BY <2>1, <2>2, <2>3, VoteLtMeans DEF Votes
  <2>. QED  BY <2>1, <2>4
<1>9. ASSUME NEW n \in Node, NEW e \in Entries, WriteStep(n, e)  PROVE Others(n) /\ Rises(n)
  BY <1>9 DEF WriteStep, GrowStep
<1>10. ASSUME NEW n \in Node, NEW p \in sent, FollowStep(n, p)  PROVE Others(n) /\ Rises(n)
  <2>1. Others(n) /\ (node'[n].vote = node[n].vote \/ (node'[n].vote = p.vote /\ ~ VoteLt(p.vote, node[n].vote)))
    <3>0. Others(n)
      BY <1>10 DEF FollowStep
    <3>1. PICK s \in NodeStates :
            /\ \/ VoteLt(p.vote, node[n].vote) /\ s = node[n]
               \/ /\ ~ VoteLt(p.vote, node[n].vote)
                  /\ \E u \in NodeStates : /\ IsAdopted(node[n], u, p.vote) /\ u.role = "follower"
                                           /\ IsReplicated(u, s, p.log, p.vote)
            /\ node'[n] = UpdateCommitted(s, [vote |-> p.vote, last |-> EntryId(p.log, p.commit)])
      BY <1>10 DEF FollowStep
    <3>2. node'[n].vote = s.vote
      BY <3>1 DEF UpdateCommitted, NodeStates
    <3>. QED  BY <3>0, <3>1, <3>2 DEF IsAdopted, IsReplicated
  <2>2. p.vote \in Votes
    BY DEF TypeInv
  <2>. QED  BY <2>1, <2>2, NodeFacts, VoteOrder
<1>11. ASSUME NEW n \in Node, NEW i \in Nat, CommitStep(n, i)  PROVE Others(n) /\ Rises(n)
  BY <1>11, NodeFacts DEF CommitStep, TryCommit, NodeStates
<1>12. ASSUME NEW n \in Node, NEW l \in Seq(Entries), RestartStep(n, l)  PROVE Others(n) /\ Rises(n)
  <2>1. node[n].vote.term # 0 => node'[n].vote = node[n].vote
    BY <1>12, NodeFacts DEF RestartStep, Restarted, NodeStates
  <2>. QED  BY <1>12, <2>1 DEF RestartStep
<1>. QED
  BY <1>1, <1>2, <1>3, <1>4, <1>5, <1>6, <1>7, <1>8, <1>9, <1>10, <1>11, <1>12 DEF Step

\* A leader's log after its step continues the log it has sent.
LEMMA LeaderGrows ==
  ASSUME SafeInv, NEW n \in Node,
         \/ \E e \in Entries : WinStep(n, e) \/ WriteStep(n, e)
         \/ \E i \in Nat : CommitStep(n, i)
         \/ ResumeStep(n)
  PROVE  /\ Published(node'[n]) /\ node'[n].vote \in Votes
         /\ node'[n].vote.term > 0 /\ node'[n].vote.done /\ node'[n].vote.node = n
         /\ node'[n].log \in Seq(Entries) /\ Agree(node[n].log, node'[n].log, Len(node[n].log))
         /\ \A p \in sent : p.vote = node'[n].vote =>
              p.log = node[n].log /\ Agree(p.log, node'[n].log, Len(p.log))
<1>. USE DEF SafeInv
<1>0. node[n] \in NodeStates /\ node[n].vote \in Votes /\ node[n].log \in Seq(Entries)
  BY NodeFacts
<1>1. ASSUME NEW e \in Entries, WinStep(n, e)
      PROVE  /\ Published(node'[n]) /\ node'[n].vote.term > 0 /\ node'[n].vote.done /\ node'[n].vote.node = n
             /\ node'[n].log = Append(node[n].log, e)
             /\ \A p \in sent : p.vote # node'[n].vote
  <2>1. Published(node'[n]) /\ node'[n].log = Append(node[n].log, e) /\ node[n].role = "candidate"
        /\ node'[n].vote = [node[n].vote EXCEPT !.done = TRUE]
    BY <1>1 DEF WinStep, GrowStep
  <2>2. node[n].vote.node = n /\ ~ node[n].vote.done /\ node[n].vote.term > 0
    BY <2>1 DEF NodeInv, NodeOK
  <2>3. node'[n].vote.term > 0 /\ node'[n].vote.done /\ node'[n].vote.node = n /\ node'[n].vote \in Votes
        /\ VoteLt(node[n].vote, node'[n].vote)
    <3>1. node'[n].vote.term = node[n].vote.term /\ node'[n].vote.done /\ node'[n].vote.node = n /\ node'[n].vote \in Votes
      BY <1>0, <2>1, <2>2 DEF Votes
    <3>. QED  BY <1>0, <2>2, <3>1, VoteLtMeans
  <2>4. ASSUME NEW p \in sent, p.vote = node'[n].vote  PROVE FALSE
    <3>1. Known(p.vote)
      BY DEF SentInv
    <3>. QED  BY <2>3, <2>4, <3>1 DEF Known
  <2>. QED  BY <2>1, <2>3, <2>4
<1>2. ASSUME NEW e \in Entries, WriteStep(n, e)
      PROVE  /\ Published(node'[n]) /\ node[n].role = "leader" /\ node'[n].vote = node[n].vote
             /\ node'[n].log = Append(node[n].log, e)
  BY <1>2 DEF WriteStep, GrowStep
<1>3. ASSUME NEW i \in Nat, CommitStep(n, i)
      PROVE  /\ Published(node'[n]) /\ node[n].role = "leader" /\ node'[n].vote = node[n].vote
             /\ node'[n].log = node[n].log
  BY <1>0, <1>3 DEF CommitStep, TryCommit, NodeStates
<1>4. ASSUME ResumeStep(n)
      PROVE  /\ Published(node'[n]) /\ node[n].role = "leader" /\ node'[n].vote = node[n].vote
             /\ node'[n].log = node[n].log
  BY <1>4 DEF ResumeStep
<1>5. node[n].role = "leader" =>
        /\ node[n].vote.term > 0 /\ node[n].vote.done /\ node[n].vote.node = n
        /\ \A p \in sent : p.vote = node[n].vote => p.log = node[n].log
  BY LeaderLog DEF NodeInv, NodeOK
<1>6. ASSUME NEW l, l = node[n].log \/ \E e \in Entries : l = Append(node[n].log, e)
      PROVE  l \in Seq(Entries) /\ Agree(node[n].log, l, Len(node[n].log))
  <2>1. CASE l = node[n].log
    BY <1>0, <2>1 DEF Agree
  <2>2. ASSUME NEW e \in Entries, l = Append(node[n].log, e)
        PROVE  l \in Seq(Entries) /\ Agree(node[n].log, l, Len(node[n].log))
    BY <1>0, <2>2 DEF Agree
  <2>. QED  BY <1>6, <2>1, <2>2
<1>7. node'[n].log \in Seq(Entries) /\ Agree(node[n].log, node'[n].log, Len(node[n].log))
  BY <1>1, <1>2, <1>3, <1>4, <1>6
<1>8. node'[n].vote \in Votes
  BY <1>1, <1>2, <1>3, <1>4 DEF Published
<1>9. CASE \E e \in Entries : WinStep(n, e)
  BY <1>1, <1>7, <1>8, <1>9
<1>10. CASE \/ \E e \in Entries : WriteStep(n, e)
            \/ \E i \in Nat : CommitStep(n, i)
            \/ ResumeStep(n)
  BY <1>2, <1>3, <1>4, <1>5, <1>7, <1>8, <1>10
<1>. QED  BY <1>9, <1>10

\* The other steps send nothing new.
LEMMA SentSame ==
  ASSUME Step
  PROVE  \/ sent' = sent
         \/ \E n \in Node : \/ \E e \in Entries : WinStep(n, e) \/ WriteStep(n, e)
                            \/ \E i \in Nat : CommitStep(n, i)
                            \/ ResumeStep(n)
  BY DEF Step, Still, InitializeStep, FlushStep, AdoptStep, ElectStep, FollowStep, RestartStep

\* Only a flush acknowledges.
LEMMA AckedSame ==
  ASSUME Step
  PROVE  acked' = acked \/ \E n \in Node : FlushStep(n)
  BY ZenonT(60) DEF Step, Still, InitializeStep, AdoptStep, ElectStep, FollowStep, RestartStep,
     ResumeStep, CommitStep, WinStep, WriteStep, GrowStep

\* Only a leader that commits chooses.
LEMMA ChosenSame ==
  ASSUME Step
  PROVE  chosen' = chosen \/ \E n \in Node : \E i \in Nat : CommitStep(n, i)
  BY ZenonT(60) DEF Step, Still, InitializeStep, AdoptStep, ElectStep, FollowStep, RestartStep,
     ResumeStep, FlushStep, WinStep, WriteStep, GrowStep

\* Who asks, and who grants.
LEMMA AskedSame ==
  ASSUME Step
  PROVE  \/ asked' = asked /\ granted' = granted
         \/ \E n \in Node, v \in Votes : AdoptStep(n, v) \/ ElectStep(n, v)
  BY ZenonT(60) DEF Step, Still, InitializeStep, FollowStep, RestartStep, ResumeStep, CommitStep,
     FlushStep, WinStep, WriteStep, GrowStep

\* Every step keeps the types.
LEMMA StepTypes ==
  ASSUME SafeInv, ReadVotes, Next, Step
  PROVE  TypeInv'
<1>. USE DEF SafeInv
<1>1. node' \in [Node -> NodeStates]
  BY StepVotes
<1>2. left' \in BudgetSet /\ read' \in [Reader -> Reads]
  BY LeftType, ReadType
<1>3. asked' \in SUBSET [vote : Votes, last : LogIds] /\ granted' \in SUBSET [vote : Votes, from : Node]
  <2>1. CASE asked' = asked /\ granted' = granted
    BY <2>1 DEF TypeInv
  <2>2. ASSUME NEW n \in Node, NEW v \in Votes, AdoptStep(n, v)
        PROVE  asked' \in SUBSET [vote : Votes, last : LogIds] /\ granted' \in SUBSET [vote : Votes, from : Node]
    BY <2>2 DEF AdoptStep, TypeInv
  <2>3. ASSUME NEW n \in Node, NEW v \in Votes, ElectStep(n, v)
        PROVE  asked' \in SUBSET [vote : Votes, last : LogIds] /\ granted' \in SUBSET [vote : Votes, from : Node]
    <3>1. LastId(node[n].log) \in LogIds
      <4>1. node[n].log \in Seq(Entries) /\ Len(node[n].log) \in Nat
        BY NodeFacts
      <4>2. CASE Len(node[n].log) = 0
        BY <4>2, ConstantTypes DEF LastId, EntryId
      <4>3. CASE Len(node[n].log) # 0
        <5>1. node[n].log[Len(node[n].log)] \in Entries
          BY <4>1, <4>3
        <5>. QED  BY <4>1, <4>3, <5>1 DEF LastId, EntryId, LogIds, Entries
      <4>. QED  BY <4>2, <4>3
    <3>. QED  BY <2>3, <3>1 DEF ElectStep, TypeInv
  <2>. QED  BY <2>1, <2>2, <2>3, AskedSame
<1>4. sent' \in SUBSET [vote : Votes, log : Seq(Entries), commit : Nat]
  <2>1. CASE sent' = sent
    BY <2>1 DEF TypeInv
  <2>2. ASSUME NEW n \in Node, \/ \E e \in Entries : WinStep(n, e) \/ WriteStep(n, e)
                               \/ \E i \in Nat : CommitStep(n, i)
                               \/ ResumeStep(n)
        PROVE  sent' \in SUBSET [vote : Votes, log : Seq(Entries), commit : Nat]
    <3>1. /\ Published(node'[n])
          /\ \A p \in sent : p.vote = node'[n].vote => Agree(p.log, node'[n].log, Len(p.log))
      BY <2>2, LeaderGrows
    <3>. QED  BY <3>1, PublishedFacts
  <2>. QED  BY <2>1, <2>2, SentSame
<1>5. acked' \in SUBSET [vote : Votes, from : Node, upto : Nat]
  <2>1. CASE acked' = acked
    BY <2>1 DEF TypeInv
  <2>2. ASSUME NEW n \in Node, FlushStep(n)  PROVE acked' \in SUBSET [vote : Votes, from : Node, upto : Nat]
    BY <2>2, AcknowledgeIs, NodeFacts DEF FlushStep
  <2>. QED  BY <2>1, <2>2, AckedSame
<1>6. chosen' \in Seq(Entries)
  BY ChosenSame, CommitChosen DEF TypeInv
<1>. QED  BY <1>1, <1>2, <1>3, <1>4, <1>5, <1>6 DEF TypeInv

\* Every step keeps what Mono says.
LEMMA StepMono ==
  ASSUME SafeInv, TypeInv', Step
  PROVE  Mono
<1>. USE DEF SafeInv
<1>1. ASSUME NEW n \in Node, NEW v \in Votes, v.term > 0, ~ VoteLt(node[n].vote, v)
      PROVE  ~ VoteLt(node[n].vote', v)
  <2>1. node'[n].vote \in Votes /\ node[n].vote \in Votes
    BY NodeFacts DEF TypeInv, NodeStates
  <2>2. node[n].vote.term # 0
    BY <1>1, <2>1, VoteLtMeans DEF Votes
  <2>3. node'[n].vote = node[n].vote \/ VoteLt(node[n].vote, node'[n].vote)
    BY <2>2, StepVotes
  <2>. QED  BY <1>1, <2>1, <2>3, VoteOrder
<1>2. ASSUME NEW p \in sent  PROVE \E q \in sent' : q.vote = p.vote /\ Agree(p.log, q.log, Len(p.log))
  <2>1. CASE sent' = sent
    <3>1. p.log \in Seq(Entries)
      BY DEF TypeInv
    <3>2. Agree(p.log, p.log, Len(p.log))
      BY <3>1 DEF Agree
    <3>. QED  BY <2>1, <3>2
  <2>2. ASSUME NEW n \in Node, \/ \E e \in Entries : WinStep(n, e) \/ WriteStep(n, e)
                               \/ \E i \in Nat : CommitStep(n, i)
                               \/ ResumeStep(n)
        PROVE  \E q \in sent' : q.vote = p.vote /\ Agree(p.log, q.log, Len(p.log))
    <3>1. /\ Published(node'[n])
          /\ \A x \in sent : x.vote = node'[n].vote => Agree(x.log, node'[n].log, Len(x.log))
      BY <2>2, LeaderGrows
    <3>. QED  BY <3>1, PublishedFacts
  <2>. QED  BY <2>1, <2>2, SentSame
<1>3. asked \subseteq asked' /\ granted \subseteq granted'
  BY AskedSame DEF AdoptStep, ElectStep
<1>4. ASSUME NEW m \in Node, NEW v \in Votes, NEW i \in Nat
      PROVE  /\ HasAcked(m, v, i) => HasAcked(m, v, i)'
             /\ HasAcked(m, v, i)' => HasAcked(m, v, i) \/ ~ VoteLt(v, node[m].vote)
  <2>1. CASE acked' = acked
    BY <2>1 DEF HasAcked
  <2>2. ASSUME NEW n \in Node, FlushStep(n)
        PROVE  /\ HasAcked(m, v, i) => HasAcked(m, v, i)'
               /\ HasAcked(m, v, i)' => HasAcked(m, v, i) \/ ~ VoteLt(v, node[m].vote)
    <3>1. acked' = Acknowledge(n, node[n].accepted) /\ node[n].accepted \in IOs
      BY <2>2, NodeFacts DEF FlushStep
    <3>2. /\ \A b \in acked : \E c \in acked' : c.vote = b.vote /\ c.from = b.from /\ c.upto >= b.upto
          /\ \A c \in acked' : c \in acked \/ (c.vote = node[n].accepted.vote /\ c.from = n /\ node[n].accepted.last # NoLogId)
      BY <3>1, AcknowledgeIs
    <3>3. HasAcked(m, v, i) => HasAcked(m, v, i)'
      BY <3>2 DEF HasAcked, TypeInv
    <3>4. node[n].accepted.last # NoLogId => ~ VoteLt(node[n].accepted.vote, node[n].vote)
      <4>1. Accepts(node[n]) /\ node[n].vote \in Votes
        BY NodeFacts
      <4>. QED  BY <4>1, VoteOrder, ConstantTypes DEF Accepts
    <3>. QED  BY <3>2, <3>3, <3>4 DEF HasAcked
  <2>. QED  BY <2>1, <2>2, AckedSame
<1>5. Agree(chosen, chosen', Len(chosen))
  <2>1. Agree(chosen, chosen, Len(chosen))
    BY DEF TypeInv, Agree
  <2>. QED  BY <2>1, ChosenSame, CommitChosen
<1>. QED  BY <1>1, <1>2, <1>3, <1>4, <1>5 DEF Mono

----------------------------------------------------------------------------
(* The fields of the node that takes a step.                                *)

\* What an initialized node becomes.
LEMMA InitializeFields ==
  ASSUME TypeInv, NEW n \in Node, InitializeStep(n)
  PROVE  LET s == node[n]  t == node'[n]
         IN  /\ t.vote \in Votes /\ t.vote.term = 0 /\ t.vote.node = n /\ t.log = <<InitialEntry>>
             /\ t.disk = s.disk /\ t.committed = s.committed /\ t.accepted = s.accepted
             /\ t.cluster = s.cluster /\ t.role = s.role /\ t.noop = s.noop
<1>. DEFINE v == [NewVote(0, n) EXCEPT !.done = TRUE]
<1>1. v \in Votes /\ v.term = 0 /\ v.node = n
  BY ClusterAssumption DEF NewVote, Votes
<1>. HIDE DEF v
<1>2. node[n] \in NodeStates /\ node'[n] = [node[n] EXCEPT !.vote = v, !.log = <<InitialEntry>>]
  BY DEF InitializeStep, TypeInv, v
<1>. QED  BY <1>1, <1>2 DEF NodeStates

\* A flush changes the disk only.
LEMMA FlushFields ==
  ASSUME TypeInv, NEW n \in Node, FlushStep(n)
  PROVE  LET s == node[n]  t == node'[n]
         IN  /\ t.vote = s.vote /\ t.log = s.log /\ t.disk = s.log
             /\ t.committed = s.committed /\ t.accepted = s.accepted
             /\ t.cluster = s.cluster /\ t.role = s.role /\ t.noop = s.noop
<1>1. node[n] \in NodeStates /\ node'[n] = [node[n] EXCEPT !.disk = node[n].log]
  BY DEF FlushStep, TypeInv
<1>. QED  BY <1>1 DEF NodeStates

\* A commit changes the commit index only.
LEMMA CommitFields ==
  ASSUME TypeInv, NEW n \in Node, NEW i, CommitStep(n, i)
  PROVE  LET s == node[n]  t == node'[n]
         IN  /\ t.vote = s.vote /\ t.log = s.log /\ t.disk = s.disk
             /\ t.committed = i /\ t.accepted = s.accepted
             /\ t.cluster = [vote |-> s.vote, last |-> EntryId(s.log, i)]
             /\ t.role = s.role /\ t.noop = s.noop
<1>. DEFINE c == [vote |-> node[n].vote, last |-> EntryId(node[n].log, i)]
<1>1. node[n] \in NodeStates /\ node'[n] = [node[n] EXCEPT !.committed = i, !.cluster = c]
  BY DEF CommitStep, TryCommit, TypeInv
<1>. HIDE DEF c
<1>2. /\ node'[n].vote = node[n].vote /\ node'[n].log = node[n].log /\ node'[n].disk = node[n].disk
      /\ node'[n].committed = i /\ node'[n].accepted = node[n].accepted
      /\ node'[n].cluster = c /\ node'[n].role = node[n].role /\ node'[n].noop = node[n].noop
  BY <1>1 DEF NodeStates
<1>. QED  BY <1>2 DEF c

\* A restart forgets what was committed and accepted.
LEMMA RestartFields ==
  ASSUME TypeInv, NEW n \in Node, NEW l, RestartStep(n, l)
  PROVE  LET s == node[n]  t == node'[n]
         IN  /\ t.vote = (IF s.vote.term = 0 THEN NoVote ELSE s.vote)
             /\ t.log = l /\ t.disk = l /\ t.committed = 0
             /\ t.accepted = [vote |-> t.vote, last |-> NoLogId]
             /\ t.cluster = NoIO /\ t.role = "follower" /\ t.noop = 0
<1>. DEFINE v == IF node[n].vote.term = 0 THEN NoVote ELSE node[n].vote
            a == [vote |-> v, last |-> NoLogId]
<1>1. node[n] \in NodeStates
      /\ node'[n] = [node[n] EXCEPT !.vote = v, !.log = l, !.disk = l, !.committed = 0, !.accepted = a,
                                    !.cluster = NoIO, !.role = "follower", !.noop = 0]
  BY DEF RestartStep, Restarted, TypeInv
<1>. HIDE DEF a, v
<1>2. /\ node'[n].vote = v /\ node'[n].log = l /\ node'[n].disk = l
      /\ node'[n].committed = 0 /\ node'[n].accepted = a
      /\ node'[n].cluster = NoIO /\ node'[n].role = "follower" /\ node'[n].noop = 0
  BY <1>1 DEF NodeStates
<1>. QED  BY <1>2 DEF a, v

\* t is s, the node's record, after a request of the leader with record p came too
\* late, or in time.
Late(s, t, p) ==
  /\ VoteLt(p.vote, s.vote)
  /\ t.vote = s.vote /\ t.log = s.log /\ t.disk = s.disk /\ t.accepted = s.accepted
  /\ t.role = s.role /\ t.noop = s.noop
InTime(s, t, p) ==
  /\ ~ VoteLt(p.vote, s.vote)
  /\ t.vote = p.vote /\ t.role = "follower"
  /\ t.disk = (IF VoteLt(s.vote, p.vote) THEN s.log ELSE s.disk)
  /\ \A i \in 1..Len(t.log) : Agree(t.log, s.log, i) \/ Agree(t.log, p.log, i)
  /\ \A i \in 1..Len(p.log) : Agree(s.log, p.log, i) => Agree(t.log, p.log, i)
  /\ \/ t.accepted = AcceptedUnder(s, p.vote)
     \/ \E j \in 1..Len(p.log) : /\ t.accepted = [vote |-> p.vote, last |-> EntryId(p.log, j)]
                                 /\ Agree(t.log, p.log, j)

\* A request comes too late and changes only what is known to be committed, or in time.
LEMMA FollowFields ==
  ASSUME TypeInv, NEW n \in Node, NEW p \in sent, FollowStep(n, p)
  PROVE  LET s == node[n]  t == node'[n]
             io == [vote |-> p.vote, last |-> EntryId(p.log, p.commit)]
             local == LocalCommitted(t, t.cluster)
         IN  /\ Late(s, t, p) \/ InTime(s, t, p)
             /\ t.cluster = io \/ t.cluster = s.cluster
             /\ t.committed = IF LogLt(EntryId(t.log, s.committed), local) THEN local.at ELSE s.committed
<1>. DEFINE io == [vote |-> p.vote, last |-> EntryId(p.log, p.commit)]
            s == node[n]
            t == node'[n]
<1>1. PICK x \in NodeStates :
        /\ \/ VoteLt(p.vote, s.vote) /\ x = s
           \/ /\ ~ VoteLt(p.vote, s.vote)
              /\ \E u \in NodeStates : /\ IsAdopted(s, u, p.vote) /\ u.role = "follower"
                                       /\ IsReplicated(u, x, p.log, p.vote)
        /\ t = UpdateCommitted(x, io)
  BY DEF FollowStep
<1>2. s \in NodeStates
  BY DEF TypeInv
<1>. DEFINE c == IF IOLt(x.cluster, io) THEN io ELSE x.cluster
            loc == LocalCommitted(x, c)
            k == IF LogLt(EntryId(x.log, x.committed), loc) THEN loc.at ELSE x.committed
<1>3. t = [x EXCEPT !.cluster = c, !.committed = k]
  BY <1>1 DEF UpdateCommitted, NodeStates
<1>. HIDE DEF c, k
<1>4. /\ t.vote = x.vote /\ t.log = x.log /\ t.disk = x.disk /\ t.accepted = x.accepted
      /\ t.role = x.role /\ t.noop = x.noop /\ t.cluster = c /\ t.committed = k
  BY <1>3 DEF NodeStates
<1>. HIDE DEF t, s, io
<1>5. loc = LocalCommitted(t, t.cluster)
  BY <1>4 DEF LocalCommitted
<1>6. CASE VoteLt(p.vote, s.vote) /\ x = s
  <2>1. Late(s, t, p)
    BY <1>4, <1>6 DEF Late
  <2>. QED  BY <1>4, <1>5, <1>6, <2>1 DEF c, k, t, s, io
<1>7. CASE ~ VoteLt(p.vote, s.vote) /\ \E u \in NodeStates : /\ IsAdopted(s, u, p.vote) /\ u.role = "follower"
                                                             /\ IsReplicated(u, x, p.log, p.vote)
  <2>1. PICK u \in NodeStates : /\ IsAdopted(s, u, p.vote) /\ u.role = "follower"
                                /\ IsReplicated(u, x, p.log, p.vote)
    BY <1>7
  <2>2. /\ u.log = s.log /\ u.committed = s.committed /\ u.cluster = s.cluster
        /\ u.vote = p.vote /\ u.disk = (IF VoteLt(s.vote, p.vote) THEN s.log ELSE s.disk)
        /\ u.accepted = AcceptedUnder(s, p.vote)
    BY <2>1 DEF IsAdopted, SameLog
  <2>3. x.committed = s.committed /\ x.cluster = s.cluster
    BY <2>1, <2>2 DEF IsReplicated
  <2>4. InTime(s, t, p)
    BY <1>4, <1>7, <2>1, <2>2 DEF InTime, IsReplicated
  <2>. QED  BY <1>4, <1>5, <2>3, <2>4 DEF c, k, t, s, io
<1>. QED  BY <1>1, <1>6, <1>7

----------------------------------------------------------------------------
(* Each part of the invariant is kept.                                      *)

\* Leaders that take no step keep what they had to send.
LEMMA SentKept ==
  ASSUME SafeInv, Step, NEW p \in sent, NEW m \in Node, p.vote.node = m, node'[m] = node[m],
         node[m].role = "leader", node[m].vote = p.vote
  PROVE  \E q \in sent' : q.vote = p.vote /\ q.log = p.log
<1>. USE DEF SafeInv
<1>1. CASE sent' = sent
  BY <1>1
<1>2. ASSUME NEW n \in Node, \/ \E e \in Entries : WinStep(n, e) \/ WriteStep(n, e)
                             \/ \E i \in Nat : CommitStep(n, i)
                             \/ ResumeStep(n)
      PROVE  \E q \in sent' : q.vote = p.vote /\ q.log = p.log
  <2>1. /\ Published(node'[n]) /\ node'[n].vote.node = n
        /\ \A x \in sent : x.vote = node'[n].vote => x.log = node[n].log /\ Agree(x.log, node'[n].log, Len(x.log))
    BY <1>2, LeaderGrows
  <2>2. CASE p.vote # node'[n].vote
    BY <2>1, <2>2, PublishedFacts
  <2>3. CASE p.vote = node'[n].vote
    <3>1. n = m /\ node'[n].log = node[n].log /\ p.log = node[n].log
      BY <2>1, <2>3
    <3>. QED  BY <2>1, <2>3, <3>1 DEF Published
  <2>. QED  BY <2>2, <2>3
<1>. QED  BY <1>1, <1>2, SentSame

\* The node that takes no step.
LEMMA NodeKept ==
  ASSUME SafeInv, Mono, Step, NEW m \in Node, node'[m] = node[m]
  PROVE  NodeOK(m)'
<1>. USE DEF SafeInv
<1>. DEFINE s == node[m]
<1>1. NodeOK(m) /\ s.vote \in Votes /\ s.cluster.vote \in Votes
  BY NodeFacts DEF NodeInv
<1>2. KnownNext(s.vote) /\ LedNext(s.vote) /\ LedNext(s.cluster.vote)
  BY <1>1, MonoVotes DEF NodeOK
<1>3. s.role = "leader" => \E p \in sent' : p.vote = s.vote /\ p.log = s.log
  BY <1>1, SentKept DEF NodeOK
<1>4. s.role = "candidate" => \E q \in asked' : q.vote = s.vote /\ q.last = LastId(s.log)
  BY <1>1 DEF NodeOK, Mono
<1>. QED  BY <1>1, <1>2, <1>3, <1>4 DEF NodeOK, KnownNext, LedNext, Known, Led

\* NodeInv is kept.
LEMMA NodeInvKept ==
  ASSUME SafeInv, Mono, Step
  PROVE  NodeInv'
<1>. USE DEF SafeInv
<1>0. ASSUME NEW n \in Node, Others(n), NodeOK(n)'  PROVE NodeInv'
  BY <1>0, NodeKept DEF Others, NodeInv
<1>1. CASE Still
  BY <1>1, NodeKept DEF Still, NodeInv
<1>2. ASSUME NEW n \in Node
      PROVE  /\ NodeOK(n) /\ node[n].vote \in Votes /\ node[n].cluster.vote \in Votes
             /\ node[n].log \in Seq(Entries) /\ Len(node[n].log) \in Nat /\ n \in Nat \ {0}
             /\ KnownNext(node[n].vote) /\ LedNext(node[n].vote) /\ LedNext(node[n].cluster.vote)
  <2>1. NodeOK(n) /\ node[n].vote \in Votes /\ node[n].cluster.vote \in Votes
    BY NodeFacts DEF NodeInv
  <2>. QED  BY <2>1, MonoVotes, NodeFacts, ClusterAssumption DEF NodeOK
<1>3. ASSUME NEW n \in Node, InitializeStep(n)  PROVE NodeInv'
  <2>. DEFINE s == node[n]  t == node'[n]
  <2>1. /\ t.vote \in Votes /\ t.vote.term = 0 /\ t.vote.node = n
        /\ t.accepted = s.accepted /\ t.cluster = s.cluster /\ t.role = s.role /\ s.vote.term = 0
    BY <1>3, InitializeFields DEF InitializeStep
  <2>2. s.cluster = NoIO /\ s.role = "follower"
    <3>1. ~ VoteLt(s.vote, s.cluster.vote)
      BY <1>2 DEF NodeOK
    <3>2. s.cluster.vote.term = 0
      BY <1>2, <2>1, <3>1, VoteLtMeans DEF Votes
    <3>3. s.role \in {"follower", "candidate", "leader"}
      BY DEF TypeInv, NodeStates
    <3>. QED  BY <1>2, <2>1, <3>2, <3>3 DEF NodeOK
  <2>3. ~ VoteLt(t.vote, NoVote)
    BY <1>2, <2>1, VoteLtMeans, ConstantTypes
  <2>4. NodeOK(n)'
    BY <1>2, <2>1, <2>2, <2>3, ConstantTypes DEF NodeOK, Known, Led
  <2>. QED  BY <1>0, <1>3, <2>4 DEF InitializeStep
<1>4. ASSUME NEW n \in Node, FlushStep(n)  PROVE NodeInv'
  <2>. DEFINE s == node[n]  t == node'[n]
  <2>1. /\ t.vote = s.vote /\ t.log = s.log /\ t.accepted = s.accepted
        /\ t.cluster = s.cluster /\ t.role = s.role /\ t.noop = s.noop
        /\ Others(n) /\ asked' = asked /\ sent' = sent
    BY <1>4, FlushFields DEF FlushStep
  <2>2. NodeOK(n)'
    BY <1>2, <2>1 DEF NodeOK, Known, Led, KnownNext, LedNext
  <2>. QED  BY <1>0, <2>1, <2>2
<1>5. ASSUME NEW n \in Node, ResumeStep(n)  PROVE NodeInv'
  <2>. DEFINE s == node[n]  t == node'[n]
  <2>1. /\ Others(n) /\ s.role = "leader" /\ t.vote = s.vote /\ t.log = s.log
        /\ t.cluster = NoIO /\ t.role = "leader" /\ t.accepted = [vote |-> s.vote, last |-> LastId(s.log)]
        /\ t.noop \in OwnEntries(s)
    BY <1>5 DEF ResumeStep
  <2>2. \E p \in sent' : p.vote = s.vote /\ p.log = s.log
    BY <1>5, <2>1 DEF ResumeStep, Published
  <2>3. t.noop \in 1..Len(s.log) /\ s.log[t.noop].id = LeaderId(s.vote)
    BY <2>1 DEF OwnEntries
  <2>4. ~ VoteLt(s.vote, NoVote)
    BY <1>2, <2>1, VoteLtMeans, ConstantTypes DEF NodeOK, Votes
  <2>5. NodeOK(n)'
    BY <1>2, <2>1, <2>2, <2>3, <2>4, ConstantTypes DEF NodeOK, Known, Led, KnownNext, LedNext
  <2>. QED  BY <1>0, <2>1, <2>5
<1>6. ASSUME NEW n \in Node, NEW v \in Votes, AdoptStep(n, v)  PROVE NodeInv'
  <2>. DEFINE s == node[n]  t == node'[n]
  <2>1. /\ Others(n) /\ v.term > 0 /\ v.node # n /\ ~ VoteLt(v, s.vote)
        /\ KnownNext(v) /\ LedNext(v) /\ t.vote = v /\ t.cluster = s.cluster
        /\ t.accepted = AcceptedUnder(s, v) /\ t.role = "follower"
    BY <1>6, MonoVotes DEF AdoptStep, IsAdopted, SameLog
  <2>2. /\ t.accepted.vote = v
        /\ ~ t.accepted.vote.done => t.accepted.last = NoLogId
    <3>1. CASE VoteLt(s.vote, v)
      BY <2>1, <3>1 DEF AcceptedUnder
    <3>2. CASE ~ VoteLt(s.vote, v)
      <4>1. s.vote = v /\ t.accepted = s.accepted
        BY <1>2, <2>1, <3>2, VoteOrder DEF AcceptedUnder
      <4>. QED  BY <1>2, <2>1, <4>1 DEF NodeOK
    <3>. QED  BY <3>1, <3>2
  <2>3. ~ VoteLt(v, s.cluster.vote)
    BY <1>2, <2>1, VoteOrder DEF NodeOK
  <2>4. NodeOK(n)'
    BY <1>2, <2>1, <2>2, <2>3 DEF NodeOK, Known, Led, KnownNext, LedNext
  <2>. QED  BY <1>0, <2>1, <2>4
<1>7. ASSUME NEW n \in Node, NEW v \in Votes, ElectStep(n, v)  PROVE NodeInv'
  <2>. DEFINE s == node[n]  t == node'[n]
  <2>1. /\ Others(n) /\ v.term = s.vote.term + 1 /\ v.node = n /\ ~ v.done
        /\ t.vote = v /\ t.cluster = s.cluster /\ t.log = s.log
        /\ t.accepted = AcceptedUnder(s, v) /\ t.role = "candidate"
        /\ [vote |-> v, last |-> LastId(s.log)] \in asked'
    BY <1>7 DEF ElectStep, IsAdopted, SameLog, NewVote
  <2>2. v.term > 0 /\ VoteLt(s.vote, v)
    BY <1>2, <2>1, VoteLtMeans DEF Votes
  <2>3. t.accepted = [vote |-> v, last |-> NoLogId]
    BY <2>1, <2>2 DEF AcceptedUnder
  <2>4. ~ VoteLt(v, s.cluster.vote) /\ ~ VoteLt(v, v)
    BY <1>2, <2>2, VoteOrder DEF NodeOK
  <2>5. \E q \in asked' : q.vote = v /\ q.last = LastId(s.log)
    BY <2>1
  <2>6. NodeOK(n)'
    BY <1>2, <2>1, <2>2, <2>3, <2>4, <2>5 DEF NodeOK, Known, Led, KnownNext, LedNext
  <2>. QED  BY <1>0, <2>1, <2>6
<1>8. ASSUME NEW n \in Node, NEW e \in Entries, WinStep(n, e) \/ WriteStep(n, e)  PROVE NodeInv'
  <2>. DEFINE s == node[n]  t == node'[n]
  <2>1. /\ Others(n) /\ e.id = LeaderId(t.vote) /\ t.log = Append(s.log, e) /\ t.cluster = s.cluster
        /\ t.role = "leader" /\ t.accepted = [vote |-> t.vote, last |-> LastId(t.log)] /\ Published(t)
    BY <1>8 DEF WinStep, WriteStep, GrowStep
  <2>2. t.vote \in Votes /\ t.vote.term > 0 /\ t.vote.done /\ t.vote.node = n
    BY <1>8, LeaderGrows
  <2>3. t.vote = s.vote \/ VoteLt(s.vote, t.vote)
    <3>1. CASE WinStep(n, e)
      <4>1. t.vote = [s.vote EXCEPT !.done = TRUE] /\ ~ s.vote.done
        BY <1>2, <3>1 DEF WinStep, NodeOK
      <4>. QED  BY <1>2, <2>2, <4>1, VoteLtMeans DEF Votes
    <3>2. CASE WriteStep(n, e)
      BY <3>2 DEF WriteStep
    <3>. QED  BY <1>8, <3>1, <3>2
  <2>4. ~ VoteLt(t.vote, s.cluster.vote) /\ ~ VoteLt(t.vote, t.vote)
    BY <1>2, <2>2, <2>3, VoteOrder DEF NodeOK
  <2>5. \E p \in sent' : p.vote = t.vote /\ p.log = t.log
    BY <2>1 DEF Published
  <2>6. t.noop \in 1..Len(t.log) /\ t.log[t.noop].id = LeaderId(t.vote)
    <3>1. Len(t.log) = Len(s.log) + 1 /\ t.log[Len(s.log) + 1] = e /\ \A i \in 1..Len(s.log) : t.log[i] = s.log[i]
      BY <1>2, <2>1
    <3>2. CASE WinStep(n, e)
      BY <1>2, <2>1, <3>1, <3>2 DEF WinStep
    <3>3. CASE WriteStep(n, e)
      <4>1. t.noop = s.noop /\ t.vote = s.vote /\ s.noop \in 1..Len(s.log) /\ s.log[s.noop].id = LeaderId(s.vote)
        BY <1>2, <3>3 DEF WriteStep, NodeOK
      <4>. QED  BY <1>2, <3>1, <4>1
    <3>. QED  BY <1>8, <3>2, <3>3
  <2>7. NodeOK(n)'
    BY <1>2, <2>1, <2>2, <2>4, <2>5, <2>6 DEF NodeOK, Known, Led, KnownNext, LedNext
  <2>. QED  BY <1>0, <2>1, <2>7
<1>9. ASSUME NEW n \in Node, NEW p \in sent, FollowStep(n, p)  PROVE NodeInv'
  <2>. DEFINE s == node[n]  t == node'[n]
              io == [vote |-> p.vote, last |-> EntryId(p.log, p.commit)]
  <2>0. Others(n) /\ p.vote.node # n /\ sent' = sent /\ asked' = asked
    BY <1>9 DEF FollowStep
  <2>1. (Late(s, t, p) \/ InTime(s, t, p)) /\ (t.cluster = io \/ t.cluster = s.cluster)
    BY <1>9, FollowFields
  <2>2. /\ p.vote \in Votes /\ p.vote.term > 0 /\ p.vote.done /\ KnownNext(p.vote) /\ LedNext(p.vote)
    <3>1. p.vote \in Votes /\ p.vote.term > 0 /\ p.vote.done /\ Known(p.vote) /\ Led(p.vote)
      BY DEF SentInv, TypeInv, Led
    <3>. QED  BY <3>1, MonoVotes
  <2>3. ~ VoteLt(t.vote, t.cluster.vote) /\ LedNext(t.cluster.vote)
        /\ (t.cluster.vote.term = 0 => t.cluster = NoIO) /\ (t.cluster.vote.term > 0 => t.cluster.vote.done)
    <3>1. ~ VoteLt(t.vote, s.cluster.vote) /\ ~ VoteLt(t.vote, p.vote)
      BY <1>2, <2>1, <2>2, VoteOrder DEF NodeOK, Late, InTime
    <3>. QED  BY <1>2, <2>1, <2>2, <3>1 DEF NodeOK
  <2>4. CASE Late(s, t, p)
    <3>1. /\ t.vote = s.vote /\ t.log = s.log /\ t.accepted = s.accepted /\ t.role = s.role /\ t.noop = s.noop
      BY <2>4 DEF Late
    <3>2. NodeOK(n)'
      BY <1>2, <2>0, <2>3, <3>1 DEF NodeOK, Known, Led, KnownNext, LedNext
    <3>. QED  BY <1>0, <2>0, <3>2
  <2>5. CASE InTime(s, t, p)
    <3>1. ~ VoteLt(p.vote, s.vote) /\ t.vote = p.vote /\ t.role = "follower"
      BY <2>5 DEF InTime
    <3>2. t.accepted.vote = p.vote
      <4>1. CASE t.accepted = AcceptedUnder(s, p.vote)
        <5>1. CASE VoteLt(s.vote, p.vote)
          BY <4>1, <5>1 DEF AcceptedUnder
        <5>2. CASE ~ VoteLt(s.vote, p.vote)
          BY <1>2, <2>2, <3>1, <4>1, <5>2, VoteOrder DEF AcceptedUnder, NodeOK
        <5>. QED  BY <5>1, <5>2
      <4>2. CASE \E j \in 1..Len(p.log) : t.accepted = [vote |-> p.vote, last |-> EntryId(p.log, j)]
        BY <4>2
      <4>. QED  BY <2>5, <4>1, <4>2 DEF InTime
    <3>3. NodeOK(n)'
      BY <1>2, <2>0, <2>2, <2>3, <3>1, <3>2 DEF NodeOK, Known, Led, KnownNext, LedNext
    <3>. QED  BY <1>0, <2>0, <3>3
  <2>. QED  BY <2>1, <2>4, <2>5
<1>10. ASSUME NEW n \in Node, NEW i \in Nat, CommitStep(n, i)  PROVE NodeInv'
  <2>. DEFINE s == node[n]  t == node'[n]
  <2>1. /\ t.vote = s.vote /\ t.log = s.log /\ t.accepted = s.accepted
        /\ t.cluster = [vote |-> s.vote, last |-> EntryId(s.log, i)] /\ t.role = s.role /\ t.noop = s.noop
        /\ Others(n) /\ s.role = "leader"
    BY <1>10, CommitFields DEF CommitStep
  <2>2. \E p \in sent' : p.vote = s.vote /\ p.log = s.log
    BY <1>10, <2>1 DEF CommitStep, Published
  <2>3. ~ VoteLt(s.vote, s.vote)
    BY <1>2, VoteOrder
  <2>4. NodeOK(n)'
    BY <1>2, <2>1, <2>2, <2>3 DEF NodeOK, Known, Led, KnownNext, LedNext
  <2>. QED  BY <1>0, <2>1, <2>4
<1>11. ASSUME NEW n \in Node, NEW l \in Seq(Entries), RestartStep(n, l)  PROVE NodeInv'
  <2>. DEFINE s == node[n]  t == node'[n]
  <2>1. /\ t.vote = (IF s.vote.term = 0 THEN NoVote ELSE s.vote)
        /\ t.accepted = [vote |-> t.vote, last |-> NoLogId] /\ t.cluster = NoIO /\ t.role = "follower"
        /\ Others(n) /\ ~ (s.vote.term > 0 /\ s.vote.node = n /\ s.vote.done)
    BY <1>11, RestartFields DEF RestartStep, IsLeader
  <2>2. CASE s.vote.term = 0
    <3>1. t.vote = NoVote /\ t.accepted = NoIO
      BY <2>1, <2>2 DEF NoIO
    <3>2. ~ VoteLt(NoVote, NoVote)
      BY ConstantTypes, VoteOrder
    <3>3. NodeOK(n)'
      BY <2>1, <3>1, <3>2, ConstantTypes DEF NodeOK, Known, Led
    <3>. QED  BY <1>0, <2>1, <3>3
  <2>3. CASE s.vote.term # 0
    <3>1. t.vote = s.vote
      BY <2>1, <2>3
    <3>2. ~ VoteLt(s.vote, NoVote)
      BY <1>2, <2>3, VoteLtMeans, ConstantTypes DEF Votes
    <3>3. NodeOK(n)'
      BY <1>2, <2>1, <2>3, <3>1, <3>2, ConstantTypes DEF NodeOK, Known, Led, KnownNext, LedNext, Votes
    <3>. QED  BY <1>0, <2>1, <3>3
  <2>. QED  BY <2>2, <2>3
<1>. QED
  BY <1>1, <1>3, <1>4, <1>5, <1>6, <1>7, <1>8, <1>9, <1>10, <1>11 DEF Step

\* AskedInv is kept: a candidate asks once under a vote.
LEMMA AskedInvKept ==
  ASSUME SafeInv, Mono, Step
  PROVE  AskedInv'
<1>. USE DEF SafeInv
<1>0. ASSUME NEW q \in asked  PROVE q.vote \in Votes /\ q.vote.term > 0 /\ ~ q.vote.done /\ KnownNext(q.vote) /\ Known(q.vote)
  BY MonoVotes DEF AskedInv, TypeInv
<1>1. CASE asked' = asked
  BY <1>0, <1>1 DEF AskedInv, Known, KnownNext
<1>2. ASSUME NEW n \in Node, NEW v \in Votes, ElectStep(n, v)  PROVE AskedInv'
  <2>. DEFINE new == [vote |-> v, last |-> LastId(node[n].log)]
  <2>1. /\ v.term = node[n].vote.term + 1 /\ v.node = n /\ ~ v.done /\ node'[n].vote = v
        /\ asked' = asked \cup {new} /\ new.vote = v
    BY <1>2 DEF ElectStep, IsAdopted, NewVote
  <2>2. node[n].vote \in Votes
    BY NodeFacts
  <2>3. v.term > 0 /\ VoteLt(node[n].vote, v) /\ ~ VoteLt(v, v)
    BY <2>1, <2>2, VoteLtMeans, VoteOrder DEF Votes
  <2>4. \A q \in asked : q.vote # v
    BY <1>0, <2>1, <2>3 DEF Known
  <2>5. KnownNext(v)
    BY <2>1, <2>3 DEF KnownNext
  <2>. HIDE DEF new
  <2>. QED  BY <1>0, <2>1, <2>3, <2>4, <2>5 DEF AskedInv, Known, KnownNext
<1>. QED  BY <1>1, <1>2, AskedSame DEF AdoptStep

\* GrantedInv is kept.
LEMMA GrantedInvKept ==
  ASSUME SafeInv, Mono, Step
  PROVE  GrantedInv'
<1>. USE DEF SafeInv
<1>0. ASSUME NEW g \in granted
      PROVE  ~ VoteLt(node'[g.from].vote, g.vote) /\ \E q \in asked' : q.vote = g.vote
  <2>1. PICK q \in asked : q.vote = g.vote
    BY DEF GrantedInv
  <2>2. q.vote.term > 0 /\ g.vote \in Votes /\ g.from \in Node /\ q \in asked'
    BY DEF AskedInv, TypeInv, Mono
  <2>. QED  BY <2>1, <2>2 DEF GrantedInv, Mono
<1>1. ASSUME NEW n \in Node, NEW v \in Votes, node'[n].vote = v, \E q \in asked' : q.vote = v,
             granted' \subseteq granted \cup {[vote |-> v, from |-> n]}
      PROVE  GrantedInv'
  <2>1. ~ VoteLt(node'[n].vote, v)
    BY <1>1, VoteOrder
  <2>. QED  BY <1>0, <1>1, <2>1 DEF GrantedInv
<1>2. CASE granted' = granted
  BY <1>0, <1>2 DEF GrantedInv
<1>3. ASSUME NEW n \in Node, NEW v \in Votes, AdoptStep(n, v)  PROVE GrantedInv'
  <2>1. node'[n].vote = v /\ asked' = asked
    BY <1>3 DEF AdoptStep, IsAdopted
  <2>. QED  BY <1>1, <1>2, <1>3, <2>1 DEF AdoptStep
<1>4. ASSUME NEW n \in Node, NEW v \in Votes, ElectStep(n, v)  PROVE GrantedInv'
  <2>1. node'[n].vote = v /\ [vote |-> v, last |-> LastId(node[n].log)] \in asked'
        /\ granted' = granted \cup {[vote |-> v, from |-> n]}
    BY <1>4 DEF ElectStep, IsAdopted
  <2>2. \E q \in asked' : q.vote = v
    BY <2>1
  <2>. QED  BY <1>1, <2>1, <2>2
<1>. QED  BY <1>2, <1>3, <1>4, AskedSame

\* The log of a leader that had log l and now has entry e.
LEMMA LeaderLogGrows ==
  ASSUME NEW l \in Seq(Entries), NEW v \in Votes, NEW e \in Entries, e.id = LeaderId(v),
         \A i \in 1..Len(l) : ~ IdLt(LeaderId(v), l[i].id),
         \A i, j \in 1..Len(l) : i <= j => ~ IdLt(l[j].id, l[i].id)
  PROVE  LET m == Append(l, e)
         IN  /\ m # <<>> /\ m[Len(m)].id = LeaderId(v)
             /\ \A i \in 1..Len(m) : ~ IdLt(LeaderId(v), m[i].id)
             /\ \A i, j \in 1..Len(m) : i <= j => ~ IdLt(m[j].id, m[i].id)
<1>. DEFINE m == Append(l, e)
            k == Len(l)
<1>1. k \in Nat /\ Len(m) = k + 1 /\ m[k + 1] = e /\ \A i \in 1..k : m[i] = l[i]
  OBVIOUS
<1>2. LeaderId(v) \in Ids /\ ~ IdLt(LeaderId(v), LeaderId(v))
  BY LeaderIds, IdOrder
<1>. HIDE DEF m
<1>3. \A i \in 1..Len(m) : ~ IdLt(LeaderId(v), m[i].id)
  <2>1. ASSUME NEW i \in 1..Len(m)  PROVE ~ IdLt(LeaderId(v), m[i].id)
    <3>1. CASE i = k + 1
      BY <1>1, <1>2, <3>1
    <3>2. CASE i # k + 1
      BY <1>1, <3>2
    <3>. QED  BY <3>1, <3>2
  <2>. QED  BY <2>1
<1>4. ASSUME NEW i \in 1..Len(m), NEW j \in 1..Len(m), i <= j  PROVE ~ IdLt(m[j].id, m[i].id)
  <2>1. CASE j = k + 1
    BY <1>1, <1>3, <2>1
  <2>2. CASE j # k + 1
    <3>1. i \in 1..k /\ j \in 1..k
      BY <1>1, <1>4, <2>2
    <3>. QED  BY <1>1, <1>4, <3>1
  <2>. QED  BY <2>1, <2>2
<1>5. m # <<>>
  BY <1>1
<1>6. m[Len(m)].id = LeaderId(v)
  BY <1>1
<1>. QED  BY <1>3, <1>4, <1>5, <1>6 DEF m

\* SentInv is kept: a quorum stands behind a new leader, and no other had that vote.
LEMMA SentInvKept ==
  ASSUME SafeInv, Mono, Step
  PROVE  SentInv'
<1>. USE DEF SafeInv
<1>. DEFINE OK(v, l) == /\ v.term > 0 /\ v.done
                        /\ l # <<>> /\ l[Len(l)].id = LeaderId(v)
                        /\ \A i \in 1..Len(l) : ~ IdLt(LeaderId(v), l[i].id)
                        /\ \A i, j \in 1..Len(l) : i <= j => ~ IdLt(l[j].id, l[i].id)
            Backed(v) == HasQuorum({n \in Node : \E g \in granted' : g.vote = Undone(v) /\ g.from = n})
<1>0. ASSUME NEW v, HasQuorum(Granters(Undone(v)))  PROVE Backed(v)
  <2>. DEFINE A == {n \in Node : \E g \in granted : g.vote = Undone(v) /\ g.from = n}
              B == {n \in Node : \E g \in granted' : g.vote = Undone(v) /\ g.from = n}
  <2>1. HasQuorum(A)
    BY <1>0 DEF Granters
  <2>2. \A n \in Node : n \in A => n \in B
    BY DEF Mono
  <2>. HIDE DEF A, B
  <2>3. HasQuorum(B)
    BY <2>1, <2>2, QuorumGrows
  <2>. QED  BY <2>3 DEF B
<1>1. ASSUME NEW p \in sent  PROVE OK(p.vote, p.log) /\ Backed(p.vote) /\ KnownNext(p.vote) /\ p.vote \in Votes
  <2>1. OK(p.vote, p.log) /\ HasQuorum(Granters(Undone(p.vote))) /\ Known(p.vote) /\ p.vote \in Votes
    BY DEF SentInv, TypeInv
  <2>. QED  BY <1>0, <2>1, MonoVotes
<1>2. ASSUME \A p, q \in sent' : p.vote = q.vote => p = q,
             \A p \in sent' : OK(p.vote, p.log) /\ Backed(p.vote) /\ KnownNext(p.vote)
      PROVE  SentInv'
  <2>. HIDE DEF Backed
  <2>1. \A p \in sent' : HasQuorum(Granters(Undone(p.vote)))'
    BY <1>2 DEF Backed, Granters
  <2>. QED  BY <1>2, <2>1 DEF SentInv, Known, KnownNext
<1>3. CASE sent' = sent
  <2>1. \A p, q \in sent' : p.vote = q.vote => p = q
    BY <1>3 DEF SentInv
  <2>2. \A p \in sent' : OK(p.vote, p.log) /\ Backed(p.vote) /\ KnownNext(p.vote)
    BY <1>1, <1>3
  <2>. HIDE DEF OK, Backed
  <2>. QED  BY <1>2, <2>1, <2>2
<1>4. ASSUME NEW n \in Node, \/ \E e \in Entries : WinStep(n, e) \/ WriteStep(n, e)
                             \/ \E i \in Nat : CommitStep(n, i)
                             \/ ResumeStep(n)
      PROVE  SentInv'
  <2>. DEFINE s == node[n]  t == node'[n]
  <2>1. /\ Published(t) /\ t.vote \in Votes
        /\ t.vote.term > 0 /\ t.vote.done /\ t.vote.node = n
        /\ \A p \in sent : p.vote = t.vote => p.log = s.log /\ Agree(p.log, t.log, Len(p.log))
    BY <1>4, LeaderGrows
  <2>2. /\ \A q \in sent' : q \in sent \/ (q.vote = t.vote /\ q.log = t.log)
        /\ \A p, q \in sent' : p.vote = q.vote => p = q
    BY <2>1, PublishedFacts
  <2>3. KnownNext(t.vote)
    BY <2>1, VoteOrder DEF KnownNext
  <2>4. s \in NodeStates /\ s.log \in Seq(Entries) /\ s.vote \in Votes
    BY NodeFacts
  <2>5. s.role = "leader" => \E p \in sent : p.vote = s.vote /\ p.log = s.log
    BY DEF NodeInv, NodeOK
  <2>6. OK(t.vote, t.log) /\ Backed(t.vote)
    <3>1. ASSUME NEW e \in Entries, WinStep(n, e)  PROVE OK(t.vote, t.log) /\ Backed(t.vote)
      <4>1. /\ e.id = LeaderId(t.vote) /\ t.log = Append(s.log, e) /\ s.role = "candidate"
            /\ HasQuorum(Granters(s.vote)) /\ t.vote = [s.vote EXCEPT !.done = TRUE]
        BY <3>1 DEF WinStep, GrowStep
      <4>2. Undone(t.vote) = s.vote
        <5>1. ~ s.vote.done
          BY <4>1 DEF NodeInv, NodeOK
        <5>2. t.vote.term = s.vote.term /\ t.vote.node = s.vote.node
          BY <2>4, <4>1 DEF Votes
        <5>. QED  BY <2>1, <2>4, <5>1, <5>2, UndoneVotes
      <4>3. Backed(t.vote)
        BY <1>0, <4>1, <4>2
      <4>4. LeaderId(s.vote) = LeaderId(t.vote)
        BY <2>4, <4>1 DEF LeaderId, Votes
      <4>5. Origin(s.log) /\ \A i \in 1..Len(s.log) : ~ IdLt(LeaderId(t.vote), s.log[i].id)
        BY <4>4 DEF LogInv, Bounded
      <4>6. \A i, j \in 1..Len(s.log) : i <= j => ~ IdLt(s.log[j].id, s.log[i].id)
        BY <2>4, <4>5, OriginSorted
      <4>7. OK(t.vote, Append(s.log, e))
        <5>1. e.id = LeaderId(t.vote) /\ t.vote \in Votes /\ s.log \in Seq(Entries) /\ t.vote.term > 0 /\ t.vote.done
          BY <2>1, <2>4, <4>1
        <5>. HIDE DEF t, s
        <5>. QED  BY <4>5, <4>6, <5>1, LeaderLogGrows
      <4>. QED  BY <4>1, <4>3, <4>7
    <3>2. ASSUME NEW e \in Entries, WriteStep(n, e)  PROVE OK(t.vote, t.log) /\ Backed(t.vote)
      <4>1. /\ e.id = LeaderId(t.vote) /\ t.log = Append(s.log, e) /\ s.role = "leader" /\ t.vote = s.vote
        BY <3>2 DEF WriteStep, GrowStep
      <4>2. OK(s.vote, s.log) /\ Backed(s.vote)
        <5>. HIDE DEF OK, Backed
        <5>. QED  BY <1>1, <2>5, <4>1
      <4>3. OK(t.vote, Append(s.log, e))
        <5>. HIDE DEF t, s
        <5>. QED  BY <2>1, <2>4, <4>1, <4>2, LeaderLogGrows
      <4>. HIDE DEF OK, Backed
      <4>. QED  BY <4>1, <4>2, <4>3
    <3>3. ASSUME NEW i \in Nat, CommitStep(n, i)  PROVE t.vote = s.vote /\ t.log = s.log /\ s.role = "leader"
      BY <3>3, CommitFields DEF CommitStep
    <3>4. ASSUME ResumeStep(n)  PROVE t.vote = s.vote /\ t.log = s.log /\ s.role = "leader"
      BY <3>4 DEF ResumeStep
    <3>5. ASSUME t.vote = s.vote, t.log = s.log, s.role = "leader"  PROVE OK(t.vote, t.log) /\ Backed(t.vote)
      <4>. HIDE DEF OK, Backed
      <4>. QED  BY <1>1, <2>5, <3>5
    <3>. HIDE DEF OK, Backed
    <3>. QED  BY <1>4, <3>1, <3>2, <3>3, <3>4, <3>5
  <2>7. ASSUME NEW q \in sent'  PROVE OK(q.vote, q.log) /\ Backed(q.vote) /\ KnownNext(q.vote)
    <3>. HIDE DEF OK, Backed
    <3>. QED  BY <1>1, <2>2, <2>3, <2>6
  <2>. HIDE DEF OK, Backed
  <2>. QED  BY <1>2, <2>2, <2>7
<1>. QED  BY <1>3, <1>4, SentSame

\* Where an entry of a log comes from, after the step.
FromNext(l, i) ==
  \/ i = 1 /\ l[1] = InitialEntry
  \/ \E p \in sent' : LeaderId(p.vote) = l[i].id /\ Agree(l, p.log, i)
OriginNext(l) == \A i \in 1..Len(l) : FromNext(l, i)

\* A prefix of a log has its entries from where the log has them.
LEMMA FromPrefix ==
  ASSUME SafeInv, Mono, NEW l \in Seq(Entries), NEW m \in Seq(Entries), Origin(m),
         NEW i \in 1..Len(l), Agree(l, m, i)
  PROVE  FromNext(l, i)
<1>. USE DEF SafeInv
<1>1. Len(l) \in Nat /\ Len(m) \in Nat /\ i \in 1..Len(m) /\ l[i] = m[i] /\ i \in Nat /\ l[1] = m[1]
  BY DEF Agree
<1>2. FromLeader(m, i)
  BY <1>1 DEF Origin
<1>3. CASE i = 1 /\ m[1] = InitialEntry
  BY <1>1, <1>3 DEF FromNext
<1>4. CASE \E p \in sent : LeaderId(p.vote) = m[i].id /\ Agree(m, p.log, i)
  <2>1. PICK p \in sent : LeaderId(p.vote) = m[i].id /\ Agree(m, p.log, i)
    BY <1>4
  <2>2. PICK q \in sent' : q.vote = p.vote /\ Agree(p.log, q.log, Len(p.log))
    BY DEF Mono
  <2>3. p.log \in Seq(Entries) /\ q.log \in Seq(Entries) /\ Len(p.log) \in Nat /\ i <= Len(p.log)
    BY <2>1 DEF TypeInv, Mono, Agree
  <2>4. Agree(p.log, q.log, i)
    BY <1>1, <2>2, <2>3, AgreeCut
  <2>5. Agree(l, q.log, i)
    BY <2>1, <2>4, AgreeTrans
  <2>. QED  BY <1>1, <2>1, <2>2, <2>5 DEF FromNext
<1>. QED  BY <1>2, <1>3, <1>4 DEF FromLeader

\* The logs of a node whose vote is of term 0 have no entry of a leader.
LEMMA BoundedZero ==
  ASSUME TypeInv, SentInv, NEW l \in Seq(Entries), Origin(l), NEW v \in Votes, v.term = 0, Bounded(l, v),
         NEW w \in Votes
  PROVE  Bounded(l, w)
<1>1. SUFFICES ASSUME NEW i \in 1..Len(l)  PROVE ~ IdLt(LeaderId(w), l[i].id)
  BY DEF Bounded
<1>2. FromLeader(l, i)
  BY DEF Origin
<1>3. CASE i = 1 /\ l[1] = InitialEntry
  <2>1. l[i].id = <<0, 0>>
    BY <1>3, ConstantTypes
  <2>. QED  BY <2>1, LeaderIds DEF IdLt, Ids
<1>4. CASE \E p \in sent : LeaderId(p.vote) = l[i].id /\ Agree(l, p.log, i)
  <2>1. PICK p \in sent : LeaderId(p.vote) = l[i].id /\ Agree(l, p.log, i)
    BY <1>4
  <2>2. p.vote.term > 0 /\ p.vote \in Votes
    BY DEF SentInv, TypeInv
  <2>3. IdLt(LeaderId(v), LeaderId(p.vote))
    BY <2>2, LeaderIds DEF Votes
  <2>. QED  BY <2>1, <2>3 DEF Bounded
<1>. QED  BY <1>2, <1>3, <1>4 DEF FromLeader

\* Entry i of log l of node n, after a step, and all before it are what the node or
\* a leader it follows had, the first entry of all, or an entry it has just proposed.
Derived(n, l, i) ==
  \/ Agree(l, node[n].log, i)
  \/ Agree(l, node[n].disk, i)
  \/ \E p \in sent : ~ VoteLt(node'[n].vote, p.vote) /\ Agree(l, p.log, i)
  \/ i = 1 /\ l[1] = InitialEntry
  \/ \E q \in sent' : q.vote = node'[n].vote /\ q.log = l /\ l[i].id = LeaderId(q.vote)

\* The log of a node after a step is put together from logs that were there.
LEMMA DerivedIs ==
  ASSUME SafeInv, Mono, NEW n \in Node, NEW l \in Seq(Entries), \A i \in 1..Len(l) : Derived(n, l, i),
         \/ node'[n].vote = node[n].vote \/ VoteLt(node[n].vote, node'[n].vote) \/ node[n].vote.term = 0
  PROVE  OriginNext(l) /\ Bounded(l, node'[n].vote)
<1>. USE DEF SafeInv
<1>. DEFINE s == node[n]  v == node[n].vote  w == node'[n].vote
<1>1. /\ s.log \in Seq(Entries) /\ s.disk \in Seq(Entries) /\ Origin(s.log) /\ Origin(s.disk)
      /\ v \in Votes /\ w \in Votes /\ LeaderId(v) \in Ids /\ LeaderId(w) \in Ids
      /\ Bounded(s.log, v) /\ Bounded(s.disk, v) /\ Len(l) \in Nat
  <2>1. v \in Votes /\ w \in Votes
    BY DEF TypeInv, Mono, NodeStates
  <2>. QED  BY <2>1, NodeFacts, LeaderIds DEF LogInv
<1>2. ASSUME NEW m \in Seq(Entries), Origin(m), Bounded(m, v)  PROVE Bounded(m, w)
  <2>1. CASE v.term = 0
    BY <1>1, <1>2, <2>1, BoundedZero
  <2>2. CASE w = v
    BY <1>2, <2>2
  <2>3. CASE VoteLt(v, w)
    <3>1. ~ IdLt(LeaderId(w), LeaderId(v))
      BY <1>1, <2>3, VoteIdOrder
    <3>2. ASSUME NEW i \in 1..Len(m)  PROVE ~ IdLt(LeaderId(w), m[i].id)
      <4>1. m[i].id \in Ids /\ ~ IdLt(LeaderId(v), m[i].id)
        <5>1. m[i] \in Entries
          OBVIOUS
        <5>. QED  BY <1>2, <5>1 DEF Bounded, Entries
      <4>. QED  BY <1>1, <3>1, <4>1, IdOrder
    <3>. QED  BY <3>2 DEF Bounded
  <2>. QED  BY <2>1, <2>2, <2>3
<1>3. ASSUME NEW i \in 1..Len(l)  PROVE FromNext(l, i) /\ ~ IdLt(LeaderId(w), l[i].id)
  <2>1. Derived(n, l, i) /\ i \in Nat
    OBVIOUS
  <2>2. ASSUME NEW m \in Seq(Entries), Origin(m), Bounded(m, w), Agree(l, m, i)
        PROVE  FromNext(l, i) /\ ~ IdLt(LeaderId(w), l[i].id)
    <3>1. i \in 1..Len(m) /\ l[i] = m[i]
      BY <1>1, <2>2 DEF Agree
    <3>. QED  BY <2>2, <3>1, FromPrefix DEF Bounded
  <2>3. CASE Agree(l, s.log, i)
    BY <1>1, <1>2, <2>2, <2>3
  <2>4. CASE Agree(l, s.disk, i)
    BY <1>1, <1>2, <2>2, <2>4
  <2>5. CASE \E p \in sent : ~ VoteLt(w, p.vote) /\ Agree(l, p.log, i)
    <3>1. PICK p \in sent : ~ VoteLt(w, p.vote) /\ Agree(l, p.log, i)
      BY <2>5
    <3>2. p.vote \in Votes /\ p.log \in Seq(Entries) /\ Origin(p.log) /\ LeaderId(p.vote) \in Ids
      BY LeaderIds DEF TypeInv, LogInv
    <3>3. ~ IdLt(LeaderId(w), LeaderId(p.vote))
      BY <1>1, <3>1, <3>2, VoteIdOrder
    <3>4. ASSUME NEW k \in 1..Len(p.log)  PROVE ~ IdLt(LeaderId(w), p.log[k].id)
      <4>1. p.log[k].id \in Ids /\ ~ IdLt(LeaderId(p.vote), p.log[k].id)
        <5>1. p.log[k] \in Entries
          BY <3>2
        <5>. QED  BY <5>1 DEF SentInv, Entries
      <4>. QED  BY <1>1, <3>2, <3>3, <4>1, IdOrder
    <3>5. Bounded(p.log, w)
      BY <3>4 DEF Bounded
    <3>. QED  BY <2>2, <3>1, <3>2, <3>5
  <2>6. CASE i = 1 /\ l[1] = InitialEntry
    <3>1. l[i].id = <<0, 0>>
      BY <2>6, ConstantTypes
    <3>. QED  BY <1>1, <2>6, <3>1 DEF FromNext, IdLt, Ids
  <2>7. CASE \E q \in sent' : q.vote = w /\ q.log = l /\ l[i].id = LeaderId(q.vote)
    <3>1. PICK q \in sent' : q.vote = w /\ q.log = l /\ l[i].id = LeaderId(q.vote)
      BY <2>7
    <3>2. Agree(l, l, i)
      BY <1>1 DEF Agree
    <3>3. ~ IdLt(LeaderId(w), LeaderId(w))
      BY <1>1, IdOrder
    <3>. QED  BY <3>1, <3>2, <3>3 DEF FromNext
  <2>. QED  BY <2>1, <2>3, <2>4, <2>5, <2>6, <2>7 DEF Derived
<1>. QED  BY <1>3 DEF OriginNext, Bounded

\* LogInv is kept.
LEMMA LogInvKept ==
  ASSUME SafeInv, Mono, Step
  PROVE  LogInv'
<1>. USE DEF SafeInv
<1>0. ASSUME NEW n \in Node
      PROVE  /\ node[n].log \in Seq(Entries) /\ node[n].disk \in Seq(Entries)
             /\ node'[n].log \in Seq(Entries) /\ node'[n].disk \in Seq(Entries)
             /\ Len(node[n].log) \in Nat /\ Len(node'[n].log) \in Nat
             /\ \A i \in 1..Len(node[n].log) : Derived(n, node[n].log, i)
             /\ \A i \in 1..Len(node[n].disk) : Derived(n, node[n].disk, i)
  <2>1. node[n].log \in Seq(Entries) /\ node[n].disk \in Seq(Entries)
        /\ node'[n].log \in Seq(Entries) /\ node'[n].disk \in Seq(Entries)
    BY NodeFacts DEF Mono, TypeInv, NodeStates
  <2>2. \A i \in 1..Len(node[n].log) : Agree(node[n].log, node[n].log, i)
    BY <2>1 DEF Agree
  <2>3. \A i \in 1..Len(node[n].disk) : Agree(node[n].disk, node[n].disk, i)
    BY <2>1 DEF Agree
  <2>. QED  BY <2>1, <2>2, <2>3 DEF Derived
<1>. DEFINE OK(n) == /\ \A i \in 1..Len(node'[n].log) : Derived(n, node'[n].log, i)
                     /\ \A i \in 1..Len(node'[n].disk) : Derived(n, node'[n].disk, i)
<1>1. ASSUME NEW n \in Node, \/ node'[n].log = node[n].log \/ node'[n].log = node[n].disk,
                             \/ node'[n].disk = node[n].log \/ node'[n].disk = node[n].disk
      PROVE  OK(n)
  BY <1>0, <1>1
<1>2. ASSUME NEW n \in Node, Others(n), OK(n)  PROVE \A m \in Node : OK(m)
  <2>1. ASSUME NEW m \in Node, m # n  PROVE OK(m)
    <3>1. node'[m] = node[m]
      BY <1>2, <2>1 DEF Others
    <3>. HIDE DEF OK
    <3>. QED  BY <1>1, <3>1
  <2>. HIDE DEF OK
  <2>. QED  BY <1>2, <2>1
<1>3. ASSUME NEW n \in Node, InitializeStep(n)  PROVE Others(n) /\ OK(n)
  <2>1. node'[n].log = <<InitialEntry>> /\ node'[n].disk = node[n].disk /\ Others(n)
    BY <1>3, InitializeFields DEF InitializeStep
  <2>2. \A i \in 1..Len(node'[n].log) : i = 1 /\ node'[n].log[1] = InitialEntry
    BY <2>1
  <2>3. \A i \in 1..Len(node'[n].disk) : Derived(n, node'[n].disk, i)
    BY <1>0, <2>1
  <2>4. \A i \in 1..Len(node'[n].log) : Derived(n, node'[n].log, i)
    BY <2>2 DEF Derived
  <2>. QED  BY <2>1, <2>3, <2>4
<1>4. ASSUME NEW n \in Node, FlushStep(n)  PROVE Others(n) /\ OK(n)
  <2>1. node'[n].log = node[n].log /\ node'[n].disk = node[n].log /\ Others(n)
    BY <1>4, FlushFields DEF FlushStep
  <2>. HIDE DEF OK
  <2>. QED  BY <1>1, <2>1
<1>5. ASSUME NEW n \in Node, ResumeStep(n)  PROVE Others(n) /\ OK(n)
  <2>1. node'[n].log = node[n].log /\ node'[n].disk = node[n].log /\ Others(n)
    BY <1>5 DEF ResumeStep
  <2>. HIDE DEF OK
  <2>. QED  BY <1>1, <2>1
<1>6. ASSUME NEW n \in Node, NEW v \in Votes, AdoptStep(n, v) \/ ElectStep(n, v)  PROVE Others(n) /\ OK(n)
  <2>1. node'[n].log = node[n].log /\ (node'[n].disk = node[n].log \/ node'[n].disk = node[n].disk) /\ Others(n)
    BY <1>6 DEF AdoptStep, ElectStep, IsAdopted, SameLog
  <2>. HIDE DEF OK
  <2>. QED  BY <1>1, <2>1
<1>7. ASSUME NEW n \in Node, NEW e \in Entries, WinStep(n, e) \/ WriteStep(n, e)  PROVE Others(n) /\ OK(n)
  <2>. DEFINE s == node[n]  t == node'[n]
  <2>1. /\ Others(n) /\ e.id = LeaderId(t.vote) /\ t.log = Append(s.log, e)
        /\ t.disk = s.log \/ t.disk = s.disk
    BY <1>7 DEF WinStep, WriteStep, GrowStep
  <2>2. \E q \in sent' : q.vote = t.vote /\ q.log = t.log
    BY <1>7 DEF WinStep, WriteStep, GrowStep, Published
  <2>3. ASSUME NEW i \in 1..Len(t.log)  PROVE Derived(n, t.log, i)
    <3>0. Len(t.log) = Len(s.log) + 1 /\ t.log[Len(s.log) + 1] = e /\ \A k \in 1..Len(s.log) : t.log[k] = s.log[k]
      BY <1>0, <2>1
    <3>1. CASE i = Len(s.log) + 1
      <4>1. t.log[i].id = LeaderId(t.vote)
        BY <2>1, <3>0, <3>1
      <4>. QED  BY <2>2, <4>1 DEF Derived
    <3>2. CASE i # Len(s.log) + 1
      <4>1. Agree(t.log, s.log, i)
        BY <1>0, <3>0, <3>2 DEF Agree
      <4>. QED  BY <4>1 DEF Derived
    <3>. QED  BY <3>1, <3>2
  <2>4. \A i \in 1..Len(t.disk) : Derived(n, t.disk, i)
    BY <1>0, <2>1
  <2>. QED  BY <2>1, <2>3, <2>4
<1>8. ASSUME NEW n \in Node, NEW p \in sent, FollowStep(n, p)  PROVE Others(n) /\ OK(n)
  <2>. DEFINE s == node[n]  t == node'[n]
  <2>1. Others(n) /\ (Late(s, t, p) \/ InTime(s, t, p))
    BY <1>8, FollowFields DEF FollowStep
  <2>2. CASE Late(s, t, p)
    <3>1. t.log = s.log /\ t.disk = s.disk
      BY <2>2 DEF Late
    <3>. HIDE DEF OK
    <3>. QED  BY <1>1, <2>1, <3>1
  <2>3. CASE InTime(s, t, p)
    <3>1. \A i \in 1..Len(t.disk) : Derived(n, t.disk, i)
      BY <1>0, <2>3 DEF InTime
    <3>2. ~ VoteLt(t.vote, p.vote)
      <4>1. p.vote \in Votes /\ t.vote = p.vote
        BY <2>3 DEF TypeInv, InTime
      <4>. QED  BY <4>1, VoteOrder
    <3>3. \A i \in 1..Len(t.log) : Derived(n, t.log, i)
      BY <2>3, <3>2 DEF InTime, Derived
    <3>. QED  BY <2>1, <3>1, <3>3
  <2>. QED  BY <2>1, <2>2, <2>3
<1>9. ASSUME NEW n \in Node, NEW i \in Nat, CommitStep(n, i)  PROVE Others(n) /\ OK(n)
  <2>1. node'[n].log = node[n].log /\ node'[n].disk = node[n].disk /\ Others(n)
    BY <1>9, CommitFields DEF CommitStep
  <2>. HIDE DEF OK
  <2>. QED  BY <1>1, <2>1
<1>10. ASSUME NEW n \in Node, NEW l \in Seq(Entries), RestartStep(n, l)  PROVE Others(n) /\ OK(n)
  <2>1. node'[n].log = l /\ node'[n].disk = l /\ (l = node[n].log \/ l = node[n].disk) /\ Others(n)
    BY <1>10, RestartFields DEF RestartStep
  <2>. HIDE DEF OK
  <2>. QED  BY <1>1, <2>1
<1>11. \A m \in Node : OK(m)
  <2>1. CASE Still
    <3>1. \A m \in Node : node'[m] = node[m]
      BY <2>1 DEF Still
    <3>. HIDE DEF OK
    <3>. QED  BY <1>1, <3>1
  <2>. HIDE DEF OK
  <2>. QED
    BY <1>2, <1>3, <1>4, <1>5, <1>6, <1>7, <1>8, <1>9, <1>10, <2>1 DEF Step
<1>12. ASSUME NEW m \in Node
       PROVE  /\ OriginNext(node'[m].log) /\ OriginNext(node'[m].disk)
              /\ Bounded(node'[m].log, node'[m].vote) /\ Bounded(node'[m].disk, node'[m].vote)
  <2>1. \/ node'[m].vote = node[m].vote \/ VoteLt(node[m].vote, node'[m].vote) \/ node[m].vote.term = 0
    BY StepVotes
  <2>. QED  BY <1>0, <1>11, <2>1, DerivedIs
<1>13. ASSUME NEW q \in sent'  PROVE OriginNext(q.log)
  <2>0. ASSUME q \in sent  PROVE OriginNext(q.log)
    <3>1. q.log \in Seq(Entries) /\ Origin(q.log)
      BY <2>0 DEF TypeInv, LogInv
    <3>2. \A i \in 1..Len(q.log) : Agree(q.log, q.log, i)
      BY <3>1 DEF Agree
    <3>. QED  BY <3>1, <3>2, FromPrefix DEF OriginNext
  <2>1. CASE sent' = sent
    BY <2>0, <2>1
  <2>2. ASSUME NEW n \in Node, \/ \E e \in Entries : WinStep(n, e) \/ WriteStep(n, e)
                               \/ \E i \in Nat : CommitStep(n, i)
                               \/ ResumeStep(n)
        PROVE  OriginNext(q.log)
    <3>1. /\ Published(node'[n])
          /\ \A p \in sent : p.vote = node'[n].vote => Agree(p.log, node'[n].log, Len(p.log))
      BY <2>2, LeaderGrows
    <3>2. q \in sent \/ q.log = node'[n].log
      BY <3>1, PublishedFacts
    <3>. QED  BY <1>12, <2>0, <3>2
  <2>. QED  BY <2>1, <2>2, SentSame
<1>. QED  BY <1>12, <1>13 DEF LogInv, Origin, OriginNext, FromLeader, FromNext

\* A log IO that a node with log l has accepted, and what its leader has.
IsAccepted(l, a) ==
  \A p \in sent' : a.vote = p.vote => Agree(l, p.log, a.last.at) /\ a.last = EntryId(p.log, a.last.at)

\* A node that accepted nothing under its vote.
LEMMA NothingAccepted ==
  ASSUME TypeInv', NEW l \in Seq(Entries), NEW a, a.last = NoLogId
  PROVE  IsAccepted(l, a)
<1>1. ASSUME NEW p \in sent'  PROVE Agree(l, p.log, 0)
  <2>1. p.log \in Seq(Entries)
    BY DEF TypeInv
  <2>. QED  BY <2>1 DEF Agree
<1>. QED  BY <1>1, ConstantTypes DEF IsAccepted, EntryId

\* Leaders' logs grow: what was accepted still is what the leader has.
LEMMA AcceptedKept ==
  ASSUME SafeInv, Mono, SentInv', NEW n \in Node
  PROVE  IsAccepted(node[n].log, node[n].accepted)
<1>. USE DEF SafeInv
<1>. DEFINE a == node[n].accepted  l == node[n].log
<1>1. SUFFICES ASSUME NEW p \in sent', a.vote = p.vote
               PROVE  Agree(l, p.log, a.last.at) /\ a.last = EntryId(p.log, a.last.at)
  BY DEF IsAccepted
<1>2. NodeOK(n) /\ a.last.at \in Nat /\ l \in Seq(Entries) /\ node[n].vote \in Votes
  BY NodeFacts DEF NodeInv
<1>3. p.vote.term > 0 /\ p.vote.done /\ p.log \in Seq(Entries)
  BY DEF SentInv, Mono, TypeInv
<1>4. a.vote = node[n].vote
  BY <1>1, <1>2, <1>3, ConstantTypes DEF NodeOK
<1>5. PICK p0 \in sent : p0.vote = p.vote
  BY <1>1, <1>2, <1>3, <1>4 DEF NodeOK, Led
<1>6. PICK q \in sent' : q.vote = p0.vote /\ Agree(p0.log, q.log, Len(p0.log))
  BY DEF Mono
<1>7. q = p
  BY <1>5, <1>6 DEF SentInv
<1>8. p0.log \in Seq(Entries) /\ Len(p0.log) \in Nat /\ Agree(l, p0.log, a.last.at)
      /\ a.last = EntryId(p0.log, a.last.at)
  BY <1>1, <1>5 DEF TypeInv, AcceptedInv
<1>9. Agree(p0.log, p.log, a.last.at)
  <2>1. a.last.at <= Len(p0.log)
    BY <1>8 DEF Agree
  <2>. QED  BY <1>2, <1>3, <1>6, <1>7, <1>8, <2>1, AgreeCut
<1>10. Agree(l, p.log, a.last.at)
  BY <1>8, <1>9, AgreeTrans
<1>11. EntryId(p0.log, a.last.at) = EntryId(p.log, a.last.at)
  BY <1>2, <1>9 DEF EntryId, Agree
<1>. QED  BY <1>8, <1>10, <1>11

\* AcceptedInv is kept.
LEMMA AcceptedInvKept ==
  ASSUME SafeInv, Mono, SentInv', Step
  PROVE  AcceptedInv'
<1>. USE DEF SafeInv
<1>. DEFINE OK(n) == IsAccepted(node'[n].log, node'[n].accepted)
<1>0. ASSUME NEW n \in Node
      PROVE  /\ node'[n].log \in Seq(Entries) /\ TypeInv' /\ node[n].log \in Seq(Entries)
             /\ Len(node'[n].log) \in Nat /\ node[n].vote \in Votes
  <2>1. TypeInv'
    BY DEF Mono
  <2>2. node'[n].log \in Seq(Entries)
    BY <2>1 DEF TypeInv, NodeStates
  <2>. QED  BY <2>1, <2>2, NodeFacts
<1>1. ASSUME NEW n \in Node, node'[n].log = node[n].log, node'[n].accepted = node[n].accepted  PROVE OK(n)
  BY <1>1, AcceptedKept
<1>2. ASSUME NEW n \in Node, node'[n].accepted.last = NoLogId  PROVE OK(n)
  BY <1>0, <1>2, NothingAccepted
<1>3. ASSUME NEW n \in Node, Published(node'[n]),
             node'[n].accepted = [vote |-> node'[n].vote, last |-> LastId(node'[n].log)]
      PROVE  OK(n)
  <2>. DEFINE t == node'[n]
  <2>1. ASSUME NEW p \in sent', p.vote = t.vote  PROVE p.log = t.log
    BY <1>3, <2>1 DEF Published, SentInv
  <2>2. LastId(t.log).at = Len(t.log) /\ LastId(t.log) = EntryId(t.log, Len(t.log)) /\ Agree(t.log, t.log, Len(t.log))
    BY <1>0, ConstantTypes DEF LastId, EntryId, Agree
  <2>. QED  BY <1>3, <2>1, <2>2 DEF IsAccepted
<1>4. ASSUME NEW n \in Node, InitializeStep(n)  PROVE Others(n) /\ OK(n)
  <2>1. node'[n].accepted = node[n].accepted /\ Others(n) /\ node[n].vote.term = 0
    BY <1>4, InitializeFields DEF InitializeStep
  <2>2. node[n].accepted = NoIO
    BY <1>0, <2>1 DEF NodeInv, NodeOK
  <2>. HIDE DEF OK
  <2>. QED  BY <1>2, <2>1, <2>2, ConstantTypes
<1>5. ASSUME NEW n \in Node, FlushStep(n)  PROVE Others(n) /\ OK(n)
  <2>. HIDE DEF OK
  <2>. QED  BY <1>1, <1>5, FlushFields DEF FlushStep
<1>6. ASSUME NEW n \in Node, ResumeStep(n)  PROVE Others(n) /\ OK(n)
  <2>1. Others(n) /\ node'[n].accepted = [vote |-> node'[n].vote, last |-> LastId(node'[n].log)] /\ Published(node'[n])
    BY <1>6 DEF ResumeStep
  <2>. HIDE DEF OK
  <2>. QED  BY <1>3, <2>1
<1>7. ASSUME NEW n \in Node, NEW v \in Votes, AdoptStep(n, v) \/ ElectStep(n, v)  PROVE Others(n) /\ OK(n)
  <2>1. Others(n) /\ node'[n].log = node[n].log /\ node'[n].accepted = AcceptedUnder(node[n], v)
    BY <1>7 DEF AdoptStep, ElectStep, IsAdopted, SameLog
  <2>2. node'[n].accepted = node[n].accepted \/ node'[n].accepted.last = NoLogId
    BY <2>1 DEF AcceptedUnder
  <2>. HIDE DEF OK
  <2>. QED  BY <1>1, <1>2, <2>1, <2>2
<1>8. ASSUME NEW n \in Node, NEW e \in Entries, WinStep(n, e) \/ WriteStep(n, e)  PROVE Others(n) /\ OK(n)
  <2>1. Others(n) /\ node'[n].accepted = [vote |-> node'[n].vote, last |-> LastId(node'[n].log)] /\ Published(node'[n])
    BY <1>8 DEF WinStep, WriteStep, GrowStep
  <2>. HIDE DEF OK
  <2>. QED  BY <1>3, <2>1
<1>9. ASSUME NEW n \in Node, NEW p \in sent, FollowStep(n, p)  PROVE Others(n) /\ OK(n)
  <2>. DEFINE s == node[n]  t == node'[n]
  <2>1. Others(n) /\ sent' = sent /\ (Late(s, t, p) \/ InTime(s, t, p))
    BY <1>9, FollowFields DEF FollowStep
  <2>2. CASE Late(s, t, p)
    <3>. HIDE DEF OK
    <3>. QED  BY <1>1, <2>1, <2>2 DEF Late
  <2>3. CASE InTime(s, t, p)
    <3>1. CASE t.accepted = AcceptedUnder(s, p.vote)
      <4>1. CASE VoteLt(s.vote, p.vote)
        <5>1. t.accepted.last = NoLogId
          BY <3>1, <4>1 DEF AcceptedUnder
        <5>. HIDE DEF OK
        <5>. QED  BY <1>2, <2>1, <5>1
      <4>2. CASE ~ VoteLt(s.vote, p.vote)
        <5>1. s.vote = p.vote /\ t.accepted = s.accepted /\ s.accepted.vote = p.vote
          <6>1. p.vote \in Votes /\ p.vote.term > 0 /\ ~ VoteLt(p.vote, s.vote)
            BY <2>3 DEF TypeInv, SentInv, InTime
          <6>2. s.vote = p.vote
            BY <1>0, <4>2, <6>1, VoteOrder
          <6>3. s.accepted.vote = s.vote
            BY <6>1, <6>2 DEF NodeInv, NodeOK
          <6>. QED  BY <3>1, <4>2, <6>2, <6>3 DEF AcceptedUnder
        <5>2. Agree(s.log, p.log, s.accepted.last.at) /\ s.accepted.last = EntryId(p.log, s.accepted.last.at)
              /\ s.accepted.last.at \in Nat /\ p.log \in Seq(Entries) /\ Len(p.log) \in Nat
          BY <5>1, NodeFacts DEF AcceptedInv, TypeInv
        <5>3. Agree(t.log, p.log, s.accepted.last.at)
          <6>1. CASE s.accepted.last.at = 0
            BY <1>0, <5>2, <6>1 DEF Agree
          <6>2. CASE s.accepted.last.at # 0
            <7>1. s.accepted.last.at \in 1..Len(p.log)
              BY <5>2, <6>2 DEF Agree
            <7>. QED  BY <2>3, <5>2, <7>1 DEF InTime
          <6>. QED  BY <6>1, <6>2
        <5>4. ASSUME NEW q \in sent', t.accepted.vote = q.vote  PROVE q = p
          BY <2>1, <5>1, <5>4 DEF SentInv
        <5>. QED  BY <2>1, <5>1, <5>2, <5>3, <5>4 DEF IsAccepted
      <4>. QED  BY <4>1, <4>2
    <3>2. ASSUME NEW j \in 1..Len(p.log), t.accepted = [vote |-> p.vote, last |-> EntryId(p.log, j)],
                 Agree(t.log, p.log, j)
          PROVE  Others(n) /\ OK(n)
      <4>1. EntryId(p.log, j).at = j
        <5>1. Len(p.log) \in Nat
          BY DEF TypeInv
        <5>. QED  BY <5>1 DEF EntryId
      <4>2. t.accepted.vote = p.vote /\ t.accepted.last = EntryId(p.log, j) /\ t.accepted.last.at = j
        BY <3>2, <4>1
      <4>3. ASSUME NEW q \in sent', t.accepted.vote = q.vote  PROVE q = p
        BY <2>1, <4>2, <4>3 DEF SentInv
      <4>. QED  BY <2>1, <3>2, <4>2, <4>3 DEF IsAccepted
    <3>3. \/ t.accepted = AcceptedUnder(s, p.vote)
          \/ \E j \in 1..Len(p.log) : /\ t.accepted = [vote |-> p.vote, last |-> EntryId(p.log, j)]
                                      /\ Agree(t.log, p.log, j)
      BY <2>3 DEF InTime
    <3>. HIDE DEF OK
    <3>. QED  BY <3>1, <3>2, <3>3
  <2>. QED  BY <2>1, <2>2, <2>3
<1>10. ASSUME NEW n \in Node, NEW i \in Nat, CommitStep(n, i)  PROVE Others(n) /\ OK(n)
  <2>. HIDE DEF OK
  <2>. QED  BY <1>1, <1>10, CommitFields DEF CommitStep
<1>11. ASSUME NEW n \in Node, NEW l \in Seq(Entries), RestartStep(n, l)  PROVE Others(n) /\ OK(n)
  <2>0. node'[n].accepted = [vote |-> node'[n].vote, last |-> NoLogId] /\ Others(n)
    BY <1>11, RestartFields DEF RestartStep
  <2>1. node'[n].accepted.last = NoLogId /\ Others(n)
    BY <2>0
  <2>. HIDE DEF OK
  <2>. QED  BY <1>2, <2>1
<1>12. \A m \in Node : OK(m)
  <2>1. CASE Still
    <3>1. \A m \in Node : node'[m] = node[m]
      BY <2>1 DEF Still
    <3>. HIDE DEF OK
    <3>. QED  BY <1>1, <3>1
  <2>2. ASSUME NEW n \in Node, Others(n), OK(n)  PROVE \A m \in Node : OK(m)
    <3>. HIDE DEF OK
    <3>. QED  BY <1>1, <2>2 DEF Others
  <2>. HIDE DEF OK
  <2>. QED
    BY <1>4, <1>5, <1>6, <1>7, <1>8, <1>9, <1>10, <1>11, <2>1, <2>2 DEF Step
<1>. QED  BY <1>12 DEF AcceptedInv, IsAccepted

\* A node changes by a step of its own.
StepOf(n) ==
  \/ InitializeStep(n) \/ FlushStep(n) \/ ResumeStep(n)
  \/ \E v \in Votes : AdoptStep(n, v) \/ ElectStep(n, v)
  \/ \E e \in Entries : WinStep(n, e) \/ WriteStep(n, e)
  \/ \E p \in sent : FollowStep(n, p)
  \/ \E i \in Nat : CommitStep(n, i)
  \/ \E l \in Seq(Entries) : RestartStep(n, l)

\* A node whose record changes takes a step.
LEMMA StepNode ==
  ASSUME Step, NEW m \in Node, node'[m] # node[m]
  PROVE  \/ InitializeStep(m) \/ FlushStep(m) \/ ResumeStep(m)
         \/ \E v \in Votes : AdoptStep(m, v) \/ ElectStep(m, v)
         \/ \E e \in Entries : WinStep(m, e) \/ WriteStep(m, e)
         \/ \E p \in sent : FollowStep(m, p)
         \/ \E i \in Nat : CommitStep(m, i)
         \/ \E l \in Seq(Entries) : RestartStep(m, l)
<1>1. ~ Still
  BY DEF Still
<1>2. PICK n \in Node : StepOf(n)
  BY <1>1 DEF Step, StepOf
<1>3. Others(n)
  BY <1>2 DEF StepOf, InitializeStep, FlushStep, ResumeStep, AdoptStep, ElectStep, WinStep, WriteStep,
     GrowStep, FollowStep, CommitStep, RestartStep
<1>4. m = n
  BY <1>3 DEF Others
<1>. QED  BY <1>2, <1>4 DEF StepOf

\* Log ids are in total order.
LEMMA LogOrder ==
  ASSUME NEW a \in LogIds, NEW b \in LogIds, NEW c \in LogIds
  PROVE  /\ ~ LogLt(a, a)
         /\ ~ LogLt(a, b) /\ ~ LogLt(b, c) => ~ LogLt(a, c)
<1>1. a.id \in Ids /\ b.id \in Ids /\ c.id \in Ids /\ a.at \in Nat /\ b.at \in Nat /\ c.at \in Nat
  BY DEF LogIds
<1>. QED  BY <1>1, IdOrder DEF LogLt

\* The id of an entry.
LEMMA EntryIdType ==
  ASSUME NEW l \in Seq(Entries), NEW i \in 0..Len(l)
  PROVE  EntryId(l, i) \in LogIds /\ EntryId(l, i).at = i /\ (i > 0 => EntryId(l, i).id = l[i].id)
<1>1. Len(l) \in Nat
  OBVIOUS
<1>2. CASE i = 0
  BY <1>2, ConstantTypes DEF EntryId
<1>3. CASE i # 0
  <2>1. i \in 1..Len(l) /\ l[i] \in Entries
    BY <1>1, <1>3
  <2>. QED  BY <1>3, <2>1 DEF EntryId, LogIds, Entries
<1>. QED  BY <1>2, <1>3

\* What is acknowledged was in the leader's log.
LEMMA AckedWasSent ==
  ASSUME SafeInv, Mono, Step, NEW b \in acked'
  PROVE  /\ ~ VoteLt(node'[b.from].vote, b.vote) /\ b.upto \in Nat /\ b.vote \in Votes /\ b.from \in Node
         /\ \E p \in sent : p.vote = b.vote /\ b.upto <= Len(p.log)
<1>. USE DEF SafeInv
<1>1. CASE b \in acked
  <2>1. PICK p \in sent : p.vote = b.vote /\ b.upto <= Len(p.log)
    BY <1>1 DEF AckedInv
  <2>2. b.vote \in Votes /\ b.from \in Node /\ b.upto \in Nat /\ p.vote.term > 0
        /\ ~ VoteLt(node[b.from].vote, b.vote)
    BY <1>1 DEF AckedInv, TypeInv, SentInv
  <2>. QED  BY <2>1, <2>2 DEF Mono
<1>2. CASE b \notin acked
  <2>1. PICK n \in Node : FlushStep(n)
    BY <1>2, AckedSame
  <2>. DEFINE s == node[n]  a == node[n].accepted
  <2>2. s \in NodeStates /\ a \in IOs /\ s.vote \in Votes /\ a.last.at \in Nat /\ NodeOK(n)
    BY NodeFacts DEF NodeInv
  <2>3. b.vote = a.vote /\ b.from = n /\ b.upto = a.last.at /\ a.last # NoLogId
    BY <1>2, <2>1, <2>2, AcknowledgeIs DEF FlushStep
  <2>4. a.vote = s.vote /\ s.vote.term > 0 /\ s.vote.done
    BY <2>2, <2>3, ConstantTypes DEF NodeOK
  <2>5. PICK p \in sent : p.vote = s.vote
    BY <2>2, <2>4 DEF NodeOK, Led
  <2>6. Agree(s.log, p.log, a.last.at)
    BY <2>4, <2>5 DEF AcceptedInv
  <2>7. node'[n].vote = s.vote /\ ~ VoteLt(s.vote, s.vote)
    BY <2>1, <2>2, FlushFields, VoteOrder
  <2>. QED  BY <2>2, <2>3, <2>4, <2>5, <2>6, <2>7 DEF Agree
<1>. QED  BY <1>1, <1>2

\* An open entry that someone has acknowledged was open before.
LEMMA OpenWas ==
  ASSUME SafeInv, Mono, SentInv', Step, NEW m \in Node, NEW p \in sent', NEW i \in 1..Len(p.log),
         HasAcked(m, p.vote, i)', Open(p, i)'
  PROVE  \E p0 \in sent : /\ p0.vote = p.vote /\ Agree(p0.log, p.log, Len(p0.log))
                          /\ i \in 1..Len(p0.log) /\ Open(p0, i)
<1>. USE DEF SafeInv
<1>1. PICK b \in acked' : b.vote = p.vote /\ b.from = m /\ b.upto >= i
  BY DEF HasAcked
<1>2. PICK p0 \in sent : p0.vote = b.vote /\ b.upto <= Len(p0.log)
  BY AckedWasSent
<1>3. PICK q \in sent' : q.vote = p0.vote /\ Agree(p0.log, q.log, Len(p0.log))
  BY DEF Mono
<1>4. q = p
  BY <1>1, <1>2, <1>3 DEF SentInv
<1>5. i \in 1..Len(p0.log)
  <2>1. b.upto \in Nat /\ Len(p0.log) \in Nat /\ Len(p.log) \in Nat
    <3>1. b.upto \in Nat
      BY AckedWasSent
    <3>2. p0.log \in Seq(Entries) /\ p.log \in Seq(Entries)
      BY DEF TypeInv, Mono
    <3>. QED  BY <3>1, <3>2
  <2>. QED  BY <1>1, <1>2, <2>1
<1>6. Open(p0, i)
  BY <1>1, <1>2, <1>3, <1>4, <1>5, MonoOpen
<1>. QED  BY <1>1, <1>2, <1>3, <1>4, <1>5, <1>6

\* What a node acknowledged to a leader stays in its log and on its disk.
LEMMA AckedStays ==
  ASSUME SafeInv, Mono, Step, NEW m \in Node, NEW p \in sent, NEW i \in 1..Len(p.log), Open(p, i),
         HasAcked(m, p.vote, i)'
  PROVE  Agree(node'[m].log, p.log, i) /\ Agree(node'[m].disk, p.log, i)
<1>. USE DEF SafeInv
<1>. DEFINE s == node[m]  t == node'[m]
<1>0. /\ p.vote \in Votes /\ p.log \in Seq(Entries) /\ Len(p.log) \in Nat /\ s.vote \in Votes
      /\ s.log \in Seq(Entries) /\ s.disk \in Seq(Entries) /\ i \in Nat /\ i > 0
      /\ t.log \in Seq(Entries) /\ Len(s.log) \in Nat /\ s \in NodeStates
  <2>1. t.log \in Seq(Entries)
    BY DEF Mono, TypeInv, NodeStates
  <2>2. p.vote \in Votes /\ p.log \in Seq(Entries)
    BY DEF TypeInv
  <2>. QED  BY <2>1, <2>2, NodeFacts
<1>1. CASE ~ HasAcked(m, p.vote, i)
  <2>1. PICK b \in acked' : b.vote = p.vote /\ b.from = m /\ b.upto >= i
    BY DEF HasAcked
  <2>2. b \notin acked
    BY <1>1, <2>1 DEF HasAcked
  <2>3. PICK n \in Node : FlushStep(n)
    BY <2>2, AckedSame
  <2>4. node[n].accepted \in IOs
    BY NodeFacts
  <2>5. b.vote = node[n].accepted.vote /\ b.from = n /\ b.upto = node[n].accepted.last.at
    BY <2>2, <2>3, <2>4, AcknowledgeIs DEF FlushStep
  <2>6. Agree(s.log, p.log, s.accepted.last.at) /\ s.accepted.last.at \in Nat /\ s.accepted.last.at >= i
    BY <2>1, <2>5, NodeFacts DEF AcceptedInv
  <2>7. Agree(s.log, p.log, i)
    BY <1>0, <2>6, AgreeCut
  <2>8. t.log = s.log /\ t.disk = s.log
    BY <2>1, <2>3, <2>5, FlushFields
  <2>. QED  BY <2>7, <2>8
<1>2. CASE HasAcked(m, p.vote, i)
  <2>1. Agree(s.log, p.log, i) /\ Agree(s.disk, p.log, i)
    BY <1>2 DEF AckedInv
  <2>2. ~ VoteLt(s.vote, p.vote)
    BY <1>2 DEF AckedInv, HasAcked
  <2>3. CASE t = s
    BY <2>1, <2>3
  <2>4. ASSUME (t.log = s.log \/ t.log = s.disk), (t.disk = s.log \/ t.disk = s.disk)
        PROVE  Agree(t.log, p.log, i) /\ Agree(t.disk, p.log, i)
    BY <2>1, <2>4
  <2>5. CASE InitializeStep(m)
    <3>1. s.log = <<>>
      BY <2>5 DEF InitializeStep
    <3>. QED  BY <1>0, <2>1, <3>1 DEF Agree
  <2>6. CASE FlushStep(m)
    BY <2>4, <2>6, FlushFields
  <2>7. CASE ResumeStep(m)
    BY <2>4, <2>7 DEF ResumeStep
  <2>8. ASSUME NEW v \in Votes, AdoptStep(m, v) \/ ElectStep(m, v)
        PROVE  Agree(t.log, p.log, i) /\ Agree(t.disk, p.log, i)
    <3>1. t.log = s.log /\ (t.disk = s.log \/ t.disk = s.disk)
      BY <2>8 DEF AdoptStep, ElectStep, IsAdopted, SameLog
    <3>. QED  BY <2>4, <3>1
  <2>9. ASSUME NEW e \in Entries, WinStep(m, e) \/ WriteStep(m, e)
        PROVE  Agree(t.log, p.log, i) /\ Agree(t.disk, p.log, i)
    <3>1. t.log = Append(s.log, e) /\ (t.disk = s.log \/ t.disk = s.disk)
      BY <2>9 DEF WinStep, WriteStep, GrowStep
    <3>2. i <= Len(s.log)
      BY <2>1 DEF Agree
    <3>3. Agree(t.log, s.log, i)
      BY <1>0, <3>1, <3>2 DEF Agree
    <3>. QED  BY <2>1, <3>1, <3>3, AgreeTrans
  <2>10. ASSUME NEW q \in sent, FollowStep(m, q)
         PROVE  Agree(t.log, p.log, i) /\ Agree(t.disk, p.log, i)
    <3>1. Late(s, t, q) \/ InTime(s, t, q)
      BY <2>10, FollowFields
    <3>2. CASE Late(s, t, q)
      BY <2>4, <3>2 DEF Late
    <3>3. CASE InTime(s, t, q)
      <4>1. q.vote \in Votes /\ ~ VoteLt(q.vote, s.vote) /\ q.log \in Seq(Entries) /\ Len(q.log) \in Nat
        BY <3>3 DEF TypeInv, InTime
      <4>2. ~ VoteLt(q.vote, p.vote)
        BY <1>0, <2>2, <4>1, VoteOrder
      <4>3. Agree(p.log, q.log, i)
        <5>1. CASE q.vote = p.vote
          <6>1. q = p
            BY <5>1 DEF SentInv
          <6>. QED  BY <1>0, <6>1 DEF Agree
        <5>2. CASE VoteLt(p.vote, q.vote)
          BY <5>2 DEF CompleteInv
        <5>. QED  BY <1>0, <4>1, <4>2, <5>1, <5>2, VoteOrder
      <4>4. Agree(s.log, q.log, i)
        BY <2>1, <4>3, AgreeTrans
      <4>5. i \in 1..Len(q.log)
        BY <1>0, <4>1, <4>3 DEF Agree
      <4>6. Agree(t.log, q.log, i)
        BY <3>3, <4>4, <4>5 DEF InTime
      <4>7. Agree(t.log, p.log, i)
        BY <4>3, <4>6, AgreeTrans, AgreeSym
      <4>8. t.disk = s.log \/ t.disk = s.disk
        BY <3>3 DEF InTime
      <4>. QED  BY <2>1, <4>7, <4>8
    <3>. QED  BY <3>1, <3>2, <3>3
  <2>11. ASSUME NEW k \in Nat, CommitStep(m, k)
         PROVE  Agree(t.log, p.log, i) /\ Agree(t.disk, p.log, i)
    BY <2>4, <2>11, CommitFields
  <2>12. ASSUME NEW l \in Seq(Entries), RestartStep(m, l)
         PROVE  Agree(t.log, p.log, i) /\ Agree(t.disk, p.log, i)
    <3>1. t.log = l /\ t.disk = l /\ (l = s.log \/ l = s.disk)
      BY <2>12, RestartFields DEF RestartStep
    <3>. QED  BY <2>4, <3>1
  <2>13. CASE t # s
    <3>. HIDE DEF SafeInv
    <3>. QED  BY <2>5, <2>6, <2>7, <2>8, <2>9, <2>10, <2>11, <2>12, <2>13, StepNode
  <2>. QED  BY <2>3, <2>13
<1>. QED  BY <1>1, <1>2

\* AckedInv is kept: what a node acknowledged it keeps while a quorum may.
LEMMA AckedInvKept ==
  ASSUME SafeInv, Mono, SentInv', Step
  PROVE  AckedInv'
<1>. USE DEF SafeInv
<1>1. ASSUME NEW b \in acked'
      PROVE  /\ ~ VoteLt(node'[b.from].vote, b.vote)
             /\ \E p \in sent' : p.vote = b.vote /\ b.upto <= Len(p.log)
  <2>1. PICK p \in sent : p.vote = b.vote /\ b.upto <= Len(p.log)
    BY AckedWasSent
  <2>2. PICK q \in sent' : q.vote = p.vote /\ Agree(p.log, q.log, Len(p.log))
    BY DEF Mono
  <2>3. b.upto \in Nat /\ Len(p.log) \in Nat /\ Len(q.log) \in Nat
    <3>1. p.log \in Seq(Entries) /\ q.log \in Seq(Entries)
      BY DEF Mono, TypeInv
    <3>. QED  BY <3>1, AckedWasSent
  <2>4. b.upto <= Len(q.log)
    BY <2>1, <2>2, <2>3 DEF Agree
  <2>. QED  BY <2>1, <2>2, <2>4, AckedWasSent
<1>2. ASSUME NEW p \in sent', NEW n \in Node, NEW i \in 1..Len(p.log), HasAcked(n, p.vote, i)', Open(p, i)'
      PROVE  Agree(node'[n].log, p.log, i) /\ Agree(node'[n].disk, p.log, i)
  <2>1. PICK p0 \in sent : /\ p0.vote = p.vote /\ Agree(p0.log, p.log, Len(p0.log))
                           /\ i \in 1..Len(p0.log) /\ Open(p0, i)
    BY <1>2, OpenWas
  <2>2. Agree(node'[n].log, p0.log, i) /\ Agree(node'[n].disk, p0.log, i)
    BY <1>2, <2>1, AckedStays
  <2>3. Agree(p0.log, p.log, i)
    <3>1. p.log \in Seq(Entries) /\ p0.log \in Seq(Entries) /\ Len(p0.log) \in Nat
      BY DEF Mono, TypeInv
    <3>. QED  BY <2>1, <3>1, AgreeCut
  <2>. QED  BY <2>2, <2>3, AgreeTrans
<1>. QED  BY <1>1, <1>2 DEF AckedInv

\* GrantInv is kept: the vote is compared with a log that has what was acknowledged.
LEMMA GrantInvKept ==
  ASSUME SafeInv, Mono, SentInv', AskedInv', Step
  PROVE  GrantInv'
<1>. USE DEF SafeInv
<1>1. SUFFICES ASSUME NEW g \in granted', NEW q \in asked', NEW p \in sent', NEW i \in 1..Len(p.log),
                      q.vote = g.vote, VoteLt(p.vote, g.vote), HasAcked(g.from, p.vote, i)', Open(p, i)'
               PROVE  ~ LogLt(q.last, EntryId(p.log, i))
  BY DEF GrantInv
<1>2. /\ g.from \in Node /\ g.vote \in Votes /\ p.vote \in Votes /\ p.log \in Seq(Entries) /\ Len(p.log) \in Nat
      /\ q.last \in LogIds /\ i \in Nat
  <2>1. TypeInv'
    BY DEF Mono
  <2>. QED  BY <2>1 DEF TypeInv
<1>3. PICK p0 \in sent : /\ p0.vote = p.vote /\ Agree(p0.log, p.log, Len(p0.log))
                         /\ i \in 1..Len(p0.log) /\ Open(p0, i)
  BY <1>1, <1>2, OpenWas
<1>4. p0.log \in Seq(Entries) /\ Len(p0.log) \in Nat /\ EntryId(p0.log, i) = EntryId(p.log, i)
  <2>1. p0.log \in Seq(Entries)
    BY DEF TypeInv
  <2>. QED  BY <1>2, <1>3, <2>1 DEF Agree, EntryId
<1>5. CASE g \in granted
  <2>1. PICK q0 \in asked : q0.vote = g.vote
    BY <1>5 DEF GrantedInv
  <2>2. q0 = q
    BY <1>1, <2>1 DEF AskedInv, Mono
  <2>3. ~ VoteLt(node[g.from].vote, g.vote) /\ node[g.from].vote \in Votes
    BY <1>2, <1>5, NodeFacts DEF GrantedInv
  <2>4. VoteLt(p.vote, node[g.from].vote)
    BY <1>1, <1>2, <2>3, VoteOrder
  <2>5. HasAcked(g.from, p.vote, i)
    <3>1. \A n \in Node : \A v \in Votes : \A j \in Nat :
             HasAcked(n, v, j)' => HasAcked(n, v, j) \/ ~ VoteLt(v, node[n].vote)
      BY DEF Mono
    <3>2. \E b \in acked' : b.vote = p.vote /\ b.from = g.from /\ b.upto >= i
      BY <1>1 DEF HasAcked
    <3>. QED  BY <1>2, <2>4, <3>1, <3>2 DEF HasAcked
  <2>6. ~ LogLt(q0.last, EntryId(p0.log, i))
    BY <1>1, <1>3, <1>5, <2>1, <2>5 DEF GrantInv
  <2>. QED  BY <1>4, <2>2, <2>6
<1>6. CASE g \notin granted
  <2>0. PICK n \in Node, v \in Votes : AdoptStep(n, v) \/ ElectStep(n, v)
    BY <1>6, AskedSame
  <2>1. g = [vote |-> v, from |-> n] /\ acked' = acked
    BY <1>6, <2>0 DEF AdoptStep, ElectStep
  <2>2. g.vote = v /\ g.from = n
    BY <2>1
  <2>. DEFINE l == node[n].log
  <2>3. l \in Seq(Entries) /\ Len(l) \in Nat /\ Origin(l)
    BY NodeFacts DEF LogInv
  <2>4. ~ LogLt(q.last, LastId(l))
    <3>1. CASE AdoptStep(n, v)
      BY <1>1, <1>6, <2>2, <3>1 DEF AdoptStep, AskedInv
    <3>2. CASE ElectStep(n, v)
      <4>1. [vote |-> v, last |-> LastId(l)] \in asked'
        BY <3>2 DEF ElectStep
      <4>2. q = [vote |-> v, last |-> LastId(l)]
        BY <1>1, <2>2, <4>1 DEF AskedInv
      <4>3. LastId(l) = q.last
        BY <4>2
      <4>. QED  BY <1>2, <4>3, LogOrder
    <3>. QED  BY <2>0, <3>1, <3>2
  <2>5. HasAcked(n, p0.vote, i)
    BY <1>1, <1>3, <2>1, <2>2 DEF HasAcked
  <2>6. Agree(l, p0.log, i)
    BY <1>3, <2>5 DEF AckedInv
  <2>7. EntryId(l, i) = EntryId(p0.log, i) /\ i \in 0..Len(l) /\ Len(l) \in 0..Len(l)
    BY <1>2, <2>3, <2>6 DEF Agree, EntryId
  <2>8. ~ LogLt(LastId(l), EntryId(l, i)) /\ LastId(l) \in LogIds /\ EntryId(l, i) \in LogIds
    BY <1>2, <2>3, <2>7, LogIdOrder, EntryIdType DEF LastId
  <2>. QED  BY <1>2, <1>4, <2>4, <2>7, <2>8, LogOrder
<1>. QED  BY <1>5, <1>6

\* Under a later leader, an open entry was acknowledged by a node that granted
\* the later vote.
LEMMA OpenMeets ==
  ASSUME TypeInv', SentInv', GrantedInv', NEW p \in sent', NEW q \in sent', VoteLt(p.vote, q.vote),
         NEW i \in 1..Len(p.log), Open(p, i)'
  PROVE  \E m \in Node : /\ HasAcked(m, p.vote, i)'
                         /\ \E g \in granted' : g.vote = Undone(q.vote) /\ g.from = m
<1>. DEFINE A == {n \in Node : HasAcked(n, p.vote, i)' \/ ~ VoteLt(p.vote, node'[n].vote)}
            B == {n \in Node : \E g \in granted' : g.vote = Undone(q.vote) /\ g.from = n}
<1>1. HasQuorum(A)
  BY DEF Open, Choosable
<1>2. HasQuorum(B)
  BY DEF SentInv, Granters
<1>3. PICK m \in Node : m \in A /\ m \in B
  <2>. HIDE DEF A, B
  <2>. QED  BY <1>1, <1>2, QuorumsMeet
<1>4. PICK g \in granted' : g.vote = Undone(q.vote) /\ g.from = m
  BY <1>3
<1>5. p.vote \in Votes /\ q.vote \in Votes /\ p.vote.done /\ q.vote.done /\ node'[m].vote \in Votes
  BY DEF TypeInv, SentInv, NodeStates
<1>6. VoteLt(p.vote, Undone(q.vote)) /\ Undone(q.vote) \in Votes
  BY <1>5, UndoneVotes
<1>7. ~ VoteLt(node'[m].vote, Undone(q.vote))
  BY <1>4 DEF GrantedInv
<1>8. VoteLt(p.vote, node'[m].vote)
  BY <1>5, <1>6, <1>7, VoteOrder
<1>. QED  BY <1>3, <1>4, <1>8

\* A new leader has what is open.
LEMMA WinnerComplete ==
  ASSUME SafeInv, NEW n \in Node, node[n].role = "candidate", NEW p \in sent, VoteLt(p.vote, node[n].vote),
         NEW i \in 1..Len(p.log), Open(p, i), NEW g \in granted, g.vote = node[n].vote,
         HasAcked(g.from, p.vote, i)
  PROVE  Agree(p.log, node[n].log, i)
<1>. USE DEF SafeInv
<1>. DEFINE s == node[n]  l == node[n].log  L == Len(node[n].log)  id == LeaderId(p.vote)
<1>0. /\ p.vote \in Votes /\ p.log \in Seq(Entries) /\ Len(p.log) \in Nat /\ l \in Seq(Entries) /\ L \in Nat
      /\ id \in Ids /\ Origin(l) /\ i \in Nat /\ p.log[i].id = id /\ p.vote.term > 0
  BY NodeFacts, LeaderIds DEF TypeInv, LogInv, Open, SentInv
<1>1. PICK q \in asked : q.vote = s.vote /\ q.last = LastId(l)
  BY DEF NodeInv, NodeOK
<1>2. ~ LogLt(LastId(l), EntryId(p.log, i))
  BY <1>1 DEF GrantInv
<1>3. EntryId(p.log, i) = [id |-> id, at |-> i]
  BY <1>0 DEF EntryId
<1>4. IdLt(<<0, 0>>, id)
  BY <1>0 DEF LeaderId, IdLt, Votes
<1>5. L > 0
  <2>1. SUFFICES ASSUME L = 0  PROVE FALSE
    BY <1>0
  <2>2. LastId(l).id = <<0, 0>>
    BY <2>1, ConstantTypes DEF LastId, EntryId
  <2>. QED  BY <1>2, <1>3, <1>4, <2>2 DEF LogLt
<1>6. LastId(l) = [id |-> l[L].id, at |-> L] /\ L \in 1..L /\ l[L].id \in Ids
  <2>1. l[L] \in Entries /\ LastId(l) = [id |-> l[L].id, at |-> L]
    BY <1>0, <1>5 DEF LastId, EntryId
  <2>. QED  BY <1>0, <1>5, <2>1 DEF Entries
<1>7. ~ IdLt(l[L].id, id) /\ (l[L].id = id => i <= L)
  BY <1>0, <1>2, <1>3, <1>6 DEF LogLt
<1>8. PICK x \in sent : LeaderId(x.vote) = l[L].id /\ Agree(l, x.log, L)
  <2>1. FromLeader(l, L)
    BY <1>0, <1>6 DEF Origin
  <2>2. CASE L = 1 /\ l[1] = InitialEntry
    BY <1>4, <1>7, <2>2, ConstantTypes
  <2>. QED  BY <2>1, <2>2 DEF FromLeader
<1>9. x.vote \in Votes /\ x.log \in Seq(Entries) /\ Len(x.log) \in Nat
  BY DEF TypeInv
<1>10. CASE l[L].id = id
  <2>1. x = p
    BY <1>8, <1>10, OneLeader
  <2>2. Agree(l, p.log, i)
    BY <1>0, <1>7, <1>8, <1>10, <2>1, AgreeCut
  <2>. QED  BY <2>2, AgreeSym
<1>11. CASE IdLt(id, l[L].id)
  <2>1. VoteLt(p.vote, x.vote)
    BY <1>0, <1>8, <1>9, <1>11, VoteIdOrder
  <2>2. Agree(p.log, x.log, i)
    BY <2>1 DEF CompleteInv
  <2>3. i \in 1..Len(x.log) /\ L \in 1..Len(x.log) /\ x.log[i].id = id /\ x.log[L].id = l[L].id
    BY SMTT(30), <1>0, <1>5, <1>8, <1>9, <2>2 DEF Agree
  <2>4. i <= L
    <3>1. SUFFICES ASSUME L <= i  PROVE FALSE
      BY <1>0
    <3>2. ~ IdLt(x.log[i].id, x.log[L].id)
      BY <2>3, <3>1 DEF SentInv
    <3>. QED  BY <1>11, <2>3, <3>2
  <2>5. Agree(l, x.log, i)
    BY <1>0, <1>8, <1>9, <2>4, AgreeCut
  <2>. QED  BY <2>2, <2>5, AgreeTrans, AgreeSym
<1>. QED  BY <1>0, <1>6, <1>7, <1>10, <1>11, IdOrder

\* CompleteInv is kept: leader completeness.
LEMMA CompleteInvKept ==
  ASSUME SafeInv, Mono, SentInv', GrantedInv', Step
  PROVE  CompleteInv'
<1>. USE DEF SafeInv
<1>1. SUFFICES ASSUME NEW p \in sent', NEW q \in sent', NEW i \in 1..Len(p.log), VoteLt(p.vote, q.vote), Open(p, i)'
               PROVE  Agree(p.log, q.log, i)
  BY DEF CompleteInv
<1>2. /\ p.log \in Seq(Entries) /\ q.log \in Seq(Entries) /\ i \in Nat /\ TypeInv'
      /\ p.vote \in Votes /\ q.vote \in Votes
  <2>1. TypeInv'
    BY DEF Mono
  <2>. QED  BY <2>1 DEF TypeInv
<1>3. PICK m \in Node : /\ HasAcked(m, p.vote, i)'
                        /\ \E g \in granted' : g.vote = Undone(q.vote) /\ g.from = m
  BY <1>1, <1>2, OpenMeets
<1>4. PICK p0 \in sent : /\ p0.vote = p.vote /\ Agree(p0.log, p.log, Len(p0.log))
                         /\ i \in 1..Len(p0.log) /\ Open(p0, i)
  BY <1>1, <1>3, OpenWas
<1>5. p0.log \in Seq(Entries) /\ Len(p0.log) \in Nat /\ Agree(p.log, p0.log, i)
  <2>1. p0.log \in Seq(Entries) /\ Len(p0.log) \in Nat
    BY DEF TypeInv
  <2>. QED  BY <1>2, <1>4, <2>1, AgreeCut, AgreeSym
<1>6. CASE \E q0 \in sent : q0.vote = q.vote
  <2>1. PICK q0 \in sent : q0.vote = q.vote
    BY <1>6
  <2>2. PICK q1 \in sent' : q1.vote = q0.vote /\ Agree(q0.log, q1.log, Len(q0.log))
    BY DEF Mono
  <2>3. q1 = q
    BY <2>1, <2>2 DEF SentInv
  <2>4. Agree(p0.log, q0.log, i)
    BY <1>1, <1>4, <2>1 DEF CompleteInv
  <2>5. Agree(q0.log, q.log, i)
    <3>1. q0.log \in Seq(Entries) /\ Len(q0.log) \in Nat
      BY DEF TypeInv
    <3>2. i <= Len(q0.log)
      BY <2>4 DEF Agree
    <3>. QED  BY <1>2, <2>2, <2>3, <3>1, <3>2, AgreeCut
  <2>. QED  BY <1>5, <2>4, <2>5, AgreeTrans
<1>7. CASE ~ \E q0 \in sent : q0.vote = q.vote
  <2>1. PICK n \in Node : \/ \E e \in Entries : WinStep(n, e) \/ WriteStep(n, e)
                          \/ \E k \in Nat : CommitStep(n, k)
                          \/ ResumeStep(n)
    BY <1>7, SentSame
  <2>. DEFINE s == node[n]  t == node'[n]
  <2>2. /\ Published(t) /\ t.vote \in Votes
        /\ \A x \in sent : x.vote = t.vote => x.log = s.log /\ Agree(x.log, t.log, Len(x.log))
    BY <2>1, LeaderGrows
  <2>3. q.vote = t.vote /\ q.log = t.log
    BY <1>7, <2>2, PublishedFacts
  <2>4. s.role # "leader" \/ t.vote # s.vote
    BY <1>7, <2>3 DEF NodeInv, NodeOK
  <2>5. PICK e \in Entries : WinStep(n, e)
    BY <2>1, <2>4, CommitFields DEF WriteStep, CommitStep, ResumeStep
  <2>6. /\ t.log = Append(s.log, e) /\ s.role = "candidate" /\ t.vote = [s.vote EXCEPT !.done = TRUE]
        /\ granted' = granted /\ acked' = acked
    BY <2>5 DEF WinStep, GrowStep
  <2>7. Undone(q.vote) = s.vote /\ s.vote \in Votes
    <3>1. ~ s.vote.done /\ s.vote \in Votes
      BY <2>6, NodeFacts DEF NodeInv, NodeOK
    <3>2. q.vote.term = s.vote.term /\ q.vote.node = s.vote.node /\ q.vote.done
      BY <2>3, <2>6, <3>1 DEF Votes
    <3>. QED  BY <1>2, <3>1, <3>2, UndoneVotes
  <2>8. VoteLt(p.vote, s.vote)
    <3>1. p.vote.done /\ q.vote.done
      BY DEF SentInv
    <3>. QED  BY <1>1, <1>2, <2>7, <3>1, UndoneVotes
  <2>9. PICK g \in granted : g.vote = s.vote /\ g.from = m
    BY <1>3, <2>6, <2>7
  <2>10. HasAcked(g.from, p0.vote, i)
    BY <1>3, <1>4, <2>6, <2>9 DEF HasAcked
  <2>11. Agree(p0.log, s.log, i)
    BY <1>4, <2>6, <2>8, <2>9, <2>10, WinnerComplete
  <2>12. Agree(s.log, q.log, i)
    <3>1. s.log \in Seq(Entries) /\ Len(s.log) \in Nat
      BY NodeFacts
    <3>2. i <= Len(s.log)
      BY <2>11 DEF Agree
    <3>. QED  BY <1>2, <2>3, <2>6, <3>1, <3>2 DEF Agree
  <2>. QED  BY <1>5, <2>11, <2>12, AgreeTrans
<1>. QED  BY <1>6, <1>7

\* What is chosen stays acknowledged by a quorum, in a log that grows.
LEMMA ChosenStays ==
  ASSUME SafeInv, Mono, NEW p \in sent, NEW i, HasChosen(p, i)
  PROVE  \E q \in sent' : q.vote = p.vote /\ HasChosen(q, i)' /\ Agree(p.log, q.log, i)
<1>. USE DEF SafeInv
<1>1. PICK q \in sent' : q.vote = p.vote /\ Agree(p.log, q.log, Len(p.log))
  BY DEF Mono
<1>2. p.vote \in Votes /\ p.log \in Seq(Entries) /\ q.log \in Seq(Entries) /\ Len(p.log) \in Nat
      /\ i \in 1..Len(p.log) /\ i \in Nat /\ Len(q.log) \in Nat
  <2>1. p.vote \in Votes /\ p.log \in Seq(Entries) /\ q.log \in Seq(Entries)
    BY DEF TypeInv, Mono
  <2>2. i \in 1..Len(p.log)
    BY DEF HasChosen
  <2>. QED  BY <2>1, <2>2
<1>3. Agree(p.log, q.log, i)
  BY <1>1, <1>2, AgreeCut
<1>4. i \in 1..Len(q.log) /\ q.log[i].id = LeaderId(q.vote)
  BY <1>1, <1>2, <1>3 DEF Agree, HasChosen
<1>5. HasQuorum({n \in Node : HasAcked(n, q.vote, i)'})
  <2>. DEFINE A == {n \in Node : HasAcked(n, p.vote, i)}
              B == {n \in Node : HasAcked(n, q.vote, i)'}
  <2>1. HasQuorum(A)
    BY DEF HasChosen
  <2>2. \A n \in Node : n \in A => n \in B
    BY <1>1, <1>2 DEF Mono
  <2>. HIDE DEF A, B
  <2>3. HasQuorum(B)
    BY <2>1, <2>2, QuorumGrows
  <2>. QED  BY <2>3 DEF B
<1>6. HasChosen(q, i)'
  BY <1>4, <1>5 DEF HasChosen
<1>. QED  BY <1>1, <1>3, <1>6

\* ChosenInv is kept.
LEMMA ChosenInvKept ==
  ASSUME SafeInv, Mono, Step
  PROVE  ChosenInv'
<1>. USE DEF SafeInv
<1>1. CASE chosen' = chosen
  <2>1. SUFFICES ASSUME chosen # <<>>
                 PROVE  \E q \in sent' : HasChosen(q, Len(chosen))' /\ Agree(chosen, q.log, Len(chosen))
    BY <1>1 DEF ChosenInv
  <2>2. PICK p \in sent : HasChosen(p, Len(chosen)) /\ Agree(chosen, p.log, Len(chosen))
    BY <2>1 DEF ChosenInv
  <2>3. PICK k : k = Len(chosen)
    OBVIOUS
  <2>4. PICK q \in sent' : HasChosen(q, k)' /\ Agree(p.log, q.log, k)
    BY <2>2, <2>3, ChosenStays
  <2>5. Agree(chosen, q.log, k)
    BY <2>2, <2>3, <2>4, AgreeTrans
  <2>6. k = Len(chosen')
    BY <1>1, <2>3
  <2>. QED  BY <2>3, <2>4, <2>5, <2>6 DEF HasChosen
<1>2. ASSUME chosen' # chosen  PROVE ChosenInv'
  <2>1. PICK n \in Node : \E i \in Nat : CommitStep(n, i)
    BY <1>2, ChosenSame
  <2>2. PICK i \in Nat : CommitStep(n, i)
    BY <2>1
  <2>3. Len(chosen') = i /\ \E p \in sent : HasChosen(p, i) /\ Agree(chosen', p.log, i)
    BY <1>2, <2>2, CommitChosen
  <2>4. PICK p \in sent : HasChosen(p, i) /\ Agree(chosen', p.log, i)
    BY <2>3
  <2>5. PICK q \in sent' : HasChosen(q, i)' /\ Agree(p.log, q.log, i)
    BY <2>4, ChosenStays
  <2>6. Agree(chosen', q.log, i)
    BY <2>4, <2>5, AgreeTrans
  <2>. QED  BY <2>3, <2>5, <2>6 DEF ChosenInv, HasChosen
<1>. QED  BY <1>1, <1>2

\* Justified, after the step.
JustNext(v, k) ==
  /\ k <= Len(chosen')
  /\ k > 0 => \E p \in sent' : \E i \in k..Len(p.log) :
                ~ VoteLt(v, p.vote) /\ HasChosen(p, i)' /\ Agree(chosen', p.log, k)

\* Nothing needs no reason.
LEMMA JustZero ==
  ASSUME TypeInv', NEW v
  PROVE  JustNext(v, 0)
<1>1. Len(chosen') \in Nat
  BY DEF TypeInv
<1>. QED  BY <1>1 DEF JustNext

\* What was chosen stays so, under a vote that is not smaller.
LEMMA JustKept ==
  ASSUME SafeInv, Mono, NEW v \in Votes, NEW w \in Votes, ~ VoteLt(w, v), NEW k \in Nat, Justified(v, k)
  PROVE  JustNext(w, k) /\ EntryId(chosen', k) = EntryId(chosen, k)
<1>. USE DEF SafeInv
<1>0. chosen \in Seq(Entries) /\ chosen' \in Seq(Entries) /\ Len(chosen) \in Nat /\ Len(chosen') \in Nat
      /\ k <= Len(chosen) /\ Agree(chosen, chosen', k)
  <2>1. chosen \in Seq(Entries) /\ chosen' \in Seq(Entries) /\ k <= Len(chosen)
    BY DEF TypeInv, Mono, Justified
  <2>. QED  BY <2>1, AgreeCut DEF Mono
<1>1. EntryId(chosen', k) = EntryId(chosen, k) /\ k <= Len(chosen')
  BY <1>0 DEF EntryId, Agree
<1>2. CASE k = 0
  BY <1>1, <1>2 DEF JustNext
<1>3. CASE k > 0
  <2>1. PICK p \in sent : \E i \in k..Len(p.log) : ~ VoteLt(v, p.vote) /\ HasChosen(p, i) /\ Agree(chosen, p.log, k)
    BY <1>3 DEF Justified
  <2>2. PICK i \in k..Len(p.log) : ~ VoteLt(v, p.vote) /\ HasChosen(p, i) /\ Agree(chosen, p.log, k)
    BY <2>1
  <2>3. PICK q \in sent' : q.vote = p.vote /\ HasChosen(q, i)' /\ Agree(p.log, q.log, i)
    BY <2>2, ChosenStays
  <2>4. p.log \in Seq(Entries) /\ q.log \in Seq(Entries) /\ i \in Nat /\ k <= i /\ p.vote \in Votes
        /\ Len(q.log) \in Nat /\ i <= Len(q.log)
    <3>1. p.log \in Seq(Entries) /\ q.log \in Seq(Entries) /\ p.vote \in Votes
      BY DEF TypeInv, Mono
    <3>. QED  BY <2>2, <2>3, <3>1 DEF Agree
  <2>5. Agree(p.log, q.log, k)
    BY <2>3, <2>4, AgreeCut
  <2>6. Agree(chosen', q.log, k)
    BY <1>0, <2>2, <2>5, AgreeTrans, AgreeSym
  <2>7. ~ VoteLt(w, q.vote)
    BY <2>2, <2>3, <2>4, VoteOrder
  <2>8. i \in k..Len(q.log)
    BY <2>4
  <2>. QED  BY <1>1, <2>3, <2>6, <2>7, <2>8 DEF JustNext
<1>. QED  BY <1>1, <1>2, <1>3

\* Fewer entries are chosen under the same vote, and under a greater one.
LEMMA JustWeaken ==
  ASSUME TypeInv, NEW v \in Votes, NEW w \in Votes, ~ VoteLt(w, v), NEW k \in Nat, NEW j \in Nat, j <= k,
         Justified(v, k)
  PROVE  Justified(w, j)
<1>0. chosen \in Seq(Entries) /\ Len(chosen) \in Nat /\ k <= Len(chosen)
  BY DEF TypeInv, Justified
<1>1. CASE j = 0
  BY <1>0, <1>1 DEF Justified
<1>2. CASE j > 0
  <2>1. PICK p \in sent : \E i \in k..Len(p.log) : ~ VoteLt(v, p.vote) /\ HasChosen(p, i) /\ Agree(chosen, p.log, k)
    BY <1>2 DEF Justified
  <2>2. PICK i \in k..Len(p.log) : ~ VoteLt(v, p.vote) /\ HasChosen(p, i) /\ Agree(chosen, p.log, k)
    BY <2>1
  <2>3. p.log \in Seq(Entries) /\ p.vote \in Votes /\ Len(p.log) \in Nat
    BY DEF TypeInv
  <2>4. Agree(chosen, p.log, j) /\ i \in j..Len(p.log)
    BY <1>0, <2>2, <2>3, AgreeCut
  <2>5. ~ VoteLt(w, p.vote)
    BY <2>2, <2>3, VoteOrder
  <2>. QED  BY <1>0, <2>2, <2>4, <2>5 DEF Justified
<1>. QED  BY <1>1, <1>2

\* CommitInv of one node, after the step.
CommitNext(n) ==
  LET t == node'[n]
  IN  /\ Agree(t.log, chosen', t.committed)
      /\ JustNext(t.vote, t.committed)
      /\ JustNext(t.cluster.vote, t.cluster.last.at)
      /\ t.cluster.last = EntryId(chosen', t.cluster.last.at)

\* A node that keeps what it has committed.
LEMMA CommitKept ==
  ASSUME SafeInv, Mono, NEW n \in Node, node'[n].committed = node[n].committed,
         Agree(node'[n].log, node[n].log, node[n].committed), ~ VoteLt(node'[n].vote, node[n].vote),
         node'[n].cluster = node[n].cluster
  PROVE  CommitNext(n)
<1>. USE DEF SafeInv
<1>. DEFINE s == node[n]  t == node'[n]
<1>1. /\ s.vote \in Votes /\ t.vote \in Votes /\ s.committed \in Nat /\ s.cluster.vote \in Votes
      /\ s.cluster.last.at \in Nat
  <2>1. t.vote \in Votes
    BY DEF Mono, TypeInv, NodeStates
  <2>. QED  BY <2>1, NodeFacts
<1>2. /\ Agree(s.log, chosen, s.committed) /\ Justified(s.vote, s.committed)
      /\ Justified(s.cluster.vote, s.cluster.last.at)
      /\ s.cluster.last = EntryId(chosen, s.cluster.last.at)
  BY DEF CommitInv
<1>3. JustNext(t.vote, s.committed)
  BY <1>1, <1>2, JustKept
<1>4. JustNext(s.cluster.vote, s.cluster.last.at)
      /\ EntryId(chosen', s.cluster.last.at) = EntryId(chosen, s.cluster.last.at)
  BY <1>1, <1>2, JustKept, VoteOrder
<1>5. Agree(s.log, chosen', s.committed)
  <2>1. chosen \in Seq(Entries) /\ chosen' \in Seq(Entries) /\ Len(chosen) \in Nat /\ s.committed <= Len(chosen)
    BY <1>2 DEF TypeInv, Mono, Agree
  <2>2. Agree(chosen, chosen', s.committed)
    BY <1>1, <2>1, AgreeCut DEF Mono
  <2>. QED  BY <1>2, <2>2, AgreeTrans
<1>6. Agree(t.log, chosen', s.committed)
  BY <1>5, AgreeTrans
<1>. QED  BY <1>2, <1>3, <1>4, <1>6 DEF CommitNext

\* A node that knows of nothing committed.
LEMMA NothingCommitted ==
  ASSUME TypeInv', NEW n \in Node, node'[n].committed = 0, node'[n].cluster = NoIO
  PROVE  CommitNext(n)
<1>1. node'[n].log \in Seq(Entries) /\ chosen' \in Seq(Entries)
  BY DEF TypeInv, NodeStates
<1>2. Agree(node'[n].log, chosen', 0)
  BY <1>1 DEF Agree
<1>. QED  BY <1>2, JustZero, ConstantTypes DEF CommitNext, EntryId

\* What a request tells a node to be committed, the node has.
LEMMA FollowCommits ==
  ASSUME SafeInv, Mono, NodeInv', AcceptedInv', NEW n \in Node, NEW p \in sent, FollowStep(n, p)
  PROVE  CommitNext(n) /\ node[n].committed <= node'[n].committed
<1>. USE DEF SafeInv
<1>. DEFINE s == node[n]  t == node'[n]
            io == [vote |-> p.vote, last |-> EntryId(p.log, p.commit)]
            c == node'[n].cluster
            loc == LocalCommitted(node'[n], node'[n].cluster)
<1>0. /\ s.vote \in Votes /\ s.committed \in Nat /\ s.cluster.vote \in Votes /\ s.cluster.last.at \in Nat
      /\ s.log \in Seq(Entries) /\ Len(s.log) \in Nat /\ chosen \in Seq(Entries) /\ Len(chosen) \in Nat
  BY NodeFacts DEF TypeInv
<1>00. /\ t.vote \in Votes /\ t.log \in Seq(Entries) /\ c \in IOs /\ c.vote \in Votes /\ c.last.at \in Nat
       /\ t.accepted \in IOs /\ t.accepted.vote \in Votes /\ t.accepted.last.at \in Nat /\ t.committed \in Nat
       /\ Len(t.log) \in Nat
  <2>1. t \in NodeStates
    BY DEF Mono, TypeInv
  <2>. QED  BY <2>1 DEF NodeStates, IOs, LogIds
<1>1. /\ Late(s, t, p) \/ InTime(s, t, p)
      /\ c = io \/ c = s.cluster
      /\ t.committed = IF LogLt(EntryId(t.log, s.committed), loc) THEN loc.at ELSE s.committed
      /\ sent' = sent /\ chosen' = chosen
  BY FollowFields DEF FollowStep
<1>2. /\ p.vote \in Votes /\ p.log \in Seq(Entries) /\ Len(p.log) \in Nat /\ p.commit \in Nat
      /\ Justified(p.vote, p.commit) /\ Agree(chosen, p.log, p.commit)
  <2>1. p.vote \in Votes /\ p.log \in Seq(Entries) /\ p.commit \in Nat /\ Justified(p.vote, p.commit)
    BY DEF TypeInv, CommitInv
  <2>2. Agree(chosen, p.log, p.commit)
    BY <2>1, JustAgree, VoteOrder
  <2>. QED  BY <2>1, <2>2
<1>3. Justified(c.vote, c.last.at) /\ c.last = EntryId(chosen, c.last.at)
  <2>1. CASE c = io
    <3>1. EntryId(p.log, p.commit) = EntryId(chosen, p.commit) /\ EntryId(p.log, p.commit).at = p.commit
      BY <1>2, ConstantTypes DEF EntryId, Agree
    <3>2. c.vote = p.vote /\ c.last = EntryId(p.log, p.commit)
      BY <2>1
    <3>. QED  BY <1>2, <3>1, <3>2
  <2>2. CASE c = s.cluster
    BY <2>2 DEF CommitInv
  <2>. QED  BY <1>1, <2>1, <2>2
<1>4. ~ VoteLt(t.vote, s.vote)
  BY <1>0, <1>1, <1>2, VoteOrder DEF Late, InTime
<1>5. Agree(t.log, chosen, s.committed)
  <2>1. Agree(s.log, chosen, s.committed) /\ Justified(s.vote, s.committed)
    BY DEF CommitInv
  <2>2. CASE Late(s, t, p)
    BY <2>1, <2>2 DEF Late
  <2>3. CASE InTime(s, t, p)
    <3>1. CASE s.committed = 0
      BY <1>0, <1>00, <3>1 DEF Agree
    <3>2. CASE s.committed # 0
      <4>1. Agree(chosen, p.log, s.committed)
        BY <1>0, <1>2, <2>1, <2>3, JustAgree DEF InTime
      <4>2. Agree(s.log, p.log, s.committed)
        BY <2>1, <4>1, AgreeTrans
      <4>3. s.committed \in 1..Len(p.log)
        BY <1>0, <1>2, <3>2, <4>1 DEF Agree
      <4>4. Agree(t.log, p.log, s.committed)
        BY <2>3, <4>2, <4>3 DEF InTime
      <4>. QED  BY <4>1, <4>4, AgreeTrans, AgreeSym
    <3>. QED  BY <3>1, <3>2
  <2>. QED  BY <1>1, <2>2, <2>3
<1>6. Agree(t.log, chosen, t.committed) /\ Justified(t.vote, t.committed) /\ s.committed <= t.committed
  <2>1. CASE t.committed = s.committed
    <3>1. Justified(s.vote, s.committed) /\ s.committed <= s.committed
      BY <1>0 DEF CommitInv
    <3>2. Justified(t.vote, s.committed)
      BY <1>0, <1>00, <1>4, <3>1, JustWeaken
    <3>. QED  BY <1>5, <2>1, <3>1, <3>2
  <2>2. CASE t.committed # s.committed
    <3>. DEFINE a == t.accepted
    <3>1. t.committed = loc.at /\ LogLt(EntryId(t.log, s.committed), loc)
      BY <1>1, <2>2
    <3>2. loc # NoLogId
      <4>1. s.committed \in 0..Len(t.log)
        BY <1>0, <1>00, <1>5 DEF Agree
      <4>2. EntryId(t.log, s.committed) \in LogIds
        BY <1>00, <4>1, EntryIdType
      <4>3. ~ LogLt(EntryId(t.log, s.committed), NoLogId)
        BY <4>2, ConstantTypes DEF LogLt, LogIds, Ids, IdLt
      <4>. QED  BY <3>1, <4>3
    <3>3. CASE loc # NoLogId
      <4>1. a.vote.done /\ ~ VoteLt(a.vote, c.vote) /\ loc = MinLogId(a.last, c.last)
        BY <3>3 DEF LocalCommitted
      <4>2. a.vote = t.vote /\ t.vote.term > 0 /\ \E x \in sent : x.vote = t.vote
        <5>1. NodeOK(n)'
          BY DEF NodeInv
        <5>2. a.vote = t.vote /\ t.vote.term > 0
          BY <1>00, <4>1, <5>1, ConstantTypes DEF NodeOK
        <5>. QED  BY <1>1, <4>1, <5>1, <5>2 DEF NodeOK, Led
      <4>3. PICK x \in sent : x.vote = t.vote
        BY <4>2
      <4>4. x.log \in Seq(Entries) /\ Len(x.log) \in Nat /\ Origin(x.log)
        BY DEF TypeInv, LogInv
      <4>5. Agree(t.log, x.log, a.last.at) /\ a.last = EntryId(x.log, a.last.at)
        BY <1>1, <4>2, <4>3 DEF AcceptedInv
      <4>6. Agree(chosen, x.log, c.last.at)
        BY <1>00, <1>3, <4>1, <4>2, <4>3, JustAgree
      <4>7. c.last = EntryId(x.log, c.last.at)
        BY <1>00, <1>3, <4>6 DEF EntryId, Agree
      <4>. DEFINE i == a.last.at  j == c.last.at  k == t.committed
      <4>8. i \in 0..Len(x.log) /\ j \in 0..Len(x.log)
        BY <1>00, <4>4, <4>5, <4>6 DEF Agree
      <4>9. k <= i /\ k <= j
        <5>1. LogLt(a.last, c.last) <=> i < j
          BY <4>4, <4>5, <4>7, <4>8, LogIdOrder
        <5>2. k = IF i < j THEN i ELSE j
          BY <3>1, <4>1, <5>1 DEF MinLogId
        <5>. QED  BY <1>00, <5>2
      <4>10. Agree(t.log, x.log, k) /\ Agree(chosen, x.log, k)
        BY <1>0, <1>00, <4>4, <4>5, <4>6, <4>9, AgreeCut
      <4>11. Justified(t.vote, k)
        BY <1>00, <1>3, <4>1, <4>2, <4>9, JustWeaken
      <4>12. s.committed <= k
        <5>1. Agree(chosen, x.log, s.committed)
          <6>1. Justified(s.vote, s.committed)
            BY DEF CommitInv
          <6>. QED  BY <1>0, <1>00, <1>4, <4>3, <6>1, JustAgree
        <5>2. Agree(t.log, x.log, s.committed)
          BY <1>5, <5>1, AgreeTrans
        <5>3. s.committed \in 0..Len(x.log) /\ EntryId(t.log, s.committed) = EntryId(x.log, s.committed)
          BY <1>0, <4>4, <5>2 DEF EntryId, Agree
        <5>4. loc = EntryId(x.log, i) \/ loc = EntryId(x.log, j)
          BY <4>1, <4>5, <4>7 DEF MinLogId
        <5>5. LogLt(EntryId(x.log, s.committed), loc)
          BY <3>1, <5>3
        <5>6. (s.committed < i /\ loc = EntryId(x.log, i)) \/ (s.committed < j /\ loc = EntryId(x.log, j))
          <6>1. LogLt(EntryId(x.log, s.committed), EntryId(x.log, i)) <=> s.committed < i
            BY <4>4, <4>8, <5>3, LogIdOrder
          <6>2. LogLt(EntryId(x.log, s.committed), EntryId(x.log, j)) <=> s.committed < j
            BY <4>4, <4>8, <5>3, LogIdOrder
          <6>. HIDE DEF i, j, loc
          <6>. QED  BY <5>4, <5>5, <6>1, <6>2
        <5>7. EntryId(x.log, i).at = i /\ EntryId(x.log, j).at = j
          BY <4>4, <4>8, EntryIdType
        <5>. QED  BY <1>0, <1>00, <3>1, <5>6, <5>7
      <4>. QED  BY <4>10, <4>11, <4>12, AgreeTrans, AgreeSym
    <3>. QED  BY <3>2, <3>3
  <2>. QED  BY <2>1, <2>2
<1>7. JustNext(t.vote, t.committed)
  BY <1>00, <1>6, JustKept, VoteOrder
<1>8. JustNext(c.vote, c.last.at)
  BY <1>00, <1>3, JustKept, VoteOrder
<1>. HIDE DEF SafeInv
<1>9. CommitNext(n)
  BY <1>1, <1>3, <1>6, <1>7, <1>8 DEF CommitNext
<1>. QED  BY <1>6, <1>9

\* CommitInv is kept: a commit index never passes what was chosen.
LEMMA CommitInvKept ==
  ASSUME SafeInv, Mono, NodeInv', AcceptedInv', Step
  PROVE  CommitInv'
<1>. USE DEF SafeInv
<1>0. TypeInv'
  BY DEF Mono
<1>1. ASSUME NEW m \in Node  PROVE CommitNext(m)
  <2>. DEFINE s == node[m]  t == node'[m]
  <2>0. /\ s.vote \in Votes /\ t.vote \in Votes /\ s.log \in Seq(Entries) /\ Len(s.log) \in Nat
        /\ s.committed \in Nat /\ s.committed <= Len(s.log) /\ Agree(s.log, s.log, s.committed)
    <3>1. t.vote \in Votes
      BY <1>0 DEF TypeInv, NodeStates
    <3>2. s.committed <= Len(s.log)
      BY DEF CommitInv, Agree
    <3>. QED  BY <3>1, <3>2, NodeFacts DEF Agree
  <2>1. ASSUME t.log = s.log, t.vote = s.vote, t.committed = s.committed, t.cluster = s.cluster
        PROVE  CommitNext(m)
    BY <2>0, <2>1, CommitKept, VoteOrder
  <2>2. CASE InitializeStep(m)
    <3>1. s.log = <<>> /\ s.vote.term = 0 /\ t.committed = s.committed /\ t.cluster = s.cluster
      BY <2>2, InitializeFields DEF InitializeStep
    <3>2. s.committed = 0
      BY <2>0, <3>1
    <3>3. s.cluster = NoIO
      <4>1. ~ VoteLt(s.vote, s.cluster.vote) /\ s.cluster.vote \in Votes /\ (s.cluster.vote.term = 0 => s.cluster = NoIO)
        BY NodeFacts DEF NodeInv, NodeOK
      <4>2. s.cluster.vote.term = 0
        BY <2>0, <3>1, <4>1, VoteLtMeans DEF Votes
      <4>. QED  BY <4>1, <4>2
    <3>. QED  BY <1>0, <3>1, <3>2, <3>3, NothingCommitted
  <2>3. CASE FlushStep(m)
    BY <2>1, <2>3, FlushFields
  <2>4. CASE ResumeStep(m)
    BY <1>0, <2>4, NothingCommitted DEF ResumeStep
  <2>5. ASSUME NEW v \in Votes, AdoptStep(m, v)  PROVE CommitNext(m)
    <3>1. t.log = s.log /\ t.committed = s.committed /\ t.cluster = s.cluster /\ ~ VoteLt(t.vote, s.vote)
      BY <2>5 DEF AdoptStep, IsAdopted, SameLog
    <3>. QED  BY <2>0, <3>1, CommitKept
  <2>6. ASSUME NEW v \in Votes, ElectStep(m, v)  PROVE CommitNext(m)
    <3>1. t.log = s.log /\ t.committed = s.committed /\ t.cluster = s.cluster /\ t.vote.term = s.vote.term + 1
      BY <2>6 DEF ElectStep, IsAdopted, SameLog, NewVote
    <3>2. ~ VoteLt(t.vote, s.vote)
      BY SMTT(30), <2>0, <3>1, VoteLtMeans DEF Votes
    <3>. QED  BY <2>0, <3>1, <3>2, CommitKept
  <2>7. ASSUME NEW e \in Entries, WinStep(m, e) \/ WriteStep(m, e)  PROVE CommitNext(m)
    <3>1. t.log = Append(s.log, e) /\ t.committed = s.committed /\ t.cluster = s.cluster
      BY <2>7 DEF WinStep, WriteStep, GrowStep
    <3>2. Agree(t.log, s.log, s.committed)
      BY <2>0, <3>1 DEF Agree
    <3>3. ~ VoteLt(t.vote, s.vote)
      <4>1. t.vote = s.vote \/ t.vote = [s.vote EXCEPT !.done = TRUE]
        BY <2>7 DEF WinStep, WriteStep
      <4>. QED  BY <2>0, <4>1, VoteLtMeans DEF Votes
    <3>. QED  BY <3>1, <3>2, <3>3, CommitKept
  <2>8. ASSUME NEW p \in sent, FollowStep(m, p)  PROVE CommitNext(m)
    BY <2>8, FollowCommits
  <2>9. ASSUME NEW i \in Nat, CommitStep(m, i)  PROVE CommitNext(m)
    <3>1. t.log = s.log /\ t.vote = s.vote /\ t.committed = i /\ t.cluster = [vote |-> s.vote, last |-> EntryId(s.log, i)]
      BY <2>9, CommitFields
    <3>2. PICK p \in sent : p.vote = s.vote /\ p.log = s.log /\ HasChosen(p, i) /\ Agree(chosen', p.log, i)
      BY <2>9, CommitChosen
    <3>3. PICK q \in sent' : q.vote = p.vote /\ HasChosen(q, i)' /\ Agree(p.log, q.log, i)
      BY <3>2, ChosenStays
    <3>4. Agree(chosen', q.log, i) /\ Agree(t.log, chosen', i) /\ ~ VoteLt(s.vote, q.vote)
      BY <2>0, <3>1, <3>2, <3>3, AgreeTrans, AgreeSym, VoteOrder
    <3>5. i \in i..Len(q.log) /\ i <= Len(chosen')
      <4>1. q.log \in Seq(Entries) /\ Len(q.log) \in Nat
        BY <1>0 DEF TypeInv
      <4>. QED  BY <3>4, <4>1 DEF Agree
    <3>6. JustNext(s.vote, i)
      BY <3>3, <3>4, <3>5 DEF JustNext
    <3>7. EntryId(s.log, i) = EntryId(chosen', i) /\ EntryId(s.log, i).at = i
      BY <3>1, <3>4, ConstantTypes DEF Agree, EntryId
    <3>8. t.cluster.vote = s.vote /\ t.cluster.last = EntryId(s.log, i)
      BY <3>1
    <3>. QED  BY <3>1, <3>4, <3>6, <3>7, <3>8 DEF CommitNext
  <2>10. ASSUME NEW l \in Seq(Entries), RestartStep(m, l)  PROVE CommitNext(m)
    BY <1>0, <2>10, RestartFields, NothingCommitted
  <2>11. CASE t = s
    BY <2>1, <2>11
  <2>12. CASE t # s
    <3>. HIDE DEF SafeInv
    <3>. QED  BY <2>2, <2>3, <2>4, <2>5, <2>6, <2>7, <2>8, <2>9, <2>10, <2>12, StepNode
  <2>. QED  BY <2>11, <2>12
<1>2. ASSUME NEW q \in sent'  PROVE JustNext(q.vote, q.commit)
  <2>0. ASSUME NEW p \in sent, p.vote = q.vote, p.commit = q.commit  PROVE JustNext(q.vote, q.commit)
    <3>1. p.vote \in Votes /\ p.commit \in Nat /\ Justified(p.vote, p.commit)
      BY DEF TypeInv, CommitInv
    <3>. QED  BY <2>0, <3>1, JustKept, VoteOrder
  <2>1. CASE q \in sent
    BY <2>0, <2>1
  <2>2. CASE q \notin sent
    <3>1. PICK n \in Node : \/ \E e \in Entries : WinStep(n, e) \/ WriteStep(n, e)
                            \/ \E k \in Nat : CommitStep(n, k)
                            \/ ResumeStep(n)
      BY <2>2, SentSame
    <3>2. /\ Published(node'[n])
          /\ \A x \in sent : x.vote = node'[n].vote => Agree(x.log, node'[n].log, Len(x.log))
      BY <3>1, LeaderGrows
    <3>3. q.vote = node'[n].vote
          /\ (q.commit = node'[n].committed \/ \E p \in sent : p.vote = q.vote /\ p.commit = q.commit)
      BY <2>2, <3>2, PublishedFacts
    <3>4. CASE q.commit = node'[n].committed
      BY <1>1, <3>3, <3>4 DEF CommitNext
    <3>. QED  BY <2>0, <3>3, <3>4
  <2>. QED  BY <2>1, <2>2
<1>. QED  BY <1>1, <1>2 DEF CommitInv, CommitNext, Justified, JustNext

\* The votes of reads are those of leaders.
LEMMA ReadVotesKept ==
  ASSUME SafeInv, Mono, ReadVotes, Next
  PROVE  ReadVotes'
<1>. USE DEF SafeInv
<1>. DEFINE OK(R) == R.pc = "wait" =>
                       /\ R.at \in R.ok /\ R.vote.node = R.at
                       /\ R.vote.term > 0 /\ R.vote.done /\ KnownNext(R.vote) /\ LedNext(R.vote)
<1>0. read \in [Reader -> Reads]
  BY DEF TypeInv
<1>1. ASSUME NEW r \in Reader  PROVE OK(read[r])
  <2>1. read[r].vote \in Votes
    BY <1>0 DEF Reads
  <2>. QED  BY <2>1, MonoVotes DEF ReadVotes
<1>2. ASSUME \A r \in Reader : OK(read'[r])  PROVE ReadVotes'
  BY <1>2 DEF ReadVotes, Known, Led, KnownNext, LedNext
<1>3. CASE UNCHANGED read
  <2>. HIDE DEF OK
  <2>. QED  BY <1>1, <1>2, <1>3
<1>4. ASSUME NEW x \in Reader, NEW R, read' = [read EXCEPT ![x] = R], OK(R)  PROVE ReadVotes'
  <2>1. \A r \in Reader : read'[r] = R \/ read'[r] = read[r]
    BY <1>0, <1>4
  <2>. HIDE DEF OK
  <2>. QED  BY <1>1, <1>2, <1>4, <2>1
<1>5. ASSUME NEW n \in Node, Restart(n)  PROVE ReadVotes'
  <2>1. \A r \in Reader : read'[r] = read[r] \/ read'[r] = [read[r] EXCEPT !.pc = "failed"]
    BY <1>5 DEF Restart
  <2>2. \A r \in Reader : [read[r] EXCEPT !.pc = "failed"].pc # "wait"
    BY <1>0 DEF Reads
  <2>3. \A r \in Reader : OK(read'[r])
    BY <1>1, <2>1, <2>2
  <2>. HIDE DEF OK
  <2>. QED  BY <1>2, <2>3
<1>6. ASSUME NEW r \in Reader, EndRead(r)  PROVE ReadVotes'
  <2>. DEFINE s == node[read[r].at]
              l == SubSeq(s.log, 1, s.committed)
              R == [read[r] EXCEPT !.pc = "done", !.saw = l]
  <2>1. read' = [read EXCEPT ![r] = R]
    BY <1>0, <1>6 DEF EndRead
  <2>2. R.pc # "wait"
    BY <1>0 DEF Reads
  <2>3. OK(R)
    BY <2>2
  <2>. HIDE DEF OK, R
  <2>. QED  BY <1>4, <2>1, <2>3
<1>7. ASSUME NEW r \in Reader, NEW n \in Node, BeginRead(r, n)  PROVE ReadVotes'
  <2>. DEFINE R == [IdleRead EXCEPT !.pc = "wait", !.at = n, !.vote = node[n].vote,
                                    !.upto = ReadLogId(node[n]), !.ok = {n}, !.floor = chosen]
  <2>1. read' = [read EXCEPT ![r] = R] /\ node[n].role = "leader"
    BY <1>7 DEF BeginRead
  <2>2. R.at = n /\ R.vote = node[n].vote /\ R.ok = {n}
    BY DEF IdleRead
  <2>3. NodeOK(n) /\ node[n].vote \in Votes
    BY NodeFacts DEF NodeInv
  <2>4. KnownNext(node[n].vote) /\ LedNext(node[n].vote)
    BY <2>3, MonoVotes DEF NodeOK
  <2>. HIDE DEF R
  <2>5. OK(R)
    BY <2>1, <2>2, <2>3, <2>4 DEF NodeOK
  <2>. HIDE DEF OK
  <2>. QED  BY <1>4, <2>1, <2>5
<1>8. ASSUME NEW r \in Reader, NEW n \in Node, ConfirmRead(r, n)  PROVE ReadVotes'
  <2>. DEFINE F == [read[r] EXCEPT !.pc = "failed"]
              G == [read[r] EXCEPT !.ok = read[r].ok \cup {n}]
  <2>1. read[r] \in Reads
    BY <1>0
  <2>2. read' = [read EXCEPT ![r] = F] \/ read' = [read EXCEPT ![r] = G]
    BY <1>0, <1>8 DEF ConfirmRead
  <2>3. OK(F)
    BY <2>1 DEF Reads
  <2>4. OK(G)
    <3>1. /\ G.pc = read[r].pc /\ G.at = read[r].at /\ G.ok = read[r].ok \cup {n} /\ G.vote = read[r].vote
      BY <2>1 DEF Reads
    <3>2. OK(read[r])
      BY <1>1
    <3>. HIDE DEF G
    <3>. QED  BY <3>1, <3>2
  <2>. HIDE DEF OK, F, G
  <2>. QED  BY <1>4, <2>2, <2>3, <2>4
<1>. QED
  BY <1>3, <1>5, <1>6, <1>7, <1>8 DEF Next, Initialize, Elect, HandleVoteRequest, HandleVoteGranted,
     HandleVoteRefused, HandleAppendEntries, Flush, UpdateProgress, HandleHigherVote, ClientWrite

\* The invariant is inductive.
LEMMA Inductive ==
  ASSUME ~ LeaderLoses, SafeInv, ReadVotes, [Next]_vars
  PROVE  SafeInv' /\ ReadVotes'
<1>1. CASE Next
  <2>1. Step
    BY <1>1, StepIs
  <2>2. TypeInv'
    BY <1>1, <2>1, StepTypes
  <2>3. Mono
    BY <2>1, <2>2, StepMono
  <2>4. NodeInv' /\ AskedInv' /\ GrantedInv' /\ SentInv' /\ LogInv'
    BY <2>1, <2>3, NodeInvKept, AskedInvKept, GrantedInvKept, SentInvKept, LogInvKept
  <2>5. AcceptedInv' /\ AckedInv' /\ GrantInv' /\ CompleteInv' /\ ChosenInv'
    BY <2>1, <2>3, <2>4, AcceptedInvKept, AckedInvKept, GrantInvKept, CompleteInvKept, ChosenInvKept
  <2>6. CommitInv'
    BY <2>1, <2>3, <2>4, <2>5, CommitInvKept
  <2>7. ReadVotes'
    BY <1>1, <2>3, ReadVotesKept
  <2>. QED  BY <2>2, <2>4, <2>5, <2>6, <2>7 DEF SafeInv
<1>2. CASE UNCHANGED vars
  <2>1. /\ node' = node /\ left' = left /\ asked' = asked /\ granted' = granted
        /\ sent' = sent /\ acked' = acked /\ read' = read /\ chosen' = chosen
    BY <1>2 DEF vars
  <2>2. TypeInv'
    BY <2>1 DEF SafeInv, TypeInv
  <2>3. NodeInv' /\ AskedInv' /\ ReadVotes'
    BY <2>1 DEF SafeInv, NodeInv, NodeOK, AskedInv, ReadVotes, Known, Led
  <2>4. GrantedInv' /\ SentInv'
    BY <2>1 DEF SafeInv, GrantedInv, SentInv, Known, Granters
  <2>5. LogInv'
    BY <2>1 DEF SafeInv, LogInv, Origin, FromLeader
  <2>6. AcceptedInv'
    BY <2>1 DEF SafeInv, AcceptedInv
  <2>7. \A v, i : Choosable(v, i)' <=> Choosable(v, i)
    BY <2>1 DEF Choosable, HasAcked
  <2>8. AckedInv' /\ GrantInv' /\ CompleteInv'
    <3>1. \A p, i : Open(p, i)' <=> Open(p, i)
      BY <2>7 DEF Open
    <3>2. \A n, v, i : HasAcked(n, v, i)' <=> HasAcked(n, v, i)
      BY <2>1 DEF HasAcked
    <3>3. AckedInv /\ GrantInv /\ CompleteInv
      BY DEF SafeInv
    <3>4. AckedInv'
      BY <2>1, <3>1, <3>2, <3>3 DEF AckedInv
    <3>5. GrantInv'
      BY <2>1, <3>1, <3>2, <3>3 DEF GrantInv
    <3>6. CompleteInv'
      BY <2>1, <3>1, <3>3 DEF CompleteInv
    <3>. QED  BY <3>4, <3>5, <3>6
  <2>9. ChosenInv' /\ CommitInv'
    <3>1. \A p, i : HasChosen(p, i)' <=> HasChosen(p, i)
      BY <2>1 DEF HasChosen, HasAcked
    <3>2. \A v, k : Justified(v, k)' <=> Justified(v, k)
      BY <2>1, <3>1 DEF Justified
    <3>3. ChosenInv /\ CommitInv
      BY DEF SafeInv
    <3>4. ChosenInv'
      BY <2>1, <3>1, <3>3 DEF ChosenInv
    <3>5. CommitInv'
      BY <2>1, <3>2, <3>3 DEF CommitInv
    <3>. QED  BY <3>4, <3>5
  <2>. QED  BY <2>2, <2>3, <2>4, <2>5, <2>6, <2>8, <2>9 DEF SafeInv
<1>. QED  BY <1>1, <1>2

----------------------------------------------------------------------------
(* The initial states.                                                      *)

\* A node's record at first.
LEMMA NewNodeIs ==
  ASSUME NEW l \in Seq(Entries), NEW v \in Votes
  PROVE  LET s == NewNode(l, v)
         IN  /\ s \in NodeStates /\ s.vote = v /\ s.log = l /\ s.disk = l /\ s.committed = 0
             /\ s.accepted = [vote |-> v, last |-> NoLogId] /\ s.cluster = NoIO
             /\ s.role = "follower" /\ s.noop = 0
<1>. DEFINE a == [NoIO EXCEPT !.vote = v]
<1>1. a = [vote |-> v, last |-> NoLogId]
  BY DEF NoIO
<1>2. a \in IOs /\ NoIO \in IOs
  BY <1>1, ConstantTypes DEF IOs
<1>. HIDE DEF a
<1>3. NewNode(l, v) = [vote |-> v, log |-> l, disk |-> l, committed |-> 0, accepted |-> a,
                       cluster |-> NoIO, role |-> "follower", noop |-> 0]
  BY DEF NewNode, a
<1>4. NewNode(l, v) \in NodeStates
  BY <1>2, <1>3 DEF NodeStates
<1>. QED  BY <1>1, <1>3, <1>4

\* The vote and the log of the first leader.
FirstLeaderVote == [FirstVote EXCEPT !.done = TRUE]
FirstLeaderLog == Append(<<InitialEntry>>, Blank(FirstLeaderVote))

\* What they are.
LEMMA FirstLeader ==
  /\ FirstVote \in Votes /\ FirstVote.term = 1 /\ FirstVote.node = 1 /\ ~ FirstVote.done
  /\ FirstLeaderVote \in Votes /\ FirstLeaderVote.term = 1 /\ FirstLeaderVote.node = 1
  /\ FirstLeaderVote.done
  /\ Undone(FirstLeaderVote) = FirstVote /\ LeaderId(FirstLeaderVote) = <<1, 1>>
  /\ VoteLt(FirstVote, FirstLeaderVote)
  /\ <<InitialEntry>> \in Seq(Entries) /\ Len(<<InitialEntry>>) = 1
  /\ FirstLeaderLog \in Seq(Entries) /\ Len(FirstLeaderLog) = 2
  /\ FirstLeaderLog[1] = InitialEntry /\ FirstLeaderLog[2] = Blank(FirstLeaderVote)
  /\ InitialEntry.id = <<0, 0>> /\ Blank(FirstLeaderVote).id = <<1, 1>>
<1>1. FirstVote = [term |-> 1, node |-> 1, done |-> FALSE]
  BY DEF FirstVote, NewVote
<1>2. FirstVote \in Votes /\ FirstVote.term = 1 /\ FirstVote.node = 1 /\ ~ FirstVote.done
  BY <1>1 DEF Votes
<1>3. /\ FirstLeaderVote \in Votes /\ FirstLeaderVote.term = 1 /\ FirstLeaderVote.node = 1
      /\ FirstLeaderVote.done
  BY <1>2 DEF FirstLeaderVote, Votes
<1>4. /\ LeaderId(FirstLeaderVote) = <<1, 1>> /\ VoteLt(FirstVote, FirstLeaderVote)
      /\ Undone(FirstLeaderVote) = FirstVote
  <2>1. LeaderId(FirstLeaderVote) = <<1, 1>>
    BY <1>3 DEF LeaderId
  <2>. QED  BY <1>2, <1>3, <2>1, VoteLtMeans, UndoneVotes
<1>5. /\ InitialEntry \in Entries /\ Blank(FirstLeaderVote) \in Entries
      /\ InitialEntry.id = <<0, 0>> /\ Blank(FirstLeaderVote).id = <<1, 1>>
  BY <1>4 DEF InitialEntry, Blank, Entries, Ids
<1>. DEFINE e == Blank(FirstLeaderVote)
            f == InitialEntry
<1>. HIDE DEF e, f
<1>6. <<f>> \in Seq(Entries) /\ Len(<<f>>) = 1 /\ <<f>>[1] = f
  BY <1>5 DEF f
<1>7. Append(<<f>>, e) \in Seq(Entries) /\ Len(Append(<<f>>, e)) = 2
      /\ Append(<<f>>, e)[1] = f /\ Append(<<f>>, e)[2] = e
  <2>1. e \in Entries
    BY <1>5 DEF e
  <2>. QED  BY <1>6, <2>1
<1>. QED  BY <1>1, <1>2, <1>3, <1>4, <1>5, <1>6, <1>7 DEF FirstLeaderLog, e, f

\* What there is at first.
InitNode(n) ==
  LET s == node[n]
      led == left.voted # {} /\ n = 1
      vote == IF n \in left.voted THEN FirstVote ELSE NoVote
  IN  /\ s.cluster = NoIO /\ s.committed = 0 /\ s.disk = FirstLog(n)
      /\ led => /\ n \in Node /\ s.vote = FirstLeaderVote /\ s.log = FirstLeaderLog /\ s.role = "leader"
                /\ s.noop = 2 /\ s.accepted = [vote |-> FirstLeaderVote, last |-> LastId(FirstLeaderLog)]
      /\ ~ led => /\ s.vote = vote /\ s.log = FirstLog(n) /\ s.role = "follower"
                  /\ s.accepted = [vote |-> vote, last |-> NoLogId]

InitSent ==
  IF left.voted = {} THEN sent = {} /\ asked = {} /\ granted = {}
  ELSE /\ sent = {[vote |-> FirstLeaderVote, log |-> FirstLeaderLog, commit |-> 0]}
       /\ \E lid \in LogIds : asked = {[vote |-> FirstVote, last |-> lid]}
       /\ granted = {[vote |-> FirstVote, from |-> n] : n \in left.voted}
       /\ 1 \in Node /\ left.voted \subseteq Node /\ HasQuorum(left.voted)

\* The initial states, with the first leader's record written out.
LEMMA InitIs ==
  ASSUME Init
  PROVE  /\ TypeInv /\ (\A n \in Node : InitNode(n)) /\ InitSent
         /\ acked = {} /\ chosen = <<>> /\ \A r \in Reader : read[r] = IdleRead
<1>1. left \in BudgetSet /\ acked = {} /\ chosen = <<>> /\ read = [r \in Reader |-> IdleRead]
  BY BudgetAssumption DEF Init, BudgetSet
<1>2. left.voted # {} => 1 \in left.voted /\ left.voted \subseteq left.started
                         /\ left.started \subseteq Node /\ HasQuorum(left.voted)
  BY <1>1, BudgetAssumption DEF Init, BudgetSet
<1>3. ASSUME NEW n \in Node
      PROVE  /\ FirstLog(n) \in Seq(Entries) /\ (IF n \in left.voted THEN FirstVote ELSE NoVote) \in Votes
             /\ FirstLog(n) = <<>> \/ FirstLog(n) = <<InitialEntry>>
             /\ FirstNode(n) = NewNode(FirstLog(n), IF n \in left.voted THEN FirstVote ELSE NoVote)
  BY FirstLeader, ConstantTypes DEF FirstLog, FirstNode
<1>4. read \in [Reader -> Reads] /\ \A r \in Reader : read[r] = IdleRead
  BY <1>1, IdleReadType
<1>5. CASE left.voted = {}
  <2>1. node = [n \in Node |-> FirstNode(n)] /\ asked = {} /\ granted = {} /\ sent = {}
    BY <1>5 DEF Init
  <2>2. ASSUME NEW n \in Node  PROVE node[n] \in NodeStates /\ InitNode(n)
    <3>1. node[n] = NewNode(FirstLog(n), NoVote)
      BY <1>3, <1>5, <2>1
    <3>. HIDE DEF FirstNode
    <3>. QED  BY <1>3, <1>5, <3>1, NewNodeIs, ConstantTypes DEF InitNode
  <2>3. TypeInv
    BY <1>1, <1>4, <2>1, <2>2 DEF TypeInv
  <2>. QED  BY <1>1, <1>4, <1>5, <2>1, <2>2, <2>3 DEF InitSent
<1>6. CASE left.voted # {}
  <2>0. 1 \in Node /\ left.voted \subseteq Node /\ FirstLog(1) = <<InitialEntry>>
    BY <1>2, <1>6 DEF FirstLog
  <2>1. /\ node = [n \in Node |-> IF n = 1 THEN Establish(FirstNode(n)) ELSE FirstNode(n)]
        /\ asked = {[vote |-> FirstVote, last |-> LastId(FirstLog(1))]}
        /\ granted = {[vote |-> FirstVote, from |-> n] : n \in left.voted}
        /\ sent = {[vote |-> node[1].vote, log |-> node[1].log, commit |-> 0]}
    BY <1>6 DEF Init
  <2>. DEFINE s == NewNode(<<InitialEntry>>, FirstVote)
  <2>2. node[1] = Establish(s)
    BY <1>2, <1>3, <1>6, <2>0, <2>1
  <2>3. s \in NodeStates /\ s.vote = FirstVote /\ s.log = <<InitialEntry>> /\ s.committed = 0 /\ s.cluster = NoIO
    BY FirstLeader, NewNodeIs
  <2>. HIDE DEF s
  <2>4. Bounded(s.log, s.vote)
    <3>1. LeaderId(FirstVote) = <<1, 1>> /\ \A i \in 1..1 : i = 1
      BY FirstLeader DEF LeaderId
    <3>2. \A i \in 1..Len(s.log) : s.log[i].id = <<0, 0>>
      BY <2>3, FirstLeader
    <3>. QED  BY <2>3, <3>1, <3>2 DEF Bounded, IdLt
  <2>5. /\ node[1] \in NodeStates /\ node[1].vote = FirstLeaderVote /\ node[1].log = FirstLeaderLog
        /\ node[1].disk = <<InitialEntry>> /\ node[1].committed = 0 /\ node[1].cluster = NoIO
        /\ node[1].role = "leader" /\ node[1].noop = 2
        /\ node[1].accepted = [vote |-> FirstLeaderVote, last |-> LastId(FirstLeaderLog)]
    <3>. DEFINE v == [s.vote EXCEPT !.done = TRUE]
                t == Establish(s)
    <3>1. v = FirstLeaderVote
      BY <2>3 DEF FirstLeaderVote
    <3>2. Append(s.log, Blank(FirstLeaderVote)) = FirstLeaderLog /\ Len(s.log) + 1 = 2
      BY <2>3, FirstLeader DEF FirstLeaderLog
    <3>4. /\ t \in NodeStates /\ t.vote = v /\ t.log = Append(s.log, Blank(v)) /\ t.disk = s.log
          /\ t.committed = s.committed /\ t.cluster = s.cluster /\ t.role = "leader"
          /\ t.noop = Len(s.log) + 1
          /\ t.accepted = [vote |-> v, last |-> LastId(Append(s.log, Blank(v)))]
      BY <2>3, <2>4, EstablishIs
    <3>. HIDE DEF v, t
    <3>5. node[1] = t
      BY <2>2 DEF t
    <3>. QED  BY <2>3, <3>1, <3>2, <3>4, <3>5
  <2>6. ASSUME NEW n \in Node  PROVE node[n] \in NodeStates /\ InitNode(n)
    <3>1. CASE n = 1
      BY <1>6, <2>0, <2>5, <3>1 DEF InitNode
    <3>2. CASE n # 1
      <4>1. node[n] = NewNode(FirstLog(n), IF n \in left.voted THEN FirstVote ELSE NoVote)
        BY <1>3, <2>1, <3>2
      <4>. QED  BY <1>3, <3>2, <4>1, NewNodeIs DEF InitNode
    <3>. QED  BY <3>1, <3>2
  <2>7. LastId(FirstLog(1)) \in LogIds
    <3>1. Len(<<InitialEntry>>) = 1 /\ <<InitialEntry>>[1].id = <<0, 0>>
      BY FirstLeader
    <3>2. LastId(<<InitialEntry>>) = [id |-> <<0, 0>>, at |-> 1]
      BY <3>1 DEF LastId, EntryId
    <3>. QED  BY <2>0, <3>2 DEF LogIds, Ids
  <2>8. sent = {[vote |-> FirstLeaderVote, log |-> FirstLeaderLog, commit |-> 0]}
    BY <2>1, <2>5
  <2>9. TypeInv
    <3>1. node \in [Node -> NodeStates]
      BY <2>1, <2>6
    <3>2. asked \in SUBSET [vote : Votes, last : LogIds] /\ granted \in SUBSET [vote : Votes, from : Node]
      BY <2>0, <2>1, <2>7, FirstLeader
    <3>3. sent \in SUBSET [vote : Votes, log : Seq(Entries), commit : Nat]
      BY <2>8, FirstLeader
    <3>. QED  BY <1>1, <1>4, <3>1, <3>2, <3>3 DEF TypeInv
  <2>. QED  BY <1>1, <1>2, <1>4, <1>6, <2>0, <2>1, <2>6, <2>7, <2>8, <2>9 DEF InitSent
<1>. QED  BY <1>5, <1>6

\* The invariant holds at first.
LEMMA InitSafe ==
  ASSUME Init
  PROVE  SafeInv /\ ReadVotes
<1>1. /\ TypeInv /\ (\A n \in Node : InitNode(n)) /\ InitSent
      /\ acked = {} /\ chosen = <<>> /\ \A r \in Reader : read[r] = IdleRead
  BY InitIs
<1>. DEFINE V == FirstLeaderVote
            L == FirstLeaderLog
            first == [vote |-> V, log |-> L, commit |-> 0]
            none == left.voted = {}
<1>. HIDE DEF V, L, first, none
<1>2. /\ first.vote = V /\ first.log = L /\ first.commit = 0
      /\ V \in Votes /\ V.term = 1 /\ V.node = 1 /\ V.done /\ LeaderId(V) = <<1, 1>>
      /\ FirstVote \in Votes /\ FirstVote.term = 1 /\ FirstVote.node = 1 /\ ~ FirstVote.done
      /\ VoteLt(FirstVote, V) /\ Undone(V) = FirstVote
      /\ L \in Seq(Entries) /\ Len(L) = 2 /\ L[1] = InitialEntry /\ L[1].id = <<0, 0>> /\ L[2].id = <<1, 1>>
  BY FirstLeader DEF V, L, first
<1>3. ASSUME NEW n \in Node
      PROVE  /\ node[n].cluster = NoIO /\ node[n].committed = 0
             /\ node[n].disk = <<>> \/ node[n].disk = <<InitialEntry>>
             /\ \/ /\ ~ none /\ n = 1 /\ node[n].vote = V /\ node[n].log = L /\ node[n].role = "leader"
                   /\ node[n].noop = 2 /\ node[n].accepted.vote = V
                   /\ node[n].accepted.last = EntryId(L, 2)
                \/ /\ node[n].log = node[n].disk /\ node[n].role = "follower"
                   /\ node[n].vote = NoVote /\ node[n].accepted = NoIO
                \/ /\ ~ none /\ node[n].log = node[n].disk /\ node[n].role = "follower"
                   /\ node[n].vote = FirstVote /\ node[n].accepted.vote = FirstVote
                   /\ node[n].accepted.last = NoLogId
  <2>1. InitNode(n)
    BY <1>1
  <2>2. FirstLog(n) = <<>> \/ FirstLog(n) = <<InitialEntry>>
    BY DEF FirstLog
  <2>3. NoIO = [vote |-> NoVote, last |-> NoLogId]
    BY DEF NoIO
  <2>4. LastId(L) = EntryId(L, 2)
    BY <1>2 DEF LastId
  <2>5. CASE ~ none /\ n = 1
    BY <2>1, <2>2, <2>4, <2>5 DEF InitNode, none, V, L
  <2>6. CASE ~ (~ none /\ n = 1)
    BY <2>1, <2>2, <2>3, <2>6 DEF InitNode, none
  <2>. QED  BY <2>5, <2>6
<1>4. /\ none => sent = {} /\ asked = {} /\ granted = {}
      /\ ~ none => /\ sent = {first} /\ 1 \in Node
                   /\ \E lid \in LogIds : asked = {[vote |-> FirstVote, last |-> lid]}
                   /\ granted = {[vote |-> FirstVote, from |-> n] : n \in left.voted}
                   /\ left.voted \subseteq Node /\ HasQuorum(left.voted)
  BY <1>1 DEF InitSent, none, first, V, L
<1>5. ~ none => 1 \in Node /\ node[1].vote = V /\ node[1].log = L
  BY <1>1, <1>4 DEF InitNode, none, V, L
<1>6. ~ none => Known(V) /\ Known(FirstVote) /\ Led(V)
  <2>1. ~ VoteLt(V, V) /\ ~ VoteLt(V, FirstVote)
    BY <1>2, VoteOrder
  <2>. QED  BY <1>2, <1>4, <1>5, <2>1 DEF Known, Led
<1>7. NodeInv
  <2>1. ASSUME NEW n \in Node  PROVE NodeOK(n)
    <3>1. /\ ~ VoteLt(V, NoVote) /\ ~ VoteLt(FirstVote, NoVote) /\ ~ VoteLt(NoVote, NoVote)
      BY <1>2, ConstantTypes, VoteLtMeans
    <3>2. Known(NoVote) /\ Led(NoVote) /\ Led(FirstVote)
      BY <1>2, ConstantTypes DEF Known, Led
    <3>3. CASE /\ ~ none /\ n = 1 /\ node[n].vote = V /\ node[n].log = L /\ node[n].role = "leader"
               /\ node[n].noop = 2 /\ node[n].accepted.vote = V
      <4>1. \E p \in sent : p.vote = V /\ p.log = L
        BY <1>2, <1>4, <3>3
      <4>2. LeaderId(node[n].vote) = <<1, 1>> /\ node[n].log[2].id = <<1, 1>> /\ 2 \in 1..Len(node[n].log)
        <5>1. LeaderId(V) = <<1, 1>> /\ L[2].id = <<1, 1>> /\ Len(L) = 2
          BY <1>2
        <5>2. node[n].vote = V /\ node[n].log = L
          BY <3>3
        <5>3. LeaderId(node[n].vote) = <<1, 1>> /\ node[n].log[2].id = <<1, 1>> /\ Len(node[n].log) = 2
          BY <5>1, <5>2, Zenon
        <5>. QED  BY <5>3
      <4>. HIDE DEF first
      <4>3. Known(node[n].vote) /\ Led(node[n].vote) /\ node[n].vote.node = n /\ node[n].vote.done /\ node[n].vote.term > 0
        BY <1>2, <1>6, <3>3
      <4>4. node[n].cluster = NoIO /\ Led(node[n].cluster.vote) /\ ~ VoteLt(node[n].vote, node[n].cluster.vote)
            /\ node[n].accepted.vote = node[n].vote
        BY <1>3, <3>1, <3>2, <3>3, ConstantTypes
      <4>. QED  BY <3>3, <4>1, <4>2, <4>3, <4>4, ConstantTypes DEF NodeOK
    <3>4. CASE node[n].role = "follower" /\ node[n].vote = NoVote /\ node[n].accepted = NoIO
      BY <1>3, <3>1, <3>2, <3>4, ConstantTypes DEF NodeOK
    <3>5. CASE /\ ~ none /\ node[n].role = "follower" /\ node[n].vote = FirstVote
               /\ node[n].accepted.vote = FirstVote /\ node[n].accepted.last = NoLogId
      BY <1>2, <1>3, <1>6, <3>1, <3>2, <3>5, ConstantTypes DEF NodeOK
    <3>. QED  BY <1>3, <3>3, <3>4, <3>5
  <2>. QED  BY <2>1 DEF NodeInv
<1>8. AskedInv /\ GrantedInv
  <2>1. ASSUME NEW g \in granted  PROVE g.from \in Node /\ g.vote = FirstVote /\ ~ none
    BY <1>4
  <2>2. ASSUME NEW g \in granted  PROVE ~ VoteLt(node[g.from].vote, FirstVote)
    <3>1. g.from \in left.voted /\ g.from \in Node
      BY <1>4
    <3>. DEFINE n == g.from
    <3>. HIDE DEF n
    <3>2. node[n].vote = FirstVote \/ node[n].vote = V
      <4>1. n \in left.voted /\ InitNode(n)
        BY <1>1, <3>1 DEF n
      <4>. QED  BY <4>1 DEF InitNode, V
    <3>. QED  BY <1>2, <3>2, VoteOrder DEF n
  <2>3. \A q \in asked : q.vote = FirstVote /\ ~ none
    BY <1>4
  <2>4. \A q, r \in asked : q = r
    BY <1>4
  <2>5. AskedInv
    BY <1>2, <1>6, <2>3, <2>4 DEF AskedInv
  <2>6. ASSUME ~ none  PROVE \E q \in asked : q.vote = FirstVote
    <3>1. PICK lid \in LogIds : asked = {[vote |-> FirstVote, last |-> lid]}
      BY <1>4, <2>6
    <3>2. [vote |-> FirstVote, last |-> lid] \in asked
      BY <3>1
    <3>3. [vote |-> FirstVote, last |-> lid].vote = FirstVote
      OBVIOUS
    <3>. QED  BY <3>2, <3>3
  <2>. QED  BY <2>1, <2>2, <2>5, <2>6 DEF GrantedInv
<1>9. \A p \in sent : p = first /\ ~ none
  BY <1>4
<1>10. SentInv
  <2>1. CASE none
    BY <1>4, <2>1 DEF SentInv
  <2>2. CASE ~ none
    <3>1. HasQuorum(Granters(FirstVote))
      <4>1. \A n \in Node : n \in left.voted => n \in Granters(FirstVote)
        <5>1. ASSUME NEW n \in left.voted  PROVE n \in Granters(FirstVote)
          <6>. DEFINE g == [vote |-> FirstVote, from |-> n]
          <6>1. g \in granted /\ g.vote = FirstVote /\ g.from = n /\ n \in Node
            BY <1>4, <2>2
          <6>. QED  BY <6>1 DEF Granters
        <5>. QED  BY <5>1
      <4>2. HasQuorum(left.voted)
        BY <1>4, <2>2
      <4>. DEFINE A == left.voted
                  B == Granters(FirstVote)
      <4>. HIDE DEF A, B
      <4>3. HasQuorum(A) /\ \A n \in Node : n \in A => n \in B
        BY <4>1, <4>2 DEF A, B
      <4>4. HasQuorum(B)
        BY <4>3, QuorumGrows
      <4>. QED  BY <4>4 DEF B
    <3>2. \A i \in 1..Len(L) : L[i].id = <<0, 0>> \/ L[i].id = <<1, 1>>
      BY <1>2
    <3>3. \A i \in 1..Len(L) : ~ IdLt(LeaderId(V), L[i].id)
      BY <1>2, <3>2 DEF IdLt
    <3>4. \A i, j \in 1..Len(L) : i <= j => ~ IdLt(L[j].id, L[i].id)
      <4>1. \A i \in 1..Len(L) : (i = 1 /\ L[i].id = <<0, 0>>) \/ (i = 2 /\ L[i].id = <<1, 1>>)
        BY <1>2
      <4>. QED  BY <4>1 DEF IdLt
    <3>5. L # <<>> /\ L[Len(L)].id = LeaderId(V)
      BY <1>2
    <3>6. /\ V.term > 0 /\ V.done /\ Known(V) /\ HasQuorum(Granters(Undone(V)))
      BY <1>2, <1>6, <2>2, <3>1
    <3>7. \A p \in sent : p = first /\ p.vote = V /\ p.log = L
      BY <1>2, <1>9
    <3>. QED  BY <3>3, <3>4, <3>5, <3>6, <3>7 DEF SentInv
  <2>. QED  BY <2>1, <2>2
<1>11. LogInv
  <2>. DEFINE one == <<InitialEntry>>
  <2>1. Len(one) = 1 /\ one[1] = InitialEntry /\ one[1].id = <<0, 0>>
    BY ConstantTypes
  <2>. HIDE DEF one
  <2>2. Origin(<<>>) /\ Origin(one)
    BY <2>1 DEF Origin, FromLeader
  <2>3. ~ none => Origin(L)
    <3>1. ~ none => FromLeader(L, 2)
      <4>1. Agree(L, L, 2)
        BY <1>2 DEF Agree
      <4>. QED  BY <1>2, <1>4, <4>1 DEF FromLeader
    <3>2. FromLeader(L, 1)
      BY <1>2 DEF FromLeader
    <3>3. \A i \in 1..Len(L) : i = 1 \/ i = 2
      BY <1>2
    <3>. QED  BY <3>1, <3>2, <3>3 DEF Origin
  <2>4. ASSUME NEW v \in Votes  PROVE Bounded(<<>>, v) /\ Bounded(one, v)
    <3>1. LeaderId(v) \in Ids
      BY LeaderIds
    <3>2. ~ IdLt(LeaderId(v), <<0, 0>>)
      BY <3>1 DEF Ids, IdLt
    <3>. QED  BY <2>1, <3>2 DEF Bounded
  <2>5. Bounded(L, V)
    <3>1. \A i \in 1..Len(L) : L[i].id = <<0, 0>> \/ L[i].id = <<1, 1>>
      BY <1>2
    <3>. QED  BY <1>2, <3>1 DEF Bounded, IdLt
  <2>6. ASSUME NEW n \in Node
        PROVE  /\ node[n].disk = <<>> \/ node[n].disk = one
               /\ \/ ~ none /\ node[n].log = L /\ node[n].vote = V
                  \/ node[n].log = node[n].disk
               /\ node[n].vote \in Votes
    BY <1>2, <1>3, ConstantTypes DEF one
  <2>7. ASSUME NEW n \in Node
        PROVE  /\ Origin(node[n].log) /\ Origin(node[n].disk)
               /\ Bounded(node[n].log, node[n].vote) /\ Bounded(node[n].disk, node[n].vote)
    BY <2>2, <2>3, <2>4, <2>5, <2>6
  <2>. QED  BY <1>2, <1>9, <2>3, <2>7 DEF LogInv
<1>12. AcceptedInv
  <2>1. ASSUME NEW n \in Node, node[n].accepted.vote = V
        PROVE  node[n].log = L /\ node[n].accepted.last = EntryId(L, 2)
    <3>1. V # FirstVote /\ V # NoVote
      BY <1>2, ConstantTypes
    <3>. QED  BY <1>3, <2>1, <3>1, ConstantTypes
  <2>2. EntryId(L, 2).at = 2 /\ Agree(L, L, 2)
    BY <1>2 DEF EntryId, Agree
  <2>. QED  BY <1>2, <1>9, <2>1, <2>2 DEF AcceptedInv
<1>13. AckedInv /\ GrantInv
  <2>1. \A n, v, i : ~ HasAcked(n, v, i)
    BY <1>1 DEF HasAcked
  <2>. QED  BY <1>1, <2>1 DEF AckedInv, GrantInv
<1>14. CompleteInv
  <2>1. ~ VoteLt(V, V)
    BY <1>2, VoteOrder
  <2>. QED  BY <1>2, <1>9, <2>1 DEF CompleteInv
<1>15. ChosenInv
  BY <1>1 DEF ChosenInv
<1>16. CommitInv
  <2>1. \A v : Justified(v, 0)
    BY <1>1 DEF Justified
  <2>2. EntryId(chosen, 0) = NoLogId /\ NoIO.last.at = 0
    BY ConstantTypes DEF EntryId
  <2>3. \A n \in Node : Agree(node[n].log, chosen, 0)
    <3>1. \A n \in Node : Len(node[n].log) \in Nat
      BY <1>1 DEF TypeInv, NodeStates
    <3>. QED  BY <1>1, <3>1 DEF Agree
  <2>. QED  BY <1>2, <1>3, <1>9, <2>1, <2>2, <2>3, ConstantTypes DEF CommitInv
<1>17. ReadVotes
  <2>1. IdleRead.pc = "idle"
    BY DEF IdleRead
  <2>. QED  BY <1>1, <2>1 DEF ReadVotes
<1>. QED
  BY <1>1, <1>7, <1>8, <1>10, <1>11, <1>12, <1>13, <1>14, <1>15, <1>16, <1>17 DEF SafeInv

----------------------------------------------------------------------------
(* What the invariant says of what the runs check.                          *)

\* Logs that agree have the same beginning.
LEMMA AgreeSame ==
  ASSUME NEW l \in Seq(Entries), NEW m \in Seq(Entries), NEW i \in Nat, Agree(l, m, i)
  PROVE  SubSeq(l, 1, i) = SubSeq(m, 1, i)
<1>. DEFINE a == SubSeq(l, 1, i)
            b == SubSeq(m, 1, i)
<1>1. Len(l) \in Nat /\ Len(m) \in Nat /\ i <= Len(l) /\ i <= Len(m) /\ \A k \in 1..i : l[k] = m[k]
  BY DEF Agree
<1>2. a \in Seq(Entries) /\ Len(a) = i /\ \A k \in 1..i : a[k] = l[k]
  BY <1>1
<1>3. b \in Seq(Entries) /\ Len(b) = i /\ \A k \in 1..i : b[k] = m[k]
  BY <1>1
<1>. HIDE DEF a, b
<1>4. \A k \in 1..i : a[k] = b[k]
  BY <1>1, <1>2, <1>3
<1>5. a = b
  BY <1>2, <1>3, <1>4
<1>. QED  BY <1>5 DEF a, b

\* The invariant says what the runs check.
LEMMA SafeType ==
  ASSUME SafeInv
  PROVE  TypeOK
<1>. USE DEF SafeInv
<1>1. ASSUME NEW n \in Node
      PROVE  LET s == node[n]
             IN  /\ s.role \in {"follower", "candidate", "leader"}
                 /\ s.role # "follower" => s.vote.node = n /\ (s.vote.done <=> s.role = "leader")
                 /\ s.committed \in 0 .. Len(s.log)
                 /\ s.role = "leader" => s.noop \in 1 .. Len(s.log) /\ s.log[s.noop].id = LeaderId(s.vote)
  <2>1. NodeOK(n) /\ node[n].role \in {"follower", "candidate", "leader"}
    BY DEF NodeInv, TypeInv, NodeStates
  <2>2. node[n].committed \in 0 .. Len(node[n].log)
    <3>1. node[n].committed \in Nat /\ Len(node[n].log) \in Nat
      BY DEF TypeInv, NodeStates
    <3>. QED  BY <3>1 DEF CommitInv, Agree
  <2>. QED  BY <2>1, <2>2 DEF NodeOK
<1>. QED  BY <1>1 DEF TypeOK

\* Logs match.
LEMMA SafeMatch ==
  ASSUME SafeInv
  PROVE  LogsMatch
<1>. USE DEF SafeInv
<1>1. SUFFICES ASSUME NEW m \in Node, NEW n \in Node, NEW i \in 1 .. Len(node[m].log),
                      i <= Len(node[n].log), node[m].log[i].id = node[n].log[i].id
               PROVE  SubSeq(node[m].log, 1, i) = SubSeq(node[n].log, 1, i)
  BY DEF LogsMatch
<1>2. /\ node[m].log \in Seq(Entries) /\ node[n].log \in Seq(Entries)
      /\ Len(node[m].log) \in Nat /\ Len(node[n].log) \in Nat
  BY DEF TypeInv, NodeStates
<1>3. FromLeader(node[m].log, i) /\ FromLeader(node[n].log, i) /\ i \in Nat \ {0}
  BY <1>1, <1>2 DEF LogInv, Origin
<1>4. Agree(node[m].log, node[n].log, i)
  BY <1>1, <1>2, <1>3, OriginMatch
<1>. QED  BY <1>2, <1>3, <1>4, AgreeSame

\* What is chosen is held by a quorum.
LEMMA SafeHeld ==
  ASSUME SafeInv
  PROVE  ChosenIsHeld
<1>. USE DEF SafeInv
<1>. DEFINE A == {n \in Node : IsPrefix(chosen, node[n].disk)}
<1>1. ASSUME NEW n \in Node
      PROVE  node[n].disk \in Seq(Entries) /\ node[n].log \in Seq(Entries) /\ chosen \in Seq(Entries)
  BY DEF TypeInv, NodeStates
<1>2. CASE chosen = <<>>
  <2>1. \A n \in Node : IsPrefix(chosen, node[n].disk)
    <3>1. ASSUME NEW n \in Node  PROVE IsPrefix(chosen, node[n].disk)
      <4>1. Len(node[n].disk) \in Nat
        BY <1>1
      <4>2. Agree(chosen, node[n].disk, Len(chosen))
        BY <1>2, <4>1 DEF Agree
      <4>. QED  BY <1>1, <4>2, PrefixAgree
    <3>. QED  BY <3>1
  <2>2. \A n \in Node : n \in Node => n \in A
    BY <2>1
  <2>. HIDE DEF A
  <2>3. HasQuorum(A)
    BY <2>2, QuorumExists, QuorumGrows
  <2>. QED  BY <2>3 DEF A, ChosenIsHeld
<1>3. CASE chosen # <<>>
  <2>1. PICK p \in sent : HasChosen(p, Len(chosen)) /\ Agree(chosen, p.log, Len(chosen))
    BY <1>3 DEF ChosenInv
  <2>. DEFINE k == Len(chosen)
              B == {n \in Node : HasAcked(n, p.vote, k)}
  <2>2. HasQuorum(B) /\ Open(p, k) /\ k \in 1..Len(p.log)
    BY <2>1, ChosenOpen DEF HasChosen
  <2>3. p.log \in Seq(Entries) /\ k \in Nat
    BY DEF TypeInv
  <2>4. ASSUME NEW n \in Node, n \in B  PROVE n \in A
    <3>1. Agree(node[n].disk, p.log, k)
      BY <2>2, <2>4 DEF AckedInv
    <3>2. Agree(p.log, node[n].disk, k)
      BY <1>1, <2>3, <3>1, AgreeSym
    <3>3. Agree(chosen, node[n].disk, k)
      BY <1>1, <2>1, <2>3, <3>2, AgreeFacts
    <3>4. IsPrefix(chosen, node[n].disk)
      BY <1>1, <3>3, PrefixAgree
    <3>. QED  BY <3>4
  <2>5. \A n \in Node : n \in B => n \in A
    BY <2>4
  <2>. HIDE DEF A, B
  <2>6. HasQuorum(A)
    BY <2>2, <2>5, QuorumGrows
  <2>. QED  BY <2>6 DEF A, ChosenIsHeld
<1>. QED  BY <1>2, <1>3

\* A vote under which something was chosen is some node's, or smaller.
LEMMA ChosenVote ==
  ASSUME SafeInv, NEW p, NEW i, HasChosen(p, i), p \in sent
  PROVE  \E m \in Node : ~ VoteLt(node[m].vote, p.vote)
<1>. DEFINE B == {n \in Node : HasAcked(n, p.vote, i)}
<1>1. HasQuorum(B)
  BY DEF HasChosen
<1>2. PICK m \in Node : m \in B
  <2>. HIDE DEF B
  <2>. QED  BY <1>1, QuorumExists
<1>3. PICK b \in acked : b.vote = p.vote /\ b.from = m
  BY <1>2 DEF HasAcked
<1>. QED  BY <1>3 DEF SafeInv, AckedInv

\* The greatest leader has what is chosen.
LEMMA SafeLeader ==
  ASSUME SafeInv
  PROVE  LeaderIsComplete
<1>1. SUFFICES ASSUME NEW n \in Node, node[n].role = "leader",
                      \A m \in Node : ~ VoteLt(node[n].vote, node[m].vote)
               PROVE  IsPrefix(chosen, node[n].log)
  BY DEF LeaderIsComplete
<1>. DEFINE k == Len(chosen)
<1>2. PICK q \in sent : q.vote = node[n].vote /\ q.log = node[n].log
  BY <1>1 DEF SafeInv, NodeInv, NodeOK
<1>3. node[n].log \in Seq(Entries) /\ node[n].vote \in Votes /\ chosen \in Seq(Entries)
      /\ k \in Nat /\ Len(node[n].log) \in Nat
  BY DEF SafeInv, TypeInv, NodeStates
<1>4. Agree(chosen, node[n].log, k)
  <2>1. CASE chosen = <<>>
    BY <1>3, <2>1 DEF Agree
  <2>2. CASE chosen # <<>>
    <3>1. PICK p \in sent : HasChosen(p, k) /\ Agree(chosen, p.log, k)
      BY <2>2 DEF SafeInv, ChosenInv
    <3>2. p.vote \in Votes /\ p.log \in Seq(Entries) /\ Open(p, k) /\ k \in 1..Len(p.log)
      BY <3>1, ChosenOpen DEF SafeInv, TypeInv, HasChosen
    <3>3. PICK m \in Node : ~ VoteLt(node[m].vote, p.vote)
      BY <3>1, ChosenVote
    <3>4. ~ VoteLt(q.vote, p.vote)
      <4>1. node[m].vote \in Votes
        BY DEF SafeInv, TypeInv, NodeStates
      <4>. QED  BY <1>1, <1>2, <1>3, <3>2, <3>3, <4>1, VoteOrder
    <3>5. CASE p.vote = q.vote
      BY <1>2, <3>1, <3>5 DEF SafeInv, SentInv
    <3>6. CASE VoteLt(p.vote, q.vote)
      <4>1. Agree(p.log, q.log, k)
        BY <3>2, <3>6 DEF SafeInv, CompleteInv
      <4>. QED  BY <1>2, <1>3, <3>1, <3>2, <4>1, AgreeFacts
    <3>. QED  BY <1>2, <1>3, <3>2, <3>4, <3>5, <3>6, VoteOrder
  <2>. QED  BY <2>1, <2>2
<1>. QED  BY <1>3, <1>4, PrefixAgree

----------------------------------------------------------------------------
(* Theorems.                                                                *)

\* Raft's invariants, of any cluster whose restarting leaders find their logs.
THEOREM Safety ==
  ASSUME ~ LeaderLoses
  PROVE  Spec => [](SafeInv /\ ReadVotes)
<1>1. Init => SafeInv /\ ReadVotes
  BY InitSafe
<1>2. (SafeInv /\ ReadVotes) /\ [Next]_vars => (SafeInv /\ ReadVotes)'
  BY Inductive
<1>. QED  BY <1>1, <1>2, PTL DEF Spec

\* A node's role is that of its vote, and what it commits it has.
THEOREM ClusterTypeCorrect ==
  ASSUME ~ LeaderLoses
  PROVE  Spec => []TypeOK
<1>1. SafeInv => TypeOK
  BY SafeType
<1>. QED  BY <1>1, Safety, PTL

\* A log id names one entry and all those before it, on all nodes.
THEOREM Matching ==
  ASSUME ~ LeaderLoses
  PROVE  Spec => []LogsMatch
<1>1. SafeInv => LogsMatch
  BY SafeMatch
<1>. QED  BY <1>1, Safety, PTL

\* What a leader committed is on the disks of a quorum.
THEOREM Held ==
  ASSUME ~ LeaderLoses
  PROVE  Spec => []ChosenIsHeld
<1>1. SafeInv => ChosenIsHeld
  BY SafeHeld
<1>. QED  BY <1>1, Safety, PTL

\* The newest leader has all that was ever committed.
THEOREM Complete ==
  ASSUME ~ LeaderLoses
  PROVE  Spec => []LeaderIsComplete
<1>1. SafeInv => LeaderIsComplete
  BY SafeLeader
<1>. QED  BY <1>1, Safety, PTL

----------------------------------------------------------------------------
(* Linearizable reads.                                                      *)

\* A running node does not forget what is committed, and becomes leader by winning.
LEMMA RunKeeps ==
  ASSUME SafeInv, Mono, NodeInv', AcceptedInv', NEW n \in Node, Runs(n)
  PROVE  /\ node[n].committed <= node'[n].committed
         /\ node'[n].role = "leader" => \/ node[n].role = "leader" /\ node'[n].vote = node[n].vote
                                        \/ \E e \in Entries : WinStep(n, e)
<1>. USE DEF SafeInv
<1>. DEFINE s == node[n]
            t == node'[n]
            Goal == /\ s.committed <= t.committed
                    /\ t.role = "leader" => \/ s.role = "leader" /\ t.vote = s.vote
                                            \/ \E e \in Entries : WinStep(n, e)
<1>0. s.committed \in Nat /\ NodeOK(n)
  BY NodeFacts DEF NodeInv
<1>1. CASE InitializeStep(n)
  <2>1. s.vote.term = 0 /\ t.role = s.role /\ t.committed = s.committed
    BY <1>1, InitializeFields DEF InitializeStep
  <2>2. s.role # "leader"
    BY <1>0, <2>1 DEF NodeOK
  <2>. QED  BY <1>0, <2>1, <2>2
<1>2. CASE FlushStep(n)
  BY <1>0, <1>2, FlushFields
<1>3. ASSUME NEW v \in Votes, AdoptStep(n, v) \/ ElectStep(n, v)  PROVE Goal
  BY <1>0, <1>3 DEF AdoptStep, ElectStep, IsAdopted, SameLog
<1>4. ASSUME NEW e \in Entries, WinStep(n, e) \/ WriteStep(n, e)  PROVE Goal
  <2>1. t.committed = s.committed
    BY <1>4 DEF WinStep, WriteStep, GrowStep
  <2>2. CASE WinStep(n, e)
    BY <1>0, <2>1, <2>2
  <2>3. CASE WriteStep(n, e)
    BY <1>0, <2>1, <2>3 DEF WriteStep
  <2>. QED  BY <1>4, <2>2, <2>3
<1>5. ASSUME NEW p \in sent, FollowStep(n, p)  PROVE Goal
  <2>1. s.committed <= t.committed
    BY <1>5, FollowCommits
  <2>2. Late(s, t, p) \/ InTime(s, t, p)
    BY <1>5, FollowFields
  <2>. QED  BY <2>1, <2>2 DEF Late, InTime
<1>6. ASSUME NEW i \in Nat, CommitStep(n, i)  PROVE Goal
  <2>1. t.committed = i /\ t.vote = s.vote /\ t.role = s.role
    BY <1>6, CommitFields
  <2>2. Len(s.log) \in Nat /\ i \in s.committed + 1 .. Len(s.log)
    BY <1>6, NodeFacts DEF CommitStep
  <2>. QED  BY <1>0, <2>1, <2>2
<1>. HIDE DEF Goal
<1>7. Goal
  BY <1>1, <1>2, <1>3, <1>4, <1>5, <1>6 DEF Runs, Goal
<1>. QED  BY <1>7 DEF Goal

\* A node that runs leaves the others as they are.
LEMMA RunOthers ==
  ASSUME NEW n \in Node, Runs(n)
  PROVE  Others(n)
  BY DEF Runs, InitializeStep, FlushStep, AdoptStep, ElectStep, WinStep, WriteStep, GrowStep, FollowStep,
     CommitStep

\* A candidate has chosen nothing.
LEMMA CandidateChose ==
  ASSUME SafeInv, NEW n \in Node, node[n].role = "candidate", chosen # <<>>
  PROVE  chosen[Len(chosen)].id # LeaderId(node[n].vote)
<1>. DEFINE k == Len(chosen)
<1>1. PICK p \in sent : HasChosen(p, k) /\ Agree(chosen, p.log, k)
  BY DEF SafeInv, ChosenInv
<1>2. /\ p.vote \in Votes /\ p.vote.done /\ p.vote.term > 0 /\ Known(p.vote)
      /\ p.log[k].id = LeaderId(p.vote) /\ chosen[k] = p.log[k] /\ k \in 1..k
  <2>1. p.vote \in Votes /\ chosen \in Seq(Entries) /\ k \in Nat
    BY DEF SafeInv, TypeInv
  <2>2. k \in 1..Len(p.log) /\ p.log[k].id = LeaderId(p.vote)
    BY <1>1 DEF HasChosen
  <2>. QED  BY <1>1, <2>1, <2>2 DEF SafeInv, SentInv, Agree
<1>3. node[n].vote \in Votes /\ node[n].vote.node = n /\ ~ node[n].vote.done
  BY NodeFacts DEF SafeInv, NodeInv, NodeOK
<1>4. ASSUME LeaderId(p.vote) = LeaderId(node[n].vote)  PROVE FALSE
  <2>1. p.vote.node = n /\ p.vote.term = node[n].vote.term
    BY <1>2, <1>3, <1>4, LeaderIds
  <2>2. VoteLt(node[n].vote, p.vote)
    BY <1>2, <1>3, <2>1, VoteLtMeans
  <2>. QED  BY <1>2, <2>1, <2>2 DEF Known
<1>. QED  BY <1>2, <1>4

\* What a leader chose it knows to be committed, after the step.
LEMMA KnowsChosenKept ==
  ASSUME SafeInv, Mono, NodeInv', AcceptedInv', Quiet, \A n \in Node : KnowsChosen(n)
  PROVE  \A n \in Node : KnowsChosen(n)'
<1>0. Step
  BY DEF Quiet, Runs, Step
<1>1. SUFFICES ASSUME NEW m \in Node, node'[m].role = "leader", chosen' # <<>>,
                      chosen'[Len(chosen')].id = LeaderId(node'[m].vote)
               PROVE  Len(chosen') <= node'[m].committed
  BY DEF KnowsChosen
<1>2. CASE chosen' = chosen
  <2>1. CASE node'[m] = node[m]
    BY <1>1, <1>2, <2>1 DEF KnowsChosen
  <2>2. CASE node'[m] # node[m]
    <3>1. Runs(m)
      <4>1. PICK n \in Node : Runs(n)
        BY <2>2 DEF Quiet, Still
      <4>2. m = n
        BY <2>2, <4>1, RunOthers DEF Others
      <4>. QED  BY <4>1, <4>2
    <3>2. /\ node[m].committed <= node'[m].committed
          /\ \/ node[m].role = "leader" /\ node'[m].vote = node[m].vote
             \/ \E e \in Entries : WinStep(m, e)
      BY <1>1, <3>1, RunKeeps
    <3>3. CASE node[m].role = "leader" /\ node'[m].vote = node[m].vote
      <4>1. Len(chosen) <= node[m].committed
        BY <1>1, <1>2, <3>3 DEF KnowsChosen
      <4>2. Len(chosen) \in Nat /\ node[m].committed \in Nat /\ node'[m].committed \in Nat
        BY DEF SafeInv, TypeInv, NodeStates, Mono
      <4>. QED  BY <1>2, <3>2, <4>1, <4>2
    <3>4. ASSUME NEW e \in Entries, WinStep(m, e)  PROVE FALSE
      <4>1. node[m].role = "candidate" /\ node'[m].vote = [node[m].vote EXCEPT !.done = TRUE]
            /\ node[m].vote \in Votes
        BY <3>4, NodeFacts DEF WinStep, SafeInv
      <4>2. LeaderId(node'[m].vote) = LeaderId(node[m].vote)
        BY <4>1 DEF LeaderId, Votes
      <4>. QED  BY <1>1, <1>2, <4>1, <4>2, CandidateChose
    <3>. QED  BY <3>2, <3>3, <3>4
  <2>. QED  BY <2>1, <2>2
<1>3. CASE chosen' # chosen
  <2>1. PICK n \in Node, i \in Nat : CommitStep(n, i)
    BY <1>0, <1>3, ChosenSame
  <2>2. /\ node[n].role = "leader" /\ i \in 1..Len(node[n].log) /\ node[n].log[i].id = LeaderId(node[n].vote)
    BY <2>1, NodeFacts DEF CommitStep, MayCommit, SafeInv
  <2>3. Len(chosen') = i /\ \E p \in sent : p.log = node[n].log /\ Agree(chosen', p.log, i)
    BY <1>3, <2>1, CommitChosen
  <2>4. chosen'[i] = node[n].log[i]
    BY <2>2, <2>3 DEF Agree
  <2>5. node'[n].committed = i /\ node'[n].vote = node[n].vote
    BY <2>1, CommitFields DEF SafeInv
  <2>6. CASE m = n
    BY <2>3, <2>5, <2>6
  <2>7. CASE m # n
    <3>1. node'[m] = node[m]
      BY <2>1, <2>7 DEF CommitStep, Others
    <3>2. node[m].vote.node = m /\ node[n].vote.node = n /\ node[m].vote \in Votes /\ node[n].vote \in Votes
      BY <1>1, <2>2, <3>1, NodeFacts DEF SafeInv, NodeInv, NodeOK
    <3>3. LeaderId(node[m].vote) = LeaderId(node[n].vote)
      BY <1>1, <2>2, <2>3, <2>4, <3>1
    <3>. QED  BY <2>7, <3>2, <3>3, LeaderIds
  <2>. QED  BY <2>6, <2>7
<1>. QED  BY <1>2, <1>3

OutvotedNext(R) ==
  \E Q \in SUBSET Node : /\ HasQuorum(Q) /\ Q \cap R.ok = {}
                         /\ \A m \in Q : VoteLt(R.vote, node'[m].vote)
ReadNext(R) ==
  R.pc = "wait" => /\ Agree(R.floor, chosen', Len(R.floor))
                   /\ Len(R.floor) <= R.upto \/ OutvotedNext(R)

\* A read that is fine stays so while it waits.
LEMMA ReadStays ==
  ASSUME SafeInv, Mono, NEW R \in Reads, ReadOK(R), R.pc = "wait" => R.vote.term > 0
  PROVE  ReadNext(R)
<1>0. SUFFICES ASSUME R.pc = "wait"  PROVE ReadNext(R)
  BY DEF ReadNext
<1>1. R.floor \in Seq(Entries) /\ R.vote \in Votes /\ R.vote.term > 0 /\ Len(R.floor) \in Nat
  BY <1>0 DEF Reads
<1>2. Agree(R.floor, chosen', Len(R.floor))
  <2>1. Agree(R.floor, chosen, Len(R.floor))
    BY <1>0 DEF ReadOK
  <2>2. chosen \in Seq(Entries) /\ chosen' \in Seq(Entries) /\ Len(chosen) \in Nat /\ Len(R.floor) <= Len(chosen)
    BY <2>1 DEF SafeInv, TypeInv, Mono, Agree
  <2>3. Agree(chosen, chosen', Len(R.floor))
    BY <1>1, <2>2, AgreeCut DEF Mono
  <2>. QED  BY <2>1, <2>3, AgreeTrans
<1>3. ASSUME Outvoted(R)  PROVE OutvotedNext(R)
  <2>1. PICK Q \in SUBSET Node : HasQuorum(Q) /\ Q \cap R.ok = {} /\ \A m \in Q : VoteLt(R.vote, node[m].vote)
    BY <1>3 DEF Outvoted
  <2>2. ASSUME NEW m \in Q  PROVE VoteLt(R.vote, node'[m].vote)
    <3>1. node[m].vote \in Votes /\ node'[m].vote \in Votes
      BY DEF SafeInv, TypeInv, NodeStates, Mono
    <3>2. node[m].vote.term > 0
      BY <1>1, <2>1, <3>1, VoteLtMeans DEF Votes
    <3>3. ~ VoteLt(node'[m].vote, node[m].vote)
      BY <3>1, <3>2, VoteOrder DEF Mono
    <3>. QED  BY <1>1, <2>1, <3>1, <3>3, VoteOrder
  <2>. QED  BY <2>1, <2>2 DEF OutvotedNext
<1>. QED  BY <1>0, <1>2, <1>3 DEF ReadOK, ReadNext

\* A read that begins is fine: what others chose before is behind the leader's first
\* entry, or a quorum has left this leader.
LEMMA ReadBegins ==
  ASSUME SafeInv, \A n \in Node : KnowsChosen(n), NEW n \in Node, node[n].role = "leader",
         NEW R, R.floor = chosen, R.upto = ReadLogId(node[n]), R.ok = {n}, R.vote = node[n].vote
  PROVE  ReadOK(R)
<1>. DEFINE s == node[n]
            k == Len(chosen)
<1>1. /\ s.vote \in Votes /\ s.log \in Seq(Entries) /\ Len(s.log) \in Nat /\ s.noop \in Nat
      /\ s.committed \in Nat /\ chosen \in Seq(Entries) /\ k \in Nat
  BY NodeFacts DEF SafeInv, TypeInv, NodeStates
<1>2. R.upto \in Nat /\ s.noop <= R.upto /\ s.committed <= R.upto
  BY <1>1 DEF ReadLogId, Larger
<1>3. Agree(chosen, chosen, k)
  BY <1>1 DEF Agree
<1>4. CASE chosen = <<>>
  <2>1. k = 0
    BY <1>4
  <2>. QED  BY <1>2, <1>3, <2>1 DEF ReadOK
<1>5. CASE chosen # <<>>
  <2>1. PICK p \in sent : HasChosen(p, k) /\ Agree(chosen, p.log, k)
    BY <1>5 DEF SafeInv, ChosenInv
  <2>2. /\ p.vote \in Votes /\ p.log \in Seq(Entries) /\ p.vote.done /\ k \in 1..Len(p.log)
        /\ p.log[k].id = LeaderId(p.vote) /\ chosen[k] = p.log[k] /\ Open(p, k)
    <3>1. p.vote \in Votes /\ p.log \in Seq(Entries) /\ p.vote.done
      BY DEF SafeInv, TypeInv, SentInv
    <3>2. k \in 1..Len(p.log) /\ p.log[k].id = LeaderId(p.vote)
      BY <2>1 DEF HasChosen
    <3>. QED  BY <2>1, <3>1, <3>2, ChosenOpen DEF Agree
  <2>3. CASE p.vote = s.vote
    <3>1. k <= s.committed
      BY <1>5, <2>2, <2>3 DEF KnowsChosen
    <3>. QED  BY <1>1, <1>2, <1>3, <3>1 DEF ReadOK
  <2>4. CASE VoteLt(p.vote, s.vote)
    <3>1. PICK q \in sent : q.vote = s.vote /\ q.log = s.log
      BY DEF SafeInv, NodeInv, NodeOK
    <3>2. s.noop \in 1..Len(s.log) /\ s.log[s.noop].id = LeaderId(s.vote)
      BY DEF SafeInv, NodeInv, NodeOK
    <3>3. Agree(p.log, s.log, k)
      BY <2>2, <2>4, <3>1 DEF SafeInv, CompleteInv
    <3>4. k \in 1..Len(s.log) /\ s.log[k].id = LeaderId(p.vote)
      BY <1>1, <2>2, <3>3 DEF Agree
    <3>5. IdLt(LeaderId(p.vote), LeaderId(s.vote))
      BY <1>1, <2>2, <2>4, VoteIdOrder
    <3>6. Origin(s.log)
      BY DEF SafeInv, LogInv
    <3>7. ~ (s.noop <= k)
      BY <1>1, <3>2, <3>4, <3>5, <3>6, OriginSorted DEF SafeInv
    <3>8. k <= R.upto
      BY <1>1, <1>2, <3>7
    <3>. QED  BY <1>3, <3>8 DEF ReadOK
  <2>5. CASE VoteLt(s.vote, p.vote)
    <3>. DEFINE Q == {m \in Node : HasAcked(m, p.vote, k)}
    <3>1. HasQuorum(Q)
      BY <2>1 DEF HasChosen
    <3>2. ASSUME NEW m \in Q  PROVE VoteLt(s.vote, node[m].vote)
      <4>1. ~ VoteLt(node[m].vote, p.vote) /\ node[m].vote \in Votes
        BY NodeFacts DEF HasAcked, SafeInv, AckedInv
      <4>. QED  BY <1>1, <2>2, <2>5, <4>1, VoteOrder
    <3>3. n \notin Q
      <4>1. ~ VoteLt(s.vote, s.vote)
        BY <1>1, VoteOrder
      <4>. HIDE DEF Q
      <4>. QED  BY <3>2, <4>1
    <3>4. Q \in SUBSET Node /\ Q \cap R.ok = {}
      BY <3>3
    <3>5. Outvoted(R)
      <4>. HIDE DEF Q
      <4>. QED  BY <3>1, <3>2, <3>4 DEF Outvoted
    <3>. QED  BY <1>3, <3>5 DEF ReadOK
  <2>. QED  BY <1>1, <2>2, <2>3, <2>4, <2>5, VoteOrder
<1>. QED  BY <1>4, <1>5

\* Reads stay fine, while nobody crashes.
LEMMA ReadInvKept ==
  ASSUME SafeInv, ReadVotes, Mono, NodeInv', AcceptedInv', ReadInv, Next, \A n \in Node : ~ Restart(n)
  PROVE  ReadInv'
<1>1. Quiet
  BY RunIs
<1>2. \A n \in Node : KnowsChosen(n)'
  BY <1>1, KnowsChosenKept DEF ReadInv
<1>3. read \in [Reader -> Reads]
  BY DEF SafeInv, TypeInv
<1>4. ASSUME NEW r \in Reader  PROVE ReadOK(read[r]) /\ ReadNext(read[r])
  BY <1>3, ReadStays DEF ReadInv, ReadVotes
<1>5. ASSUME \A r \in Reader : ReadNext(read'[r])  PROVE ReadInv'
  BY <1>2, <1>5 DEF ReadInv, ReadOK, ReadNext, Outvoted, OutvotedNext
<1>6. CASE UNCHANGED read
  BY <1>4, <1>5, <1>6
<1>7. ASSUME NEW x \in Reader, NEW R, read' = [read EXCEPT ![x] = R], ReadNext(R)  PROVE ReadInv'
  <2>1. \A r \in Reader : read'[r] = R \/ read'[r] = read[r]
    BY <1>3, <1>7
  <2>. QED  BY <1>4, <1>5, <1>7, <2>1
<1>8. ASSUME NEW r \in Reader, EndRead(r)  PROVE ReadInv'
  <2>. DEFINE s == node[read[r].at]
              l == SubSeq(s.log, 1, s.committed)
              R == [read[r] EXCEPT !.pc = "done", !.saw = l]
  <2>1. read' = [read EXCEPT ![r] = R]
    BY <1>3, <1>8 DEF EndRead
  <2>2. R.pc # "wait"
    BY <1>3 DEF Reads
  <2>. HIDE DEF R
  <2>3. ReadNext(R)
    BY <2>2 DEF ReadNext
  <2>. QED  BY <1>7, <2>1, <2>3
<1>9. ASSUME NEW r \in Reader, NEW n \in Node, BeginRead(r, n)  PROVE ReadInv'
  <2>. DEFINE R == [IdleRead EXCEPT !.pc = "wait", !.at = n, !.vote = node[n].vote,
                                    !.upto = ReadLogId(node[n]), !.ok = {n}, !.floor = chosen]
  <2>1. read' = [read EXCEPT ![r] = R] /\ node[n].role = "leader" /\ node' = node /\ chosen' = chosen
    BY <1>9 DEF BeginRead
  <2>2. R.floor = chosen /\ R.upto = ReadLogId(node[n]) /\ R.ok = {n} /\ R.vote = node[n].vote
    BY DEF IdleRead
  <2>. HIDE DEF R
  <2>3. ReadOK(R)
    BY <2>1, <2>2, ReadBegins DEF ReadInv
  <2>4. ReadNext(R)
    BY <2>1, <2>3 DEF ReadOK, ReadNext, Outvoted, OutvotedNext
  <2>. QED  BY <1>7, <2>1, <2>4
<1>10. ASSUME NEW r \in Reader, NEW n \in Node, ConfirmRead(r, n)  PROVE ReadInv'
  <2>. DEFINE F == [read[r] EXCEPT !.pc = "failed"]
              G == [read[r] EXCEPT !.ok = read[r].ok \cup {n}]
  <2>1. read[r] \in Reads /\ read[r].pc = "wait"
    BY <1>3, <1>10 DEF ConfirmRead
  <2>2. \/ read' = [read EXCEPT ![r] = F]
        \/ read' = [read EXCEPT ![r] = G] /\ ~ VoteLt(read[r].vote, node[n].vote)
    BY <1>3, <1>10 DEF ConfirmRead
  <2>3. F.pc # "wait"
    BY <2>1 DEF Reads
  <2>4. /\ G.pc = read[r].pc /\ G.floor = read[r].floor /\ G.upto = read[r].upto /\ G.vote = read[r].vote
        /\ G.ok = read[r].ok \cup {n} /\ G \in Reads
    BY <2>1 DEF Reads
  <2>. HIDE DEF F, G
  <2>5. ReadNext(F)
    BY <2>3 DEF ReadNext
  <2>6. ASSUME ~ VoteLt(read[r].vote, node[n].vote)  PROVE ReadNext(G)
    <3>1. Outvoted(read[r]) => Outvoted(G)
      BY <2>4, <2>6 DEF Outvoted
    <3>2. ReadOK(G)
      BY <1>4, <2>4, <3>1 DEF ReadOK
    <3>3. G.pc = "wait" => G.vote.term > 0
      BY <2>4 DEF ReadVotes
    <3>. QED  BY <2>4, <3>2, <3>3, ReadStays
  <2>. QED  BY <1>7, <2>2, <2>5, <2>6
<1>. QED
  BY <1>6, <1>8, <1>9, <1>10 DEF Next, Initialize, Elect, HandleVoteRequest, HandleVoteGranted,
     HandleVoteRefused, HandleAppendEntries, Flush, UpdateProgress, HandleHigherVote, ClientWrite

\* What is left never grows.
LEMMA SpendLess ==
  ASSUME left \in BudgetSet, Next
  PROVE  /\ left.reads = 0 => left'.reads = 0
         /\ left.crashes = 0 => left'.crashes = 0
<1>1. CASE UNCHANGED left
  BY <1>1
<1>2. ASSUME NEW what \in {"inits", "elections", "writes", "crashes", "reads"}, Spend(what)
      PROVE  /\ left.reads = 0 => left'.reads = 0
             /\ left.crashes = 0 => left'.crashes = 0
  <2>1. CASE what = "inits"
    BY <1>2, <2>1 DEF Spend, BudgetSet
  <2>2. CASE what = "elections"
    BY <1>2, <2>2 DEF Spend, BudgetSet
  <2>3. CASE what = "writes"
    BY <1>2, <2>3 DEF Spend, BudgetSet
  <2>4. CASE what = "crashes"
    BY <1>2, <2>4 DEF Spend, BudgetSet
  <2>5. CASE what = "reads"
    BY <1>2, <2>5 DEF Spend, BudgetSet
  <2>. QED  BY <1>2, <2>1, <2>2, <2>3, <2>4, <2>5
<1>. QED
  BY <1>1, <1>2 DEF Next, Initialize, Elect, HandleVoteRequest, HandleVoteGranted, HandleVoteRefused,
     HandleAppendEntries, Flush, UpdateProgress, HandleHigherVote, ClientWrite, Restart, BeginRead,
     ConfirmRead, EndRead

\* Nobody begins to read without budget, and nobody crashes without.
LEMMA ReadSafeKept ==
  ASSUME SafeInv, ReadVotes, ReadSafe, Mono, NodeInv', AcceptedInv', Next
  PROVE  ReadSafe'
<1>0. left \in BudgetSet /\ read \in [Reader -> Reads]
  BY DEF SafeInv, TypeInv
<1>1. CASE left.reads = 0 /\ \A r \in Reader : read[r].pc = "idle"
  <2>1. left'.reads = 0
    BY <1>0, <1>1, SpendLess
  <2>2. read' = read
    <3>1. ASSUME NEW r \in Reader, NEW n \in Node, BeginRead(r, n)  PROVE FALSE
      BY <1>0, <1>1, <3>1 DEF BeginRead, Spend, BudgetSet
    <3>2. ASSUME NEW r \in Reader, (\E n \in Node : ConfirmRead(r, n)) \/ EndRead(r)  PROVE FALSE
      BY <1>1, <3>2 DEF ConfirmRead, EndRead
    <3>3. ASSUME NEW n \in Node, Restart(n)  PROVE read' = read
      <4>1. read' = [r \in Reader |-> read[r]]
        BY <1>1, <3>3 DEF Restart
      <4>. QED  BY <1>0, <4>1
    <3>. QED
      BY <3>1, <3>2, <3>3 DEF Next, Initialize, Elect, HandleVoteRequest, HandleVoteGranted,
         HandleVoteRefused, HandleAppendEntries, Flush, UpdateProgress, HandleHigherVote, ClientWrite
  <2>. QED  BY <1>1, <2>1, <2>2 DEF ReadSafe
<1>2. CASE left.crashes = 0 /\ ReadInv
  <2>1. left'.crashes = 0
    BY <1>0, <1>2, SpendLess
  <2>2. \A n \in Node : ~ Restart(n)
    BY <1>0, <1>2 DEF Restart, Spend, BudgetSet
  <2>3. ReadInv'
    BY <1>2, <2>2, ReadInvKept
  <2>. QED  BY <2>1, <2>3 DEF ReadSafe
<1>. QED  BY <1>1, <1>2 DEF ReadSafe

----------------------------------------------------------------------------
(* The cluster implements a replicated log.                                 *)

\* Beginnings of logs that agree.
LEMMA PrefixCut ==
  ASSUME NEW c \in Seq(Entries), NEW d \in Seq(Entries), NEW i \in Nat, NEW j \in Nat, i <= j,
         j <= Len(d), Agree(c, d, i)
  PROVE  IsPrefix(SubSeq(c, 1, i), SubSeq(d, 1, j))
<1>. DEFINE a == SubSeq(c, 1, i)
            b == SubSeq(d, 1, j)
<1>1. Len(c) \in Nat /\ Len(d) \in Nat /\ i <= Len(c) /\ \A k \in 1..i : c[k] = d[k]
  BY DEF Agree
<1>2. a \in Seq(Entries) /\ Len(a) = i /\ \A k \in 1..i : a[k] = c[k]
  BY <1>1
<1>3. b \in Seq(Entries) /\ Len(b) = j /\ \A k \in 1..j : b[k] = d[k]
  BY <1>1
<1>. HIDE DEF a, b
<1>4. Agree(a, b, Len(a))
  BY <1>1, <1>2, <1>3 DEF Agree
<1>5. IsPrefix(a, b)
  BY <1>2, <1>3, <1>4, PrefixAgree
<1>. QED  BY <1>5 DEF a, b

\* What a node applies is what was chosen, up to its commit index.
LEMMA AppliedIs ==
  ASSUME SafeInv, NEW n \in Node
  PROVE  /\ Applied[n] = SubSeq(chosen, 1, node[n].committed)
         /\ node[n].committed \in Nat /\ node[n].committed <= Len(chosen)
<1>1. Agree(node[n].log, chosen, node[n].committed)
  BY DEF SafeInv, CommitInv
<1>2. node[n].log \in Seq(Entries) /\ chosen \in Seq(Entries) /\ node[n].committed \in Nat
  BY DEF SafeInv, TypeInv, NodeStates
<1>3. Applied[n] = SubSeq(node[n].log, 1, node[n].committed)
  BY DEF Applied
<1>. QED  BY <1>1, <1>2, <1>3, AgreeSame DEF Agree

\* A node that commits more moves on.
LEMMA AdvanceIs ==
  ASSUME SafeInv, SafeInv', Mono, NEW n \in Node, node[n].committed <= node'[n].committed,
         \A m \in Node : m # n => node'[m] = node[m], AbstractRead' = AbstractRead
  PROVE  Log!Advance(n)
<1>. DEFINE i == node[n].committed
            j == node'[n].committed
<1>1. chosen \in Seq(Entries) /\ chosen' \in Seq(Entries) /\ Len(chosen) \in Nat /\ Len(chosen') \in Nat
      /\ Agree(chosen, chosen', Len(chosen))
  BY DEF SafeInv, TypeInv, Mono
<1>2. Applied[n] = SubSeq(chosen, 1, i) /\ i \in Nat /\ i <= Len(chosen)
  BY AppliedIs
<1>3. Applied'[n] = SubSeq(chosen', 1, j) /\ j \in Nat /\ j <= Len(chosen')
  <2>1. Agree(node'[n].log, chosen', node'[n].committed)
    BY DEF SafeInv, CommitInv
  <2>2. node'[n].log \in Seq(Entries) /\ node'[n].committed \in Nat
    BY DEF SafeInv, TypeInv, NodeStates
  <2>3. Applied'[n] = SubSeq(node'[n].log, 1, node'[n].committed)
    BY DEF Applied
  <2>. QED  BY <1>1, <2>1, <2>2, <2>3, AgreeSame DEF Agree
<1>. HIDE DEF i, j
<1>4. IsPrefix(chosen, chosen')
  BY <1>1, PrefixAgree
<1>5. i <= j
  BY DEF i, j
<1>6. IsPrefix(Applied[n], Applied'[n])
  <2>1. Agree(chosen, chosen', i)
    BY <1>1, <1>2, AgreeCut
  <2>2. IsPrefix(SubSeq(chosen, 1, i), SubSeq(chosen', 1, j))
    BY <1>1, <1>2, <1>3, <1>5, <2>1, PrefixCut
  <2>. QED  BY <1>2, <1>3, <2>2
<1>7. IsPrefix(Applied'[n], chosen')
  <2>1. Agree(chosen', chosen', j)
    BY <1>1, <1>3 DEF Agree
  <2>2. SubSeq(chosen', 1, j) \in Seq(Entries) /\ Len(SubSeq(chosen', 1, j)) = j
        /\ \A k \in 1..j : SubSeq(chosen', 1, j)[k] = chosen'[k]
    BY <1>1, <1>3
  <2>3. Agree(SubSeq(chosen', 1, j), chosen', j)
    BY <1>1, <1>3, <2>2 DEF Agree
  <2>. QED  BY <1>1, <1>3, <2>2, <2>3, PrefixAgree
<1>8. \A m \in Node \ {n} : Applied'[m] = Applied[m]
  BY DEF Applied
<1>. QED  BY <1>4, <1>6, <1>7, <1>8 DEF Log!Advance, Log!IsPrefix, IsPrefix

\* A new cluster is a new log.
LEMMA AbstractInit ==
  ASSUME Init
  PROVE  Log!Init
<1>1. chosen = <<>> /\ (\A n \in Node : InitNode(n)) /\ TypeInv /\ \A r \in Reader : read[r] = IdleRead
  BY InitIs
<1>2. Applied = [n \in Node |-> <<>>]
  <2>1. ASSUME NEW n \in Node  PROVE SubSeq(node[n].log, 1, node[n].committed) = <<>>
    <3>1. node[n].committed = 0 /\ node[n].log \in Seq(Entries)
      BY <1>1 DEF InitNode, TypeInv, NodeStates
    <3>. QED  BY <3>1
  <2>. QED  BY <2>1 DEF Applied
<1>3. AbstractRead = [r \in Reader |-> Log!IdleRead]
  BY <1>1 DEF AbstractRead, IdleRead, Log!IdleRead
<1>. QED  BY <1>1, <1>2, <1>3 DEF Log!Init

\* What an observer sees of a step of a read.
LEMMA AbstractReads ==
  ASSUME NEW r \in Reader, NEW R, read \in [Reader -> Reads], read' = [read EXCEPT ![r] = R]
  PROVE  AbstractRead' = [AbstractRead EXCEPT ![r] = [pc |-> R.pc, floor |-> R.floor, saw |-> R.saw]]
<1>1. \A x \in Reader : read'[x] = IF x = r THEN R ELSE read[x]
  OBVIOUS
<1>. QED  BY <1>1 DEF AbstractRead

\* A step that changes no log and no commit index is not seen.
LEMMA SameApplied ==
  ASSUME \A n \in Node : node'[n].log = node[n].log /\ node'[n].committed = node[n].committed
  PROVE  Applied' = Applied
  BY DEF Applied

\* Every step of the cluster is one of the log, or invisible.
LEMMA AbstractStep ==
  ASSUME ~ LeaderLoses, SafeInv, ReadVotes, ReadSafe, SafeInv', Mono, Next
  PROVE  Log!Next \/ UNCHANGED Log!vars
<1>0. read \in [Reader -> Reads]
  BY DEF SafeInv, TypeInv
<1>1. ASSUME NEW n \in Node, Restart(n)  PROVE Log!Forget(n)
  <2>1. ResumeStep(n) \/ \E l \in Seq(Entries) : RestartStep(n, l)
    BY <1>1, RestartIs DEF SafeInv
  <2>2. node'[n].committed = 0 /\ Others(n) /\ chosen' = chosen
    <3>1. CASE ResumeStep(n)
      BY <3>1 DEF ResumeStep
    <3>2. ASSUME NEW l \in Seq(Entries), RestartStep(n, l)
          PROVE  node'[n].committed = 0 /\ Others(n) /\ chosen' = chosen
      BY <3>2, RestartFields DEF RestartStep, SafeInv
    <3>. QED  BY <2>1, <3>1, <3>2
  <2>3. IsPrefix(Applied'[n], Applied[n])
    <3>1. Applied'[n] = SubSeq(node'[n].log, 1, 0) /\ node'[n].log \in Seq(Entries)
      BY <2>2 DEF Applied, SafeInv, TypeInv, NodeStates
    <3>2. Applied'[n] = <<>>
      BY <3>1
    <3>3. Applied[n] = SubSeq(chosen, 1, node[n].committed) /\ chosen \in Seq(Entries)
          /\ node[n].committed \in Nat /\ node[n].committed <= Len(chosen)
      BY AppliedIs DEF SafeInv, TypeInv
    <3>4. Applied[n] \in Seq(Entries)
      BY <3>3
    <3>5. Len(Applied[n]) \in Nat /\ <<>> \in Seq(Entries) /\ Agree(<<>>, Applied[n], 0) /\ Len(<<>>) = 0
      BY <3>4 DEF Agree
    <3>. QED  BY <3>2, <3>4, <3>5, PrefixAgree
  <2>4. \A m \in Node \ {n} : Applied'[m] = Applied[m]
    BY <2>2 DEF Others, Applied
  <2>5. ASSUME NEW r \in Reader
        PROVE  \/ AbstractRead'[r] = AbstractRead[r]
               \/ AbstractRead[r].pc = "wait" /\ AbstractRead'[r] = [AbstractRead[r] EXCEPT !.pc = "failed"]
    <3>1. read'[r] = IF read[r].at = n /\ read[r].pc = "wait" THEN [read[r] EXCEPT !.pc = "failed"] ELSE read[r]
      BY <1>1 DEF Restart
    <3>2. CASE read'[r] = read[r]
      BY <3>2 DEF AbstractRead
    <3>3. CASE read[r].pc = "wait" /\ read'[r] = [read[r] EXCEPT !.pc = "failed"]
      <4>1. read'[r].pc = "failed" /\ read'[r].floor = read[r].floor /\ read'[r].saw = read[r].saw
        BY <1>0, <3>3 DEF Reads
      <4>2. AbstractRead'[r] = [pc |-> "failed", floor |-> read[r].floor, saw |-> read[r].saw]
            /\ AbstractRead[r] = [pc |-> "wait", floor |-> read[r].floor, saw |-> read[r].saw]
        BY <3>3, <4>1 DEF AbstractRead
      <4>. QED  BY <4>2
    <3>. QED  BY <3>1, <3>2, <3>3
  <2>. QED  BY <2>2, <2>3, <2>4, <2>5 DEF Log!Forget, Log!IsPrefix, IsPrefix
<1>2. ASSUME Quiet, read' = read  PROVE (\E n \in Node : Log!Advance(n)) \/ UNCHANGED Log!vars
  <2>1. AbstractRead' = AbstractRead
    BY <1>2 DEF AbstractRead
  <2>2. CASE Still
    BY <2>1, <2>2 DEF Still, Applied, Log!vars
  <2>3. ASSUME NEW n \in Node, Runs(n)  PROVE Log!Advance(n)
    <3>1. node[n].committed <= node'[n].committed
      BY <2>3, RunKeeps DEF SafeInv
    <3>2. \A m \in Node : m # n => node'[m] = node[m]
      BY <2>3, RunOthers DEF Others
    <3>. QED  BY <2>1, <3>1, <3>2, AdvanceIs
  <2>. QED  BY <1>2, <2>2, <2>3 DEF Quiet
<1>3. ASSUME NEW r \in Reader, NEW n \in Node, BeginRead(r, n)  PROVE Log!Begin(r)
  <2>. DEFINE R == [IdleRead EXCEPT !.pc = "wait", !.at = n, !.vote = node[n].vote,
                                    !.upto = ReadLogId(node[n]), !.ok = {n}, !.floor = chosen]
  <2>1. read' = [read EXCEPT ![r] = R] /\ read[r].pc = "idle" /\ node' = node /\ chosen' = chosen
    BY <1>3 DEF BeginRead
  <2>2. R.pc = "wait" /\ R.floor = chosen /\ R.saw = <<>>
    BY DEF IdleRead
  <2>. HIDE DEF R
  <2>3. AbstractRead' = [AbstractRead EXCEPT ![r] = [pc |-> "wait", floor |-> chosen, saw |-> <<>>]]
    BY <1>0, <2>1, <2>2, AbstractReads
  <2>4. AbstractRead[r].pc = "idle" /\ Applied' = Applied
    BY <2>1 DEF AbstractRead, Applied
  <2>. QED  BY <2>1, <2>3, <2>4 DEF Log!Begin
<1>4. ASSUME NEW r \in Reader, NEW n \in Node, ConfirmRead(r, n)  PROVE Log!Fail(r) \/ UNCHANGED Log!vars
  <2>. DEFINE F == [read[r] EXCEPT !.pc = "failed"]
              G == [read[r] EXCEPT !.ok = read[r].ok \cup {n}]
  <2>1. /\ read[r] \in Reads /\ read[r].pc = "wait" /\ chosen' = chosen
        /\ read' = [read EXCEPT ![r] = F] \/ read' = [read EXCEPT ![r] = G]
    BY <1>0, <1>4 DEF ConfirmRead
  <2>2. Applied' = Applied
    <3>1. Still \/ \E v \in Votes : AdoptStep(n, v)
      BY <1>4, ConfirmReadIs DEF SafeInv
    <3>2. \A m \in Node : node'[m].log = node[m].log /\ node'[m].committed = node[m].committed
      BY <3>1 DEF Still, AdoptStep, Others, IsAdopted, SameLog
    <3>. QED  BY <3>2, SameApplied
  <2>3. /\ F.pc = "failed" /\ F.floor = read[r].floor /\ F.saw = read[r].saw
        /\ G.pc = read[r].pc /\ G.floor = read[r].floor /\ G.saw = read[r].saw
    BY <2>1 DEF Reads
  <2>. HIDE DEF F, G
  <2>4. AbstractRead[r] = [pc |-> "wait", floor |-> read[r].floor, saw |-> read[r].saw]
    BY <2>1 DEF AbstractRead
  <2>5. CASE read' = [read EXCEPT ![r] = F]
    <3>1. AbstractRead' = [AbstractRead EXCEPT ![r] = [pc |-> "failed", floor |-> read[r].floor, saw |-> read[r].saw]]
      BY <1>0, <2>3, <2>5, AbstractReads
    <3>2. [AbstractRead[r] EXCEPT !.pc = "failed"] = [pc |-> "failed", floor |-> read[r].floor, saw |-> read[r].saw]
      BY <2>4
    <3>3. AbstractRead' = [AbstractRead EXCEPT ![r].pc = "failed"]
      BY <3>1, <3>2
    <3>. QED  BY <2>1, <2>2, <2>4, <3>3 DEF Log!Fail
  <2>6. CASE read' = [read EXCEPT ![r] = G]
    <3>1. AbstractRead' = [AbstractRead EXCEPT ![r] = [pc |-> "wait", floor |-> read[r].floor, saw |-> read[r].saw]]
      <4>1. [pc |-> G.pc, floor |-> G.floor, saw |-> G.saw]
              = [pc |-> "wait", floor |-> read[r].floor, saw |-> read[r].saw]
        BY <2>1, <2>3
      <4>2. AbstractRead' = [AbstractRead EXCEPT ![r] = [pc |-> G.pc, floor |-> G.floor, saw |-> G.saw]]
        BY <1>0, <2>6, AbstractReads
      <4>. QED  BY <4>1, <4>2
    <3>2. AbstractRead' = AbstractRead
      <4>1. \A x \in Reader : AbstractRead'[x] = AbstractRead[x]
        <5>1. \A x \in Reader : AbstractRead'[x] = IF x = r THEN AbstractRead[r] ELSE AbstractRead[x]
          BY <2>4, <3>1 DEF AbstractRead
        <5>. QED  BY <5>1
      <4>. QED  BY <4>1 DEF AbstractRead
    <3>. QED  BY <2>1, <2>2, <3>2 DEF Log!vars
  <2>. QED  BY <2>1, <2>5, <2>6
<1>5. ASSUME NEW r \in Reader, EndRead(r)  PROVE Log!End(r)
  <2>. DEFINE n == read[r].at
              s == node[n]
              l == SubSeq(s.log, 1, s.committed)
              R == [read[r] EXCEPT !.pc = "done", !.saw = l]
  <2>1. /\ read' = [read EXCEPT ![r] = R] /\ read[r].pc = "wait" /\ HasQuorum(read[r].ok)
        /\ s.committed >= read[r].upto /\ node' = node /\ chosen' = chosen
    BY <1>0, <1>5 DEF EndRead
  <2>2. read[r] \in Reads /\ n \in Node
    BY <1>0, <2>1 DEF ReadVotes, Reads
  <2>3. R.pc = "done" /\ R.floor = read[r].floor /\ R.saw = l
    <3>. HIDE DEF l
    <3>. QED  BY <2>2 DEF Reads
  <2>4. l = Applied[n]
    <3>. HIDE DEF n
    <3>. QED  BY <2>2 DEF Applied
  <2>. HIDE DEF R, l, n
  <2>5. AbstractRead' = [AbstractRead EXCEPT ![r] = [pc |-> "done", floor |-> read[r].floor, saw |-> Applied[n]]]
    <3>1. [pc |-> R.pc, floor |-> R.floor, saw |-> R.saw]
            = [pc |-> "done", floor |-> read[r].floor, saw |-> Applied[n]]
      BY <2>3, <2>4
    <3>2. AbstractRead' = [AbstractRead EXCEPT ![r] = [pc |-> R.pc, floor |-> R.floor, saw |-> R.saw]]
      BY <1>0, <2>1, AbstractReads
    <3>. QED  BY <3>1, <3>2
  <2>6. AbstractRead[r] = [pc |-> "wait", floor |-> read[r].floor, saw |-> read[r].saw]
    BY <2>1 DEF AbstractRead
  <2>7. AbstractRead' = [AbstractRead EXCEPT ![r].pc = "done", ![r].saw = Applied[n]]
    <3>. DEFINE A == [pc |-> "wait", floor |-> read[r].floor, saw |-> read[r].saw]
    <3>1. [[A EXCEPT !.pc = "done"] EXCEPT !.saw = Applied[n]] = [pc |-> "done", floor |-> read[r].floor, saw |-> Applied[n]]
      <4>. DEFINE B == [pc |-> "done", floor |-> read[r].floor, saw |-> read[r].saw]
      <4>1. [A EXCEPT !.pc = "done"] = B
        OBVIOUS
      <4>2. [B EXCEPT !.saw = Applied[n]] = [pc |-> "done", floor |-> read[r].floor, saw |-> Applied[n]]
        OBVIOUS
      <4>. HIDE DEF A, B
      <4>. QED  BY <4>1, <4>2
    <3>2. DOMAIN AbstractRead = Reader
      BY DEF AbstractRead
    <3>. HIDE DEF A
    <3>3. AbstractRead[r] = A
      BY <2>6 DEF A
    <3>. QED  BY <2>5, <3>1, <3>2, <3>3
  <2>8. IsPrefix(read[r].floor, Applied[n])
    <3>. DEFINE f == read[r].floor
                k == Len(f)
    <3>1. ReadOK(read[r])
      BY <2>1 DEF ReadSafe, ReadInv
    <3>2. f \in Seq(Entries) /\ k \in Nat /\ read[r].upto \in Nat /\ Agree(f, chosen, k)
      BY <2>1, <2>2, <3>1 DEF ReadOK, Reads
    <3>3. ~ Outvoted(read[r])
      BY <2>1, QuorumsMeet DEF Outvoted
    <3>4. k <= read[r].upto
      BY <2>1, <3>1, <3>3 DEF ReadOK
    <3>5. Applied[n] = SubSeq(chosen, 1, s.committed) /\ s.committed \in Nat /\ s.committed <= Len(chosen)
      BY <2>2, AppliedIs
    <3>6. k <= s.committed /\ chosen \in Seq(Entries)
      BY <2>1, <3>2, <3>4, <3>5 DEF SafeInv, TypeInv
    <3>7. IsPrefix(SubSeq(f, 1, k), SubSeq(chosen, 1, s.committed))
      BY <3>2, <3>5, <3>6, PrefixCut
    <3>8. SubSeq(f, 1, k) = f
      BY <3>2
    <3>. QED  BY <3>5, <3>7, <3>8
  <2>9. Applied' = Applied
    BY <2>1 DEF Applied
  <2>10. Log!IsPrefix(AbstractRead[r].floor, Applied[n])
    BY <2>6, <2>8 DEF Log!IsPrefix, IsPrefix
  <2>11. \E m \in Node :
           /\ Log!IsPrefix(AbstractRead[r].floor, Applied[m])
           /\ AbstractRead' = [AbstractRead EXCEPT ![r].pc = "done", ![r].saw = Applied[m]]
    BY <2>2, <2>7, <2>10
  <2>12. AbstractRead[r].pc = "wait"
    BY <2>6
  <2>. QED  BY <2>1, <2>9, <2>11, <2>12 DEF Log!End
<1>6. CASE (\E n \in Node : Restart(n)) \/ (\E r \in Reader : EndRead(r) \/ \E n \in Node : BeginRead(r, n) \/ ConfirmRead(r, n))
  BY <1>1, <1>3, <1>4, <1>5, <1>6 DEF Log!Next
<1>7. CASE ~ ((\E n \in Node : Restart(n)) \/ (\E r \in Reader : EndRead(r) \/ \E n \in Node : BeginRead(r, n) \/ ConfirmRead(r, n)))
  <2>1. Quiet
    BY <1>7, RunIs
  <2>2. read' = read
    BY <1>7 DEF Next, Initialize, Elect, HandleVoteRequest, HandleVoteGranted,
     HandleVoteRefused, HandleAppendEntries, Flush, UpdateProgress, HandleHigherVote, ClientWrite
  <2>. QED  BY <1>2, <2>1, <2>2 DEF Log!Next
<1>. QED  BY <1>6, <1>7

\* A step of a safe cluster, with what it keeps.
LEMMA SafeStep ==
  ASSUME ~ LeaderLoses, SafeInv, ReadVotes, ReadSafe, Next
  PROVE  SafeInv' /\ ReadVotes' /\ ReadSafe' /\ Mono
<1>1. SafeInv' /\ ReadVotes'
  BY Inductive
<1>2. Step
  BY StepIs
<1>3. Mono
  BY <1>1, <1>2, StepMono DEF SafeInv
<1>4. ReadSafe'
  BY <1>1, <1>3, ReadSafeKept DEF SafeInv
<1>. QED  BY <1>1, <1>3, <1>4

\* Reads are safe at first, when the budget does not allow both crashes and reads.
LEMMA InitReads ==
  ASSUME Init, \A b \in Budgets : b.crashes = 0 \/ b.reads = 0
  PROVE  ReadSafe
<1>1. chosen = <<>> /\ \A r \in Reader : read[r] = IdleRead
  BY InitIs
<1>2. IdleRead.pc = "idle"
  BY DEF IdleRead
<1>3. ReadInv
  BY <1>1, <1>2 DEF ReadInv, KnowsChosen, ReadOK
<1>4. left.crashes = 0 \/ left.reads = 0
  BY DEF Init
<1>. QED  BY <1>1, <1>2, <1>3, <1>4 DEF ReadSafe

\* The cluster is one log that only grows, of which every node applies a prefix, and
\* what a linearizable read sees includes all that was committed when it began.  With
\* reads this holds only while nobody restarts (RestartedReads).
THEOREM Linearizable ==
  ASSUME ~ LeaderLoses, \A b \in Budgets : b.crashes = 0 \/ b.reads = 0
  PROVE  Spec => IsReplicatedLog
<1>. DEFINE I == SafeInv /\ ReadVotes /\ ReadSafe
<1>1. Init => I /\ Log!Init
  BY InitSafe, InitReads, AbstractInit
<1>2. I /\ [Next]_vars => I'
  <2>1. ASSUME I, Next  PROVE I'
    BY <2>1, SafeStep
  <2>2. ASSUME I, UNCHANGED vars  PROVE I'
    <3>1. SafeInv' /\ ReadVotes'
      BY <2>2, Inductive
    <3>2. ReadSafe'
      BY <2>2 DEF vars, ReadSafe, ReadInv, KnowsChosen, ReadOK, Outvoted
    <3>. QED  BY <3>1, <3>2
  <2>. HIDE DEF I
  <2>. QED  BY <2>1, <2>2
<1>3. I /\ I' /\ [Next]_vars => [Log!Next]_Log!vars
  <2>1. ASSUME I, I', Next  PROVE Log!Next \/ UNCHANGED Log!vars
    BY <2>1, SafeStep, AbstractStep
  <2>2. ASSUME UNCHANGED vars  PROVE UNCHANGED Log!vars
    BY <2>2 DEF vars, Log!vars, Applied, AbstractRead
  <2>. HIDE DEF I
  <2>. QED  BY <2>1, <2>2
<1>. HIDE DEF I
<1>. QED  BY <1>1, <1>2, <1>3, PTL DEF Spec, IsReplicatedLog, Log!Spec
=============================================================================
