---------------------------- MODULE LeaderProofs ----------------------------
(***************************************************************************)
(* What a leader makes of the memberships, for every set of nodes, every   *)
(* first membership, any clients and any requests, batches included: the   *)
(* memberships it moves through overlap, at most one is not committed, and *)
(* a change that ends well does not leave a joint one.  And what its       *)
(* progresses accept: for the configs in which some voter makes a quorum   *)
(* with any other one, a quorum holds what is accepted, and what is        *)
(* committed stays held across the changes of the membership.              *)
(***************************************************************************)
EXTENDS Leader, FiniteSetTheorems, SequenceTheorems, WellFoundedInduction, TLAPS

\* A VecProgress: the voters come first, and values are log indexes or times.
IsProgress(p) ==
  /\ p = [configs |-> p.configs, accepted |-> p.accepted, voters |-> p.voters,
          entries |-> p.entries]
  /\ p.accepted \in Nat
  /\ \E U : p.entries \in Seq([id : U, val : Nat])
  /\ p.voters \in 0..Len(p.entries)

\* The node ids of a membership.
IsNodes(S) == S \in SUBSET Nat /\ IsFiniteSet(S)

LogInv == \E U : log \in Seq(U)

\* The memberships a leader remembers are entries of its log.
MemInv ==
  /\ mem = [committed |-> mem.committed, effective |-> mem.effective]
  /\ mem.committed.at \in 1..Len(log) /\ mem.effective.at \in 1..Len(log)
  /\ IsMembership(mem.effective.m)
  /\ log[mem.effective.at] = mem.effective.m

\* The effective membership is the only one that may not be committed.
UncommittedInv ==
  /\ mem.committed.at <= committed
  /\ \A i \in 1..Len(log) : (log[i] # Normal /\ i > committed) => i = mem.effective.at

\* A call that ended well, or is at its second step, waited for a uniform
\* membership.
ClientInv ==
  /\ client = [c \in Client |-> client[c]]
  /\ \A c \in Client :
    /\ client[c] = [pc |-> client[c].pc, at |-> client[c].at, req |-> client[c].req]
    /\ client[c].pc \in {"first", "second", "done"} => client[c].at \in 1..Len(log)
    /\ client[c].pc \in {"second", "done"} => Len(log[client[c].at].configs) = 1

LeaderInv ==
  /\ LogInv /\ committed \in Nat /\ IsProgress(progress)
  /\ MemInv /\ UncommittedInv /\ ClientInv
----------------------------------------------------------------------------
(* Numbers and sequences.                                                  *)

\* A set of numbers that is not empty has a least one.
LEMMA Least ==
  ASSUME NEW S \in SUBSET Nat, NEW x \in S
  PROVE  \E z \in S : \A y \in S : z <= y
<1>1. S # {}
  OBVIOUS
<1>2. PICK z \in S : \A y \in S : <<y, z>> \notin OpToRel(<, Nat)
  BY <1>1, NatLessThanWellFounded, WFMin, Zenon
<1>3. ASSUME NEW y \in S PROVE z <= y
  <2>1. y \in Nat /\ z \in Nat
    OBVIOUS
  <2>2. ~ (y < z)
    BY <1>2, <2>1, Zenon DEF OpToRel
  <2> QED BY <2>1, <2>2
<1> QED BY <1>3

\* Induction, for a set of numbers.
LEMMA Induct ==
  ASSUME NEW n \in Nat, NEW S, 0 \in S, \A k \in 0..n : k \in S /\ k < n => k + 1 \in S
  PROVE  \A k \in 0..n : k \in S
<1> DEFINE B == {k \in 0..n : k \notin S}
<1>1. SUFFICES ASSUME NEW k \in 0..n, k \notin S PROVE FALSE
  OBVIOUS
<1>2. B \in SUBSET Nat /\ k \in B
  BY <1>1
<1>3. PICK z \in B : \A y \in B : z <= y
  <2> HIDE DEF B
  <2> QED BY <1>2, Least
<1>4. z \in 0..n /\ z \notin S /\ z # 0
  BY <1>3
<1>5. z - 1 \in 0..n /\ z - 1 < n /\ z - 1 \notin B
  BY <1>3, <1>4
<1>6. z - 1 \in S
  BY <1>5
<1>7. (z - 1) + 1 \in S
  BY <1>5, <1>6
<1> QED BY <1>4, <1>7

\* A function on 1..n is a sequence of length n.
LEMMA FunIsSeq ==
  ASSUME NEW n \in Nat, NEW U, NEW f \in [1..n -> U]
  PROVE  f \in Seq(U) /\ Len(f) = n
<1>1. f \in Seq(U)
  BY SeqDef, Zenon
<1>2. DOMAIN f = 1..n /\ Len(f) \in Nat /\ DOMAIN f = 1..Len(f)
  BY <1>1, LenProperties
<1> QED BY <1>1, <1>2

\* Moving an element keeps a sequence's length and what it is made of.
LEMMA Moved ==
  ASSUME NEW U, NEW s \in Seq(U), NEW i \in 1..Len(s), NEW k \in 1..Len(s), NEW e \in U
  PROVE  /\ InsertAt(RemoveAt(s, i), k, e) \in Seq(U)
         /\ Len(InsertAt(RemoveAt(s, i), k, e)) = Len(s)
<1> DEFINE a == SubSeq(s, 1, i - 1)
           b == SubSeq(s, i + 1, Len(s))
           r == a \o b
           c == SubSeq(r, 1, k - 1)
           d == SubSeq(r, k, Len(r))
<1>0. Len(s) \in Nat /\ i \in Nat /\ k \in Nat /\ i >= 1 /\ k >= 1 /\ i <= Len(s) /\ k <= Len(s)
  OBVIOUS
<1>1. \A j \in 1..Len(s) : s[j] \in U
  OBVIOUS
<1>2. a \in Seq(U) /\ Len(a) = i - 1
  BY <1>0, <1>1, SubSeqProperties
<1>3. b \in Seq(U) /\ Len(b) = Len(s) - i
  BY <1>0, <1>1, SubSeqProperties
<1>4. r \in Seq(U) /\ Len(r) = Len(s) - 1
  <2> HIDE DEF a, b
  <2>1. a \o b \in Seq(U) /\ Len(a \o b) = Len(a) + Len(b)
    BY <1>2, <1>3, ConcatProperties, Zenon
  <2> QED BY <1>0, <1>2, <1>3, <2>1
<1> HIDE DEF r
<1>5. \A j \in 1..Len(r) : r[j] \in U
  BY <1>4
<1>6. c \in Seq(U) /\ Len(c) = k - 1
  BY <1>0, <1>4, <1>5, SubSeqProperties
<1>7. d \in Seq(U) /\ Len(d) = Len(r) - k + 1
  BY <1>0, <1>4, <1>5, SubSeqProperties
<1>8. <<e>> \in Seq(U) /\ Len(<<e>>) = 1
  OBVIOUS
<1> HIDE DEF c, d
<1>9. c \o <<e>> \in Seq(U) /\ Len(c \o <<e>>) = k
  BY <1>0, <1>6, <1>8, ConcatProperties
<1> DEFINE h == c \o <<e>>
<1>10. h \in Seq(U) /\ Len(h) = k
  BY <1>9
<1> HIDE DEF h
<1>11. h \o d \in Seq(U) /\ Len(h \o d) = Len(h) + Len(d)
  BY <1>7, <1>10, ConcatProperties, Zenon
<1>12. Len(h \o d) = Len(s)
  BY <1>0, <1>4, <1>7, <1>10, <1>11
<1> QED BY <1>11, <1>12, Zenon DEF h, InsertAt, RemoveAt, r, a, b, c, d

\* Min and Max of a set of numbers.
LEMMA MinIsBottom ==
  ASSUME NEW S \in SUBSET Nat, S # {}
  PROVE  Min(S) \in S /\ \A y \in S : Min(S) <= y
<1>1. PICK x \in S : x \in S
  OBVIOUS
<1>2. \E z \in S : \A y \in S : z <= y
  BY <1>1, Least
<1> QED BY <1>2 DEF Min

LEMMA MaxIsTop ==
  ASSUME NEW n \in Nat, NEW S \in SUBSET (0..n), NEW x \in S
  PROVE  Max(S) \in S /\ \A y \in S : Max(S) >= y
<1> DEFINE D == {k \in 0..n : n - k \in S}
<1>1. D \in SUBSET Nat /\ n - x \in D
  OBVIOUS
<1>2. PICK z \in D : \A y \in D : z <= y
  <2> HIDE DEF D
  <2> QED BY <1>1, Least
<1>3. n - z \in S
  OBVIOUS
<1>4. ASSUME NEW y \in S PROVE n - z >= y
  <2>1. n - y \in D
    OBVIOUS
  <2> QED BY <1>2, <2>1
<1>5. \E u \in S : \A y \in S : u >= y
  BY <1>3, <1>4
<1> QED BY <1>5 DEF Max
----------------------------------------------------------------------------
(* Quorums and memberships.                                                *)

\* Two sets that part the nodes are not both majorities of the same voters.
LEMMA MajoritiesMeet ==
  ASSUME NEW c, IsFiniteSet(c), NEW Q, NEW R, Q \cap R = {}, IsMajority(c, Q)
  PROVE  ~ IsMajority(c, R)
<1> DEFINE A == c \cap Q
           B == c \cap R
<1>1. IsFiniteSet(A) /\ IsFiniteSet(B) /\ A \subseteq c /\ B \subseteq c
  BY FS_Subset
<1>2. Cardinality(A) \in Nat /\ Cardinality(B) \in Nat /\ Cardinality(c) \in Nat
  BY <1>1, FS_CardinalityType
<1>3. A \cap B = {}
  OBVIOUS
<1>4. ~ (Cardinality(A) + Cardinality(B) > Cardinality(c))
  BY <1>1, <1>3, FS_MajoritiesIntersect
<1> QED BY <1>2, <1>4 DEF IsMajority

\* A membership of one voter set.
LEMMA UniformIs ==
  ASSUME NEW s \in SUBSET Nat, IsFiniteSet(s), NEW f, IsNodes(DOMAIN f)
  PROVE  IsMembership([configs |-> <<s>>, nodes |-> f])
<1>1. <<s>> \in Seq(SUBSET Nat) /\ Len(<<s>>) = 1 /\ DOMAIN <<s>> = 1..1 /\ <<s>>[1] = s
  OBVIOUS
<1>2. \A i \in DOMAIN <<s>> : IsFiniteSet(<<s>>[i])
  <2>1. SUFFICES ASSUME NEW i \in 1..1 PROVE IsFiniteSet(<<s>>[i])
    BY <1>1, Zenon
  <2>2. i = 1
    BY <2>1
  <2> QED BY <1>1, <2>2, Zenon
<1> DEFINE x == [configs |-> <<s>>, nodes |-> f]
<1>3. x.configs = <<s>> /\ x.nodes = f
  OBVIOUS
<1>4. x = [configs |-> x.configs, nodes |-> x.nodes]
  BY <1>3
<1>5. x.configs \in Seq(SUBSET Nat) /\ Len(x.configs) \in 1..2
  BY <1>1, <1>3
<1>6. \A i \in DOMAIN x.configs : IsFiniteSet(x.configs[i])
  BY <1>2, <1>3, Zenon
<1>7. DOMAIN x.nodes \in SUBSET Nat /\ IsFiniteSet(DOMAIN x.nodes)
  BY <1>3, Zenon DEF IsNodes
<1> HIDE DEF x
<1> QED BY <1>4, <1>5, <1>6, <1>7, Zenon DEF IsMembership, x

\* Replacing the voters of a membership.
LEMMA WithConfigs ==
  ASSUME NEW m, IsMembership(m), NEW s \in SUBSET Nat, IsFiniteSet(s)
  PROVE  IsMembership([m EXCEPT !.configs = <<s>>])
<1>1. [m EXCEPT !.configs = <<s>>] = [configs |-> <<s>>, nodes |-> m.nodes]
  BY DEF IsMembership
<1>2. IsNodes(DOMAIN m.nodes)
  BY DEF IsMembership, IsNodes
<1> QED BY <1>1, <1>2, UniformIs, Zenon

\* Replacing the nodes of a membership.
LEMMA WithNodes ==
  ASSUME NEW m, IsMembership(m), NEW f, IsNodes(DOMAIN f)
  PROVE  IsMembership([m EXCEPT !.nodes = f])
<1>1. [m EXCEPT !.nodes = f] = [configs |-> m.configs, nodes |-> f]
  BY DEF IsMembership
<1> QED BY <1>1 DEF IsMembership, IsNodes

\* The last config of a membership is one of its configs.
LEMMA LastIs ==
  ASSUME NEW m, IsMembership(m)
  PROVE  /\ LastConfig(m) = Last(m.configs) /\ LastConfig(m) \in ToSet(m.configs)
         /\ LastConfig(m) \in SUBSET Nat /\ IsFiniteSet(LastConfig(m))
<1>1. m.configs # <<>> /\ Len(m.configs) \in DOMAIN m.configs
  <2>1. m.configs \in Seq(SUBSET Nat) /\ Len(m.configs) \in 1..2
    BY DEF IsMembership
  <2> QED BY <2>1
<1>2. LastConfig(m) = m.configs[Len(m.configs)]
  BY <1>1 DEF LastConfig, Last
<1> QED BY <1>1, <1>2 DEF IsMembership, ToSet, Last

\* The maps of nodes stay finite.
LEMMA NodesFinite ==
  ASSUME NEW f, NEW g, IsNodes(DOMAIN f)
  PROVE  /\ IsNodes(DOMAIN g) => IsNodes(DOMAIN ExtendNodes(f, g))
         /\ \A ids : IsNodes(DOMAIN DropNodes(f, ids))
<1>1. DOMAIN ExtendNodes(f, g) = DOMAIN f \cup DOMAIN g
  BY DEF ExtendNodes
<1>2. ASSUME NEW ids PROVE IsNodes(DOMAIN DropNodes(f, ids))
  <2>1. DOMAIN DropNodes(f, ids) \in SUBSET (DOMAIN f)
    BY DEF DropNodes
  <2> QED BY <2>1, FS_Subset DEF IsNodes
<1> QED BY <1>1, <1>2, FS_Union DEF IsNodes

\* One change makes a membership of a membership.
LEMMA ApplyChangeType ==
  ASSUME NEW m, IsMembership(m), NEW change, IsChange(change)
  PROVE  IsMembership(ApplyChange(m, change))
<1> DEFINE a == change.arg
           l == LastConfig(m)
<1>1. l \in SUBSET Nat /\ IsFiniteSet(l) /\ IsNodes(DOMAIN m.nodes)
  BY LastIs DEF IsMembership, IsNodes
<1>2. CASE change.kind \in {"AddVoterIds", "RemoveVoters", "ReplaceAllVoters", "RemoveNodes"}
  <2>1. a \in SUBSET Nat /\ IsFiniteSet(a)
    BY <1>2 DEF IsChange
  <2>2. IsFiniteSet(l \cup a) /\ IsFiniteSet(l \ a)
    BY <1>1, <2>1, FS_Union, FS_Subset
  <2>3. IsNodes(DOMAIN DropNodes(m.nodes, a))
    BY <1>1, NodesFinite
  <2>4. CASE change.kind = "AddVoterIds"
    BY <1>1, <2>1, <2>2, <2>4, WithConfigs DEF ApplyChange
  <2>5. CASE change.kind = "RemoveVoters"
    BY <1>1, <2>1, <2>2, <2>5, WithConfigs DEF ApplyChange
  <2>6. CASE change.kind = "ReplaceAllVoters"
    BY <1>1, <2>1, <2>2, <2>6, WithConfigs DEF ApplyChange
  <2>7. CASE change.kind = "RemoveNodes"
    BY <2>3, <2>7, WithNodes DEF ApplyChange
  <2> QED BY <1>2, <2>4, <2>5, <2>6, <2>7
<1>3. CASE change.kind \in {"AddVoters", "AddNodes", "SetNodes", "ReplaceAllNodes"}
  <2>1. DOMAIN a \in SUBSET Nat /\ IsFiniteSet(DOMAIN a) /\ IsNodes(DOMAIN a)
    BY <1>3 DEF IsChange, IsNodes
  <2>2. IsNodes(DOMAIN ExtendNodes(m.nodes, a)) /\ IsNodes(DOMAIN ExtendNodes(a, m.nodes))
    BY <1>1, <2>1, NodesFinite
  <2>3. IsFiniteSet(l \cup DOMAIN a) /\ l \cup DOMAIN a \in SUBSET Nat
    BY <1>1, <2>1, FS_Union
  <2>4. CASE change.kind = "AddVoters"
    <3>1. ApplyChange(m, change) = [configs |-> <<l \cup DOMAIN a>>, nodes |-> ExtendNodes(m.nodes, a)]
      BY <2>4 DEF ApplyChange
    <3> HIDE DEF l, a
    <3> QED BY <2>2, <2>3, <3>1, UniformIs, Zenon
  <2>5. CASE change.kind = "AddNodes"
    BY <2>2, <2>5, WithNodes DEF ApplyChange
  <2>6. CASE change.kind = "SetNodes"
    BY <2>2, <2>6, WithNodes DEF ApplyChange
  <2>7. CASE change.kind = "ReplaceAllNodes"
    BY <2>1, <2>7, WithNodes DEF ApplyChange
  <2> QED BY <1>3, <2>4, <2>5, <2>6, <2>7
<1> QED BY <1>2, <1>3 DEF IsChange

\* What a batch has made of m after each of its changes.
Batched(f, m, changes, n) ==
  f = [i \in 0..n |-> IF i = 0 THEN m ELSE ApplyChange(f[i - 1], changes[i])]

\* The recursive function of ComputeTarget exists.
LEMMA BatchExists ==
  ASSUME NEW m, NEW changes, NEW n \in Nat
  PROVE  \E f : Batched(f, m, changes, n)
<1> DEFINE S == {k \in Nat : \E f : Batched(f, m, changes, k)}
<1>1. 0 \in S
  <2>1. [i \in 0..0 |-> m] = [i \in 0..0 |-> IF i = 0 THEN m
                              ELSE ApplyChange([j \in 0..0 |-> m][i - 1], changes[i])]
    OBVIOUS
  <2> QED BY <2>1 DEF Batched
<1>2. ASSUME NEW k \in Nat, k \in S PROVE k + 1 \in S
  <2>1. PICK f : Batched(f, m, changes, k)
    BY <1>2
  <2> DEFINE g == [i \in 0..(k + 1) |-> IF i <= k THEN f[i] ELSE ApplyChange(f[k], changes[k + 1])]
  <2>2. \A i \in 0..k : g[i] = f[i]
    OBVIOUS
  <2>3. ASSUME NEW i \in 0..(k + 1)
        PROVE  g[i] = IF i = 0 THEN m ELSE ApplyChange(g[i - 1], changes[i])
    <3>1. CASE i = 0
      BY <2>1, <2>2, <3>1 DEF Batched
    <3>2. CASE i \in 1..k
      <4>1. g[i - 1] = f[i - 1] /\ g[i] = f[i]
        BY <2>2, <3>2
      <4>2. f[i] = ApplyChange(f[i - 1], changes[i])
        BY <2>1, <3>2 DEF Batched
      <4> QED BY <3>2, <4>1, <4>2
    <3>3. CASE i = k + 1
      <4>1. g[i - 1] = f[k] /\ g[i] = ApplyChange(f[k], changes[k + 1])
        BY <2>2, <3>3
      <4> QED BY <3>3, <4>1
    <3> QED BY <3>1, <3>2, <3>3
  <2>4. g = [i \in 0..(k + 1) |-> IF i = 0 THEN m ELSE ApplyChange(g[i - 1], changes[i])]
    <3>1. g = [i \in 0..(k + 1) |-> g[i]]
      OBVIOUS
    <3> HIDE DEF g
    <3> QED BY <2>3, <3>1, Zenon
  <2>5. Batched(g, m, changes, k + 1)
    BY <2>4, Zenon DEF Batched
  <2> QED BY <2>5
<1>3. n \in S
  <2> HIDE DEF S
  <2> QED BY <1>1, <1>2, Induct
<1> QED BY <1>3

\* A request makes a membership of a membership.
LEMMA ComputeTargetType ==
  ASSUME NEW m, IsMembership(m), NEW change, IsRequest(change)
  PROVE  IsMembership(ComputeTarget(m, change))
<1>1. CASE change.kind = "Batch"
  <2> DEFINE n == Len(change.arg)
             after == CHOOSE f : Batched(f, m, change.arg, Len(change.arg))
  <2>1. n \in Nat /\ \A i \in 1..n : IsChange(change.arg[i])
    BY <1>1 DEF IsRequest
  <2>2. Batched(after, m, change.arg, n)
    <3>1. \E f : Batched(f, m, change.arg, Len(change.arg))
      BY <2>1, BatchExists
    <3> QED BY <3>1, Zenon
  <2>3. ComputeTarget(m, change) = after[n]
    BY <1>1, Zenon DEF ComputeTarget, Batched
  <2> HIDE DEF after, n
  <2> DEFINE S == {k \in 0..n : IsMembership(after[k])}
  <2>4. 0 \in S
    BY <2>1, <2>2 DEF Batched
  <2>5. ASSUME NEW k \in 0..n, k \in S, k < n PROVE k + 1 \in S
    <3>1. after[k + 1] = ApplyChange(after[k], change.arg[k + 1])
      BY <2>1, <2>2, <2>5 DEF Batched
    <3>2. IsMembership(after[k]) /\ IsChange(change.arg[k + 1])
      BY <2>1, <2>5
    <3> QED BY <2>1, <2>5, <3>1, <3>2, ApplyChangeType
  <2>6. n \in S
    <3> HIDE DEF S
    <3> QED BY <2>1, <2>4, <2>5, Induct
  <2> QED BY <2>3, <2>6
<1>2. CASE change.kind # "Batch"
  BY <1>2, ApplyChangeType DEF ComputeTarget, IsRequest
<1> QED BY <1>1, <1>2

\* A membership of two voter sets.
LEMMA JointIs ==
  ASSUME NEW r \in SUBSET Nat, NEW s \in SUBSET Nat, IsFiniteSet(r), IsFiniteSet(s),
         NEW f, IsNodes(DOMAIN f)
  PROVE  IsMembership([configs |-> <<r, s>>, nodes |-> f])
<1>1. <<r, s>> \in Seq(SUBSET Nat) /\ Len(<<r, s>>) = 2 /\ DOMAIN <<r, s>> = 1..2
      /\ <<r, s>>[1] = r /\ <<r, s>>[2] = s
  OBVIOUS
<1>2. \A i \in DOMAIN <<r, s>> : IsFiniteSet(<<r, s>>[i])
  <2>1. SUFFICES ASSUME NEW i \in 1..2 PROVE IsFiniteSet(<<r, s>>[i])
    BY <1>1, Zenon
  <2>2. i = 1 \/ i = 2
    BY <2>1
  <2> QED BY <1>1, <2>2, Zenon
<1> DEFINE x == [configs |-> <<r, s>>, nodes |-> f]
<1>3. x.configs = <<r, s>> /\ x.nodes = f
  OBVIOUS
<1>4. x = [configs |-> x.configs, nodes |-> x.nodes]
  BY <1>3
<1>5. x.configs \in Seq(SUBSET Nat) /\ Len(x.configs) \in 1..2
  BY <1>1, <1>3
<1>6. \A i \in DOMAIN x.configs : IsFiniteSet(x.configs[i])
  BY <1>2, <1>3, Zenon
<1>7. DOMAIN x.nodes \in SUBSET Nat /\ IsFiniteSet(DOMAIN x.nodes)
  BY <1>3, Zenon DEF IsNodes
<1> HIDE DEF x
<1> QED BY <1>4, <1>5, <1>6, <1>7, Zenon DEF IsMembership, x

\* Membership::change takes a membership to one, and any two quorums of the two
\* meet: they have a voter set in common.
LEMMA ChangeIs ==
  ASSUME NEW m, IsMembership(m), NEW change, IsRequest(change), NEW retain
  PROVE  /\ IsMembership(Change(m, change, retain))
         /\ \A Q, R : (Q \cap R = {} /\ IsQuorum(m.configs, Q))
                         => ~ IsQuorum(Change(m, change, retain).configs, R)
<1> DEFINE t == ComputeTarget(m, change)
           goal == Last(t.configs)
           cs == FindCoherent(m.configs, goal)
           gone == VoterIds(m.configs) \ VoterIds(cs)
           nodes == IF retain THEN t.nodes ELSE DropNodes(t.nodes, gone)
           new == [configs |-> cs, nodes |-> nodes]
<1>1. IsMembership(t)
  BY ComputeTargetType
<1>2. goal \in SUBSET Nat /\ IsFiniteSet(goal)
  BY <1>1, LastIs, Zenon
<1>3. Last(m.configs) \in SUBSET Nat /\ IsFiniteSet(Last(m.configs)) /\ Last(m.configs) \in ToSet(m.configs)
  BY LastIs, Zenon
<1>4. [m EXCEPT !.nodes = t.nodes] = [configs |-> m.configs, nodes |-> t.nodes]
  BY DEF IsMembership
<1>5. Change(m, change, retain) = new
  <2>1. Change(m, change, retain) = NextCoherent([configs |-> m.configs, nodes |-> t.nodes], goal, retain)
    BY <1>4, Zenon DEF Change
  <2>2. [configs |-> m.configs, nodes |-> t.nodes].configs = m.configs
        /\ [configs |-> m.configs, nodes |-> t.nodes].nodes = t.nodes
    OBVIOUS
  <2> QED BY <2>1, <2>2, Zenon DEF NextCoherent
<1>6. IsNodes(DOMAIN nodes)
  <2>1. IsNodes(DOMAIN t.nodes)
    BY <1>1 DEF IsMembership, IsNodes
  <2> HIDE DEF t, gone
  <2> QED BY <2>1, NodesFinite
<1>7. \A i \in DOMAIN m.configs : IsFiniteSet(m.configs[i])
  BY DEF IsMembership
<1>8. new.configs = cs
  OBVIOUS
<1>9. m.configs # <<>>
  <2>1. Len(m.configs) \in 1..2
    BY DEF IsMembership
  <2> QED BY <2>1
<1>10. CASE goal \in ToSet(m.configs)
  <2>1. cs = <<goal>>
    BY <1>10, Zenon DEF FindCoherent, IsCoherentWith
  <2>2. IsMembership(new)
    <3> HIDE DEF goal, nodes, cs
    <3> QED BY <1>2, <1>6, <2>1, UniformIs, Zenon
  <2>3. PICK i \in DOMAIN m.configs : m.configs[i] = goal
    BY <1>10, Zenon DEF ToSet
  <2>4. 1 \in DOMAIN <<goal>> /\ <<goal>>[1] = goal
    OBVIOUS
  <2>5. ASSUME NEW Q, NEW R, Q \cap R = {}, IsQuorum(m.configs, Q), IsQuorum(new.configs, R)
        PROVE  FALSE
    <3>1. IsMajority(goal, Q) /\ IsMajority(goal, R)
      BY <1>8, <2>1, <2>3, <2>4, <2>5, Zenon DEF IsQuorum
    <3> QED BY <1>2, <2>5, <3>1, MajoritiesMeet, Zenon
  <2> QED BY <1>5, <2>2, <2>5, Zenon
<1>11. CASE goal \notin ToSet(m.configs)
  <2> DEFINE l == Last(m.configs)
  <2>1. cs = <<l, goal>>
    BY <1>9, <1>11, Zenon DEF FindCoherent, IsCoherentWith
  <2>2. IsMembership(new)
    <3> HIDE DEF goal, nodes, cs, l
    <3> QED BY <1>2, <1>3, <1>6, <2>1, JointIs, Zenon DEF l
  <2>3. PICK i \in DOMAIN m.configs : m.configs[i] = l
    BY <1>3, Zenon DEF ToSet
  <2>4. 1 \in DOMAIN <<l, goal>> /\ <<l, goal>>[1] = l
    OBVIOUS
  <2>5. ASSUME NEW Q, NEW R, Q \cap R = {}, IsQuorum(m.configs, Q), IsQuorum(new.configs, R)
        PROVE  FALSE
    <3>1. IsMajority(l, Q) /\ IsMajority(l, R)
      BY <1>8, <2>1, <2>3, <2>4, <2>5, Zenon DEF IsQuorum
    <3> QED BY <1>3, <2>5, <3>1, MajoritiesMeet, Zenon
  <2> QED BY <1>5, <2>2, <2>5, Zenon
<1> QED BY <1>10, <1>11

\* The second step of a change leads to a uniform membership.
LEMMA FlattenIs ==
  ASSUME NEW m, IsMembership(m), NEW req
  PROVE  /\ IsRequest(Flatten(req).change)
         /\ Len(Change(m, Flatten(req).change, Flatten(req).retain).configs) = 1
<1> DEFINE change == [kind |-> "AddVoterIds", arg |-> {}]
           l == LastConfig(m)
<1>1. Flatten(req).change = change /\ Flatten(req).retain = req.retain
  BY DEF Flatten
<1>2. IsRequest(change)
  BY FS_EmptySet DEF IsRequest, IsChange
<1>3. ComputeTarget(m, change) = [m EXCEPT !.configs = <<l>>]
  <2>1. l \cup {} = l
    OBVIOUS
  <2> QED BY <2>1 DEF ComputeTarget, ApplyChange
<1>4. [m EXCEPT !.configs = <<l>>] = [configs |-> <<l>>, nodes |-> m.nodes]
  BY DEF IsMembership
<1>5. Last(ComputeTarget(m, change).configs) = l
  BY <1>3, <1>4 DEF Last
<1>6. [m EXCEPT !.nodes = ComputeTarget(m, change).nodes].configs = m.configs
  BY DEF IsMembership
<1>7. FindCoherent(m.configs, l) = <<l>>
  BY LastIs, Zenon DEF FindCoherent, IsCoherentWith
<1>8. Change(m, change, req.retain).configs = <<l>>
  BY <1>5, <1>6, <1>7 DEF Change, NextCoherent
<1> QED BY <1>1, <1>2, <1>8
----------------------------------------------------------------------------
(* Progresses.                                                             *)

\* InOrder is a sequence of as many ids as there are.
LEMMA InOrderIs ==
  ASSUME NEW S, IsFiniteSet(S)
  PROVE  \E U : InOrder(S) \in Seq(U) /\ Len(InOrder(S)) = Cardinality(S)
<1>1. Cardinality(S) \in Nat
  BY FS_CardinalityType
<1> DEFINE n == Cardinality(S)
           f(i) == CHOOSE x \in S : Cardinality({y \in S : y < x}) = i - 1
<1> DEFINE U == {f(i) : i \in 1..n}
<1>2. InOrder(S) = [i \in 1..n |-> f(i)]
  BY DEF InOrder
<1> HIDE DEF f, n
<1>3. n \in Nat
  BY <1>1 DEF n
<1>4. [i \in 1..n |-> f(i)] \in [1..n -> U]
  OBVIOUS
<1>5. InOrder(S) \in Seq(U) /\ Len(InOrder(S)) = n
  <2>1. InOrder(S) \in [1..n -> U]
    BY <1>2, <1>4
  <2> HIDE DEF U
  <2> QED BY <1>3, <2>1, FunIsSeq
<1> QED BY <1>5 DEF n

\* The progress of a new leader.
LEMMA NewProgressType ==
  ASSUME NEW m, IsMembership(m)
  PROVE  IsProgress(NewProgress(m))
<1> DEFINE V == VoterIds(m.configs)
           L == LearnerIds(m)
           ids == InOrder(V) \o InOrder(L)
<1>1. IsFiniteSet(V)
  <2>1. m.configs \in Seq(SUBSET Nat) /\ Len(m.configs) \in 1..2
        /\ \A i \in DOMAIN m.configs : IsFiniteSet(m.configs[i])
    BY DEF IsMembership
  <2> DEFINE c == m.configs
  <2>2. DOMAIN c = 1..Len(c) /\ 1 \in DOMAIN c
    BY <2>1
  <2>3. CASE Len(c) = 1
    <3>1. V = c[1]
      BY <2>2, <2>3 DEF VoterIds, ToSet
    <3> QED BY <2>1, <2>2, <3>1
  <2>4. CASE Len(c) = 2
    <3>1. V = c[1] \cup c[2]
      BY <2>2, <2>4 DEF VoterIds, ToSet
    <3>2. IsFiniteSet(c[1]) /\ IsFiniteSet(c[2])
      BY <2>1, <2>2, <2>4
    <3> QED BY <3>1, <3>2, FS_Union
  <2> QED BY <2>1, <2>3, <2>4
<1>2. IsFiniteSet(L)
  <2>1. IsFiniteSet(DOMAIN m.nodes) /\ L \in SUBSET (DOMAIN m.nodes)
    BY DEF IsMembership, LearnerIds
  <2> QED BY <2>1, FS_Subset
<1>3. PICK U : InOrder(V) \in Seq(U) /\ Len(InOrder(V)) = Cardinality(V)
  BY <1>1, InOrderIs
<1>4. PICK W : InOrder(L) \in Seq(W) /\ Len(InOrder(L)) = Cardinality(L)
  BY <1>2, InOrderIs
<1>5. Cardinality(V) \in Nat /\ Cardinality(L) \in Nat
  BY <1>1, <1>2, FS_CardinalityType
<1> DEFINE X == U \cup W
           es == [i \in DOMAIN ids |-> [id |-> ids[i], val |-> 0]]
<1>6. ids \in Seq(X) /\ Len(ids) = Cardinality(V) + Cardinality(L)
  <2> HIDE DEF V, L
  <2>1. InOrder(V) \in Seq(X) /\ InOrder(L) \in Seq(X)
    BY <1>3, <1>4
  <2> HIDE DEF X
  <2> QED BY <1>3, <1>4, <2>1
<1>7. es \in Seq([id : X, val : Nat]) /\ Len(es) = Len(ids)
  <2> HIDE DEF ids, X
  <2>1. DOMAIN ids = 1..Len(ids) /\ Len(ids) \in Nat /\ \A i \in 1..Len(ids) : ids[i] \in X
    BY <1>6
  <2>2. es \in [1..Len(ids) -> [id : X, val : Nat]]
    BY <2>1
  <2> HIDE DEF es
  <2> QED BY <2>1, <2>2, FunIsSeq, Zenon
<1> DEFINE p == [configs |-> m.configs, accepted |-> 0, voters |-> Cardinality(V), entries |-> es]
<1>8. NewProgress(m) = p
  BY Zenon DEF NewProgress
<1>9. p.configs = m.configs /\ p.accepted = 0 /\ p.voters = Cardinality(V) /\ p.entries = es
  OBVIOUS
<1>10. p = [configs |-> p.configs, accepted |-> p.accepted, voters |-> p.voters, entries |-> p.entries]
  BY <1>9
<1>11. p.voters \in 0..Len(p.entries)
  <2> HIDE DEF V, L, es, ids, p
  <2> QED BY <1>5, <1>6, <1>7, <1>9
<1>12. p.entries \in Seq([id : X, val : Nat])
  BY <1>7, <1>9, Zenon
<1>13. p.accepted \in Nat
  BY <1>9
<1> HIDE DEF p, X
<1> QED BY <1>8, <1>10, <1>11, <1>12, <1>13, Zenon DEF IsProgress

\* A progress, by its parts.
LEMMA ProgressIs ==
  ASSUME NEW p, NEW U, NEW a \in Nat, NEW es \in Seq([id : U, val : Nat]), IsProgress(p),
         Len(es) = Len(p.entries)
  PROVE  /\ IsProgress([p EXCEPT !.entries = es])
         /\ IsProgress([p EXCEPT !.entries = es, !.accepted = a])
<1>1. p = [configs |-> p.configs, accepted |-> p.accepted, voters |-> p.voters,
           entries |-> p.entries]
      /\ p.accepted \in Nat /\ p.voters \in 0..Len(p.entries)
  BY DEF IsProgress
<1> DEFINE x(b) == [configs |-> p.configs, accepted |-> b, voters |-> p.voters, entries |-> es]
<1>2. [p EXCEPT !.entries = es] = x(p.accepted) /\ [p EXCEPT !.entries = es, !.accepted = a] = x(a)
  <2> DEFINE q == [configs |-> p.configs, accepted |-> p.accepted, voters |-> p.voters,
                   entries |-> p.entries]
  <2>1. [q EXCEPT !.entries = es] = x(p.accepted)
    OBVIOUS
  <2>2. [q EXCEPT !.entries = es, !.accepted = a] = x(a)
    <3>1. [q EXCEPT !.entries = es, !.accepted = a] = [[q EXCEPT !.entries = es] EXCEPT !.accepted = a]
      OBVIOUS
    <3>2. [x(p.accepted) EXCEPT !.accepted = a] = x(a)
      OBVIOUS
    <3> HIDE DEF q, x
    <3> QED BY <2>1, <3>1, <3>2, Zenon
  <2>3. p = q
    BY <1>1
  <2> HIDE DEF q, x
  <2> QED BY <2>1, <2>2, <2>3, Zenon
<1>3. ASSUME NEW b \in Nat PROVE IsProgress(x(b))
  <2>1. x(b).configs = p.configs /\ x(b).accepted = b /\ x(b).voters = p.voters /\ x(b).entries = es
    OBVIOUS
  <2>2. x(b) = [configs |-> x(b).configs, accepted |-> x(b).accepted, voters |-> x(b).voters,
                entries |-> x(b).entries]
    BY <2>1
  <2>3. x(b).entries \in Seq([id : U, val : Nat])
    BY <2>1, Zenon
  <2>4. x(b).accepted \in Nat /\ x(b).voters \in 0..Len(x(b).entries)
    BY <1>1, <1>3, <2>1
  <2> HIDE DEF x
  <2> QED BY <2>2, <2>3, <2>4, Zenon DEF IsProgress
<1> HIDE DEF x
<1> QED BY <1>1, <1>2, <1>3

\* An update keeps a progress one, and what it accepts is a value.
LEMMA UpdateWithType ==
  ASSUME NEW p, IsProgress(p), NEW id, NEW v \in Nat
  PROVE  IsProgress(UpdateWith(p, id, v))
<1>1. PICK U : p.entries \in Seq([id : U, val : Nat])
  BY DEF IsProgress
<1> DEFINE R == [id : U, val : Nat]
           s == p.entries
           i == IndexOf(p, id)
           set == [s EXCEPT ![i].val = v]
           to == MoveUpTo(set, i)
           moved == MoveUp(set, i)
           found == FindAccepted(p, moved, to)
<1>2. CASE id \notin Tracked(p)
  BY <1>2 DEF UpdateWith
<1>3. CASE id \in Tracked(p)
  <2>1. i \in DOMAIN s
    <3>1. \E j \in DOMAIN p.entries : p.entries[j].id = id
      BY <1>3 DEF Tracked
    <3> QED BY <3>1, Zenon DEF IndexOf
  <2>2. s \in Seq(R) /\ DOMAIN s = 1..Len(s) /\ Len(s) \in Nat
    BY <1>1
  <2> HIDE DEF i, s
  <2>3. set \in Seq(R) /\ Len(set) = Len(s)
    <3> DEFINE e == [s[i] EXCEPT !.val = v]
    <3>1. set = [s EXCEPT ![i] = e]
      OBVIOUS
    <3>2. s[i] \in R /\ i \in 1..Len(s)
      BY <2>1, <2>2, ElementOfSeq, Zenon
    <3>3. e \in R
      BY <3>2
    <3> HIDE DEF e, R
    <3> QED BY <2>2, <3>1, <3>2, <3>3, ExceptSeq
  <2> HIDE DEF set
  <2>4. to \in 1..i
    <3> DEFINE S == {0} \cup {j \in 1..i - 1 : set[j].val >= set[i].val}
    <3>1. i \in Nat /\ i >= 1
      BY <2>1, <2>2
    <3>2. S \in SUBSET (0..(i - 1)) /\ 0 \in S /\ i - 1 \in Nat
      BY <3>1
    <3>3. Max(S) \in S
      <4> HIDE DEF S
      <4> QED BY <3>2, MaxIsTop
    <3>4. Max(S) \in 0..(i - 1)
      BY <3>2, <3>3
    <3>5. to = 1 + Max(S)
      BY Zenon DEF MoveUpTo
    <3> HIDE DEF S, to
    <3> QED BY <3>1, <3>4, <3>5
  <2>5. moved \in Seq(R) /\ Len(moved) = Len(s)
    <3>1. i \in 1..Len(set) /\ to \in 1..Len(set)
      BY <2>1, <2>2, <2>3, <2>4
    <3>2. set[i] \in R
      BY <2>3, <3>1, ElementOfSeq, Zenon
    <3> HIDE DEF R
    <3>3. moved = InsertAt(RemoveAt(set, i), to, set[i])
      BY Zenon DEF MoveUp
    <3> HIDE DEF to, moved
    <3> DEFINE y == set[i]
    <3>4. y \in R
      BY <3>2
    <3> HIDE DEF y
    <3>5. /\ InsertAt(RemoveAt(set, i), to, y) \in Seq(R)
          /\ Len(InsertAt(RemoveAt(set, i), to, y)) = Len(set)
      BY <2>3, <3>1, <3>4, Moved
    <3> QED BY <2>3, <3>3, <3>5, Zenon DEF y
  <2> HIDE DEF to, moved
  <2>6. found \in Nat
    <3> DEFINE F == {k \in to .. p.voters :
                       /\ \A j \in to .. k : moved[j].val > p.accepted
                       /\ IsQuorum(p.configs, {moved[j].id : j \in 1 .. k})}
    <3>1. found = IF F = {} THEN p.accepted ELSE moved[Min(F)].val
      BY Zenon DEF FindAccepted
    <3>2. CASE F = {}
      BY <3>1, <3>2 DEF IsProgress
    <3>3. CASE F # {}
      <4>1. p.voters \in 0..Len(s) /\ to >= 1 /\ to \in Nat
        BY <2>1, <2>2, <2>4 DEF IsProgress, s
      <4>2. F \in SUBSET Nat /\ F \subseteq 1..Len(s)
        BY <2>2, <4>1
      <4>3. Min(F) \in F
        <5> HIDE DEF F
        <5> QED BY <3>3, <4>2, MinIsBottom
      <4>4. Min(F) \in 1..Len(moved)
        <5> HIDE DEF F
        <5> QED BY <2>5, <4>2, <4>3
      <4>5. moved[Min(F)] \in R
        <5> HIDE DEF F, R
        <5> QED BY <2>5, <4>4, ElementOfSeq
      <4> HIDE DEF F
      <4> QED BY <3>1, <3>3, <4>5
    <3> QED BY <3>2, <3>3
  <2> HIDE DEF found
  <2>7. IsProgress([p EXCEPT !.entries = set])
    BY <2>3, <2>6, ProgressIs DEF R, s
  <2>8. IsProgress([p EXCEPT !.entries = moved, !.accepted = found])
    BY <2>5, <2>6, ProgressIs DEF R, s
  <2>9. UpdateWith(p, id, v) \in {[p EXCEPT !.entries = set], [p EXCEPT !.entries = moved, !.accepted = found]}
    <3> DEFINE crosses == /\ i <= p.voters
                          /\ p.entries[i].val <= p.accepted
                          /\ v > p.accepted
    <3>1. UpdateWith(p, id, v) = IF ~crosses THEN [p EXCEPT !.entries = set]
                                ELSE [p EXCEPT !.entries = moved, !.accepted = found]
      BY <1>3, Zenon DEF UpdateWith, i, s, set, to, moved, found
    <3> HIDE DEF crosses
    <3> QED BY <3>1
  <2> QED BY <2>7, <2>8, <2>9
<1> QED BY <1>2, <1>3

\* What the values of p, put one by one in a new progress, have made of it.
Put(f, p, m, n) ==
  f = [i \in 0..n |-> IF i = 0 THEN NewProgress(m)
                      ELSE UpdateWith(f[i - 1], p.entries[i].id, p.entries[i].val)]

\* The recursive function of UpgradeQuorumSet exists.
LEMMA PutExists ==
  ASSUME NEW p, NEW m, NEW n \in Nat
  PROVE  \E f : Put(f, p, m, n)
<1> DEFINE step(x, i) == UpdateWith(x, p.entries[i].id, p.entries[i].val)
           S == {k \in Nat : \E f : Put(f, p, m, k)}
<1>1. 0 \in S
  <2>1. [i \in 0..0 |-> NewProgress(m)]
          = [i \in 0..0 |-> IF i = 0 THEN NewProgress(m)
                            ELSE step([j \in 0..0 |-> NewProgress(m)][i - 1], i)]
    OBVIOUS
  <2> QED BY <2>1 DEF Put
<1>2. ASSUME NEW k \in Nat, k \in S PROVE k + 1 \in S
  <2>1. PICK f : Put(f, p, m, k)
    BY <1>2
  <2> DEFINE g == [i \in 0..(k + 1) |-> IF i <= k THEN f[i] ELSE step(f[k], k + 1)]
  <2>2. \A i \in 0..k : g[i] = f[i]
    OBVIOUS
  <2>3. ASSUME NEW i \in 0..(k + 1)
        PROVE  g[i] = IF i = 0 THEN NewProgress(m) ELSE step(g[i - 1], i)
    <3>1. CASE i = 0
      BY <2>1, <2>2, <3>1 DEF Put
    <3>2. CASE i \in 1..k
      <4>1. g[i - 1] = f[i - 1] /\ g[i] = f[i]
        BY <2>2, <3>2
      <4>2. f[i] = step(f[i - 1], i)
        BY <2>1, <3>2 DEF Put
      <4> QED BY <3>2, <4>1, <4>2
    <3>3. CASE i = k + 1
      <4>1. g[i - 1] = f[k] /\ g[i] = step(f[k], k + 1)
        BY <2>2, <3>3
      <4> QED BY <3>3, <4>1
    <3> QED BY <3>1, <3>2, <3>3
  <2>4. g = [i \in 0..(k + 1) |-> IF i = 0 THEN NewProgress(m) ELSE step(g[i - 1], i)]
    <3>1. g = [i \in 0..(k + 1) |-> g[i]]
      OBVIOUS
    <3> HIDE DEF g, step
    <3> QED BY <2>3, <3>1, Zenon
  <2>5. Put(g, p, m, k + 1)
    BY <2>4, Zenon DEF Put
  <2> QED BY <2>5
<1>3. n \in S
  <2> HIDE DEF S
  <2> QED BY <1>1, <1>2, Induct
<1> QED BY <1>3

\* A change of the quorum set keeps a progress one.
LEMMA UpgradeType ==
  ASSUME NEW p, IsProgress(p), NEW m, IsMembership(m)
  PROVE  IsProgress(UpgradeQuorumSet(p, m))
<1> DEFINE n == Len(p.entries)
           put == CHOOSE f : Put(f, p, m, Len(p.entries))
<1>1. PICK U : p.entries \in Seq([id : U, val : Nat])
  BY DEF IsProgress
<1>2. n \in Nat /\ \A i \in 1..n : p.entries[i].val \in Nat
  <2> DEFINE es == p.entries
  <2>1. es \in Seq([id : U, val : Nat])
    BY <1>1
  <2> HIDE DEF es
  <2>2. Len(es) \in Nat
    BY <2>1, LenProperties, Zenon
  <2>3. ASSUME NEW i \in 1..Len(es) PROVE es[i].val \in Nat
    <3>1. es[i] \in [id : U, val : Nat]
      BY <2>1, ElementOfSeq, Zenon
    <3> QED BY <3>1
  <2> QED BY <2>2, <2>3 DEF es
<1>3. Put(put, p, m, n)
  <2>1. \E f : Put(f, p, m, Len(p.entries))
    BY <1>2, PutExists
  <2> QED BY <2>1, Zenon
<1>4. UpgradeQuorumSet(p, m) = put[n]
  BY Zenon DEF UpgradeQuorumSet, Put
<1> HIDE DEF put, n
<1> DEFINE S == {k \in 0..n : IsProgress(put[k])}
<1>5. 0 \in S
  <2>1. put[0] = NewProgress(m)
    BY <1>2, <1>3 DEF Put
  <2> QED BY <1>2, <2>1, NewProgressType
<1>6. ASSUME NEW k \in 0..n, k \in S, k < n PROVE k + 1 \in S
  <2>1. put[k + 1] = UpdateWith(put[k], p.entries[k + 1].id, p.entries[k + 1].val)
    BY <1>2, <1>3, <1>6 DEF Put
  <2>2. k + 1 \in 1..n
    BY <1>2, <1>6
  <2>3. IsProgress(put[k]) /\ p.entries[k + 1].val \in Nat
    BY <1>2, <1>6, <2>2
  <2>4. IsProgress(put[k + 1])
    BY <2>1, <2>3, UpdateWithType
  <2> QED BY <2>2, <2>4
<1>7. n \in S
  <2> HIDE DEF S
  <2>1. n \in Nat
    BY <1>2
  <2>2. \A k \in 0..n : k \in S /\ k < n => k + 1 \in S
    BY <1>6
  <2>3. \A k \in 0..n : k \in S
    BY <1>5, <2>1, <2>2, Induct
  <2> QED BY <2>1, <2>3
<1> QED BY <1>4, <1>7

\* The value of a tracked node.
LEMMA ValueType ==
  ASSUME NEW p, IsProgress(p), NEW id \in Tracked(p)
  PROVE  ValueOf(p, id) \in Nat
<1>1. PICK U : p.entries \in Seq([id : U, val : Nat])
  BY DEF IsProgress
<1>2. IndexOf(p, id) \in DOMAIN p.entries
  <2>1. \E j \in DOMAIN p.entries : p.entries[j].id = id
    BY DEF Tracked
  <2> QED BY <2>1, Zenon DEF IndexOf
<1> DEFINE es == p.entries
           i == IndexOf(p, id)
<1>3. es \in Seq([id : U, val : Nat]) /\ i \in DOMAIN es
  BY <1>1, <1>2
<1> HIDE DEF es, i
<1>4. i \in 1..Len(es)
  BY <1>3, LenProperties, Zenon
<1>5. es[i] \in [id : U, val : Nat]
  BY <1>3, <1>4, ElementOfSeq, Zenon
<1> QED BY <1>5 DEF ValueOf, es, i
----------------------------------------------------------------------------
(* The invariant.                                                          *)

\* The log of a leader only grows, and its membership entries stay.
LEMMA Appended ==
  ASSUME LogInv, NEW e
  PROVE  /\ \E U : Append(log, e) \in Seq(U)
         /\ Len(log) \in Nat /\ Len(Append(log, e)) = Len(log) + 1
         /\ \A i \in 1..Len(log) : Append(log, e)[i] = log[i]
         /\ Append(log, e)[Len(log) + 1] = e
<1>1. PICK U : log \in Seq(U)
  BY DEF LogInv
<1> DEFINE W == U \cup {e}
<1>2. log \in Seq(W) /\ e \in W
  BY <1>1, SeqMonotonic
<1> HIDE DEF W
<1>3. Append(log, e) \in Seq(W) /\ Len(log) \in Nat /\ Len(Append(log, e)) = Len(log) + 1
  BY <1>2
<1>4. \A i \in 1..Len(log) : Append(log, e)[i] = log[i]
  BY <1>2
<1>5. Append(log, e)[Len(log) + 1] = e
  BY <1>2
<1> QED BY <1>3, <1>4, <1>5, Zenon

\* A new leader is not the author of any entry yet.
LEMMA Start ==
  ASSUME Init
  PROVE  LeaderInv
<1>1. PICK i \in InitMembers :
        /\ log = [k \in 1 .. Inherited |-> IF k = 1 THEN i.committed
                                           ELSE IF k = Inherited /\ i.effective # i.committed
                                           THEN i.effective ELSE Normal]
        /\ mem = [committed |-> [at |-> 1, m |-> i.committed],
                  effective |-> IF i.effective = i.committed THEN [at |-> 1, m |-> i.committed]
                                ELSE [at |-> Inherited, m |-> i.effective]]
        /\ progress = NewProgress(i.effective)
  BY DEF Init
<1>2. committed = 1 /\ client = [c \in Client |-> [pc |-> "idle", at |-> 0, req |-> NoRequest]]
  BY DEF Init
<1>3. /\ Inherited \in Nat /\ Inherited >= 1
      /\ IsMembership(i.committed) /\ IsMembership(i.effective)
      /\ i.effective # i.committed => Inherited > 1
  <2>1. Inherited \in Nat \ {0}
    BY LeaderAssumption, Zenon
  <2>2. /\ IsMembership(i.committed) /\ IsMembership(i.effective)
        /\ i.effective # i.committed => Inherited > 1
    BY LeaderAssumption, Zenon
  <2> QED BY <2>1, <2>2
<1> DEFINE U == {i.committed, i.effective, Normal}
<1>4. log \in [1..Inherited -> U]
  BY <1>1
<1>5. log \in Seq(U) /\ Len(log) = Inherited
  <2> HIDE DEF U
  <2> QED BY <1>3, <1>4, FunIsSeq
<1>6. IsProgress(progress)
  BY <1>1, <1>3, NewProgressType
<1>7. /\ mem.committed.at = 1
      /\ mem.effective.at = IF i.effective = i.committed THEN 1 ELSE Inherited
      /\ mem.effective.m = i.effective
      /\ mem = [committed |-> mem.committed, effective |-> mem.effective]
  BY <1>1
<1>8. MemInv
  BY <1>1, <1>3, <1>5, <1>7 DEF MemInv
<1>9. UncommittedInv
  BY <1>1, <1>2, <1>3, <1>5, <1>7 DEF UncommittedInv
<1>10. ClientInv
  BY <1>2 DEF ClientInv
<1> QED BY <1>2, <1>5, <1>6, <1>8, <1>9, <1>10 DEF LeaderInv, LogInv

\* A blank or client's entry.
LEMMA AppendKeeps ==
  ASSUME LeaderInv, log' = Append(log, Normal), IsProgress(progress'),
         UNCHANGED <<mem, committed, client>>
  PROVE  LeaderInv'
<1>1. /\ \E U : log' \in Seq(U)
      /\ Len(log) \in Nat /\ Len(log') = Len(log) + 1
      /\ \A i \in 1..Len(log) : log'[i] = log[i]
      /\ log'[Len(log) + 1] = Normal
  <2>1. LogInv
    BY DEF LeaderInv
  <2> QED BY <2>1, Appended, Zenon
<1>2. MemInv'
  <2>1. MemInv
    BY DEF LeaderInv
  <2> QED BY <1>1, <2>1 DEF MemInv
<1>3. UncommittedInv'
  <2>1. ASSUME NEW i \in 1..Len(log'), log'[i] # Normal, i > committed
        PROVE  i = mem.effective.at
    <3>1. i \in 1..Len(log) /\ log'[i] = log[i]
      BY <1>1, <2>1
    <3> QED BY <2>1, <3>1 DEF LeaderInv, UncommittedInv
  <2> QED BY <2>1 DEF LeaderInv, UncommittedInv
<1>4. ClientInv'
  BY <1>1 DEF LeaderInv, ClientInv
<1> QED BY <1>1, <1>2, <1>3, <1>4 DEF LeaderInv, LogInv

\* A membership is not an entry without one.
LEMMA NotNormal ==
  ASSUME NEW m, IsMembership(m)
  PROVE  m # Normal
<1>1. Len(m.configs) \in 1..2
  BY DEF IsMembership
<1>2. Normal.configs = <<>> /\ Len(<<>>) = 0
  BY DEF Normal
<1> QED BY <1>1, <1>2

\* A change of the membership, or its refusal.
LEMMA ChangeKeeps ==
  ASSUME LeaderInv, NEW c \in Client, NEW req, IsRequest(req.change), NEW to,
         to \in {"first", "second"},
         to = "second" => Len(Change(mem.effective.m, req.change, req.retain).configs) = 1,
         ChangeMembership(c, req, to)
  PROVE  /\ LeaderInv'
         /\ mem'.effective # mem.effective =>
              mem'.effective.m = Change(mem.effective.m, req.change, req.retain)
<1> DEFINE m == Change(mem.effective.m, req.change, req.retain)
<1>0. /\ LogInv /\ committed \in Nat /\ IsProgress(progress)
      /\ MemInv /\ UncommittedInv /\ ClientInv
  BY DEF LeaderInv
<1>1. IsMembership(m)
  BY <1>0, ChangeIs DEF MemInv
<1>2. committed' = committed
  BY DEF ChangeMembership
<1>3. CASE Accepts(req, m) /\ leading = "leader" /\ ~transfer
  <2>1. /\ LeaderAppend(m) /\ EnsureCommitted(mem)
        /\ client' = [client EXCEPT ![c] = [pc |-> to, at |-> LastIndex + 1, req |-> req]]
    BY <1>3 DEF ChangeMembership, Accepts
  <2> HIDE DEF m
  <2>2. /\ log' = Append(log, m) /\ progress' = UpgradeQuorumSet(progress, m)
        /\ mem' = [committed |-> mem.effective, effective |-> [at |-> Len(log) + 1, m |-> m]]
    BY <1>1, <2>1, NotNormal DEF LeaderAppend, LeaderAppendMembership, RebuildProgresses,
                                 AppendMembership, LastIndex
  <2>3. /\ \E U : log' \in Seq(U)
        /\ Len(log) \in Nat /\ Len(log') = Len(log) + 1
        /\ \A i \in 1..Len(log) : log'[i] = log[i]
        /\ log'[Len(log) + 1] = m
    BY <1>0, <2>2, Appended, Zenon
  <2>4. IsProgress(progress')
    BY <1>0, <1>1, <2>2, UpgradeType
  <2>5. /\ mem'.committed = mem.effective /\ mem'.effective.at = Len(log) + 1
        /\ mem'.effective.m = m
        /\ mem' = [committed |-> mem'.committed, effective |-> mem'.effective]
    BY <2>2
  <2>6. MemInv'
    BY <1>0, <1>1, <2>3, <2>5 DEF MemInv
  <2>7. mem.effective.at <= committed
    BY <1>0, <2>1 DEF EnsureCommitted, UncommittedInv
  <2>8. UncommittedInv'
    <3>1. ASSUME NEW i \in 1..Len(log'), log'[i] # Normal, i > committed
          PROVE  i = Len(log) + 1
      <4>1. SUFFICES ASSUME i # Len(log) + 1 PROVE FALSE
        OBVIOUS
      <4>2. i \in 1..Len(log) /\ log'[i] = log[i]
        BY <2>3, <4>1
      <4>3. i = mem.effective.at
        BY <1>0, <3>1, <4>2 DEF UncommittedInv
      <4> QED BY <1>0, <2>7, <3>1, <4>3
    <3> QED BY <1>2, <2>5, <2>7, <3>1 DEF UncommittedInv
  <2>9. ClientInv'
    <3>1. /\ client' = [d \in Client |-> client'[d]]
          /\ client'[c] = [pc |-> to, at |-> Len(log) + 1, req |-> req]
          /\ \A d \in Client \ {c} : client'[d] = client[d]
      BY <1>0, <2>1 DEF ClientInv, LastIndex
    <3>2. ASSUME NEW d \in Client
          PROVE  /\ client'[d] = [pc |-> client'[d].pc, at |-> client'[d].at, req |-> client'[d].req]
                 /\ client'[d].pc \in {"first", "second", "done"} => client'[d].at \in 1..Len(log')
                 /\ client'[d].pc \in {"second", "done"} => Len(log'[client'[d].at].configs) = 1
      <4>1. CASE d = c
        <5>1. client'[d].pc = to /\ client'[d].at = Len(log) + 1 /\ client'[d].req = req
          BY <3>1, <4>1
        <5>2. Len(log) + 1 \in 1..Len(log')
          BY <2>3
        <5>3. to \in {"second", "done"} => Len(m.configs) = 1
          BY DEF m
        <5> QED BY <2>3, <3>1, <4>1, <5>1, <5>2, <5>3
      <4>2. CASE d # c
        BY <1>0, <2>3, <3>1, <4>2 DEF ClientInv
      <4> QED BY <4>1, <4>2
    <3> QED BY <3>1, <3>2, Zenon DEF ClientInv
  <2> QED BY <1>0, <1>2, <2>3, <2>4, <2>5, <2>6, <2>8, <2>9 DEF LeaderInv, LogInv, m
<1>4. CASE ~ (Accepts(req, m) /\ leading = "leader" /\ ~transfer)
  <2>1. client' = [client EXCEPT ![c].pc = "failed"] /\ UNCHANGED <<log, mem, progress>>
    BY <1>4 DEF ChangeMembership
  <2>2. ClientInv'
    BY <1>0, <2>1 DEF ClientInv
  <2> QED BY <1>0, <1>2, <2>1, <2>2 DEF LeaderInv, LogInv, MemInv, UncommittedInv
<1> QED BY <1>3, <1>4

\* A change of one caller's state.
LEMMA ClientKeeps ==
  ASSUME LeaderInv, NEW c \in Client, NEW pc, client' = [client EXCEPT ![c].pc = pc],
         pc = "done" \/ pc = "joint" \/ pc = "failed",
         pc = "done" => client[c].at \in 1..Len(log) /\ Len(log[client[c].at].configs) = 1,
         UNCHANGED <<log, mem, progress, committed>>
  PROVE  LeaderInv'
<1>1. ClientInv'
  <2>1. /\ client' = [d \in Client |-> client'[d]]
        /\ client'[c] = [pc |-> pc, at |-> client[c].at, req |-> client[c].req]
        /\ \A d \in Client \ {c} : client'[d] = client[d]
    BY DEF LeaderInv, ClientInv
  <2>2. ASSUME NEW d \in Client
        PROVE  /\ client'[d] = [pc |-> client'[d].pc, at |-> client'[d].at, req |-> client'[d].req]
               /\ client'[d].pc \in {"first", "second", "done"} => client'[d].at \in 1..Len(log)
               /\ client'[d].pc \in {"second", "done"} => Len(log[client'[d].at].configs) = 1
    <3>1. CASE d = c
      <4>1. client'[d].pc = pc /\ client'[d].at = client[c].at /\ client'[d].req = client[c].req
        BY <2>1, <3>1
      <4> QED BY <2>1, <3>1, <4>1
    <3>2. CASE d # c
      BY <2>1, <3>2 DEF LeaderInv, ClientInv
    <3> QED BY <3>1, <3>2
  <2> QED BY <2>1, <2>2, Zenon DEF ClientInv
<1> QED BY <1>1 DEF LeaderInv, LogInv, MemInv, UncommittedInv

\* An acknowledgement, and what it commits.
LEMMA MatchingKeeps ==
  ASSUME LeaderInv, NEW n, NEW i \in Nat, UpdateMatching(n, i), UNCHANGED <<log, client>>
  PROVE  LeaderInv' /\ mem'.effective = mem.effective
<1> DEFINE p == UpdateWith(progress, n, i)
<1>0. /\ LogInv /\ committed \in Nat /\ IsProgress(progress)
      /\ MemInv /\ UncommittedInv /\ ClientInv
  BY DEF LeaderInv
<1>1. IsProgress(p)
  BY <1>0, UpdateWithType
<1>2. progress' = p /\ TryCommit(p.accepted, mem)
  BY DEF UpdateMatching
<1> HIDE DEF p
<1>3. p.accepted \in Nat
  BY <1>1 DEF IsProgress
<1>4. Len(log) \in Nat
  BY <1>0, LenProperties DEF LogInv
<1>5. committed' \in Nat /\ committed' >= committed
      /\ \/ mem' = mem
         \/ mem.effective.at <= committed' /\ mem' = [mem EXCEPT !.committed = mem.effective]
  BY <1>0, <1>2, <1>3, <1>4 DEF TryCommit, CommitMembership, MemInv
<1>6. [mem EXCEPT !.committed = mem.effective]
        = [committed |-> mem.effective, effective |-> mem.effective]
  BY <1>0 DEF MemInv
<1>7. /\ mem' = [committed |-> mem'.committed, effective |-> mem'.effective]
      /\ mem'.effective = mem.effective
      /\ \/ mem'.committed = mem.committed
         \/ mem.effective.at <= committed' /\ mem'.committed = mem.effective
  BY <1>0, <1>5, <1>6 DEF MemInv
<1>8. MemInv'
  BY <1>0, <1>7 DEF MemInv
<1>9. UncommittedInv'
  BY <1>0, <1>4, <1>5, <1>7 DEF UncommittedInv, MemInv
<1>10. LogInv' /\ ClientInv'
  BY <1>0 DEF LogInv, ClientInv
<1> QED BY <1>1, <1>2, <1>5, <1>7, <1>8, <1>9, <1>10 DEF LeaderInv

\* Whatever else happens to the leader.
LEMMA OtherKeeps ==
  ASSUME LeaderInv, UNCHANGED <<log, mem, progress, committed, client>>
  PROVE  LeaderInv'
BY DEF LeaderInv, LogInv, MemInv, UncommittedInv, ClientInv

\* What QuorumsOverlap says of a step.
Overlap ==
  mem'.effective # mem.effective =>
    \A q \in SUBSET Node :
      IsQuorum(mem.effective.m.configs, q) => ~ IsQuorum(mem'.effective.m.configs, Node \ q)

\* The invariant is inductive, and the quorums of the effective membership
\* overlap from one step to the next.
LEMMA Step ==
  ASSUME LeaderInv, [Next]_vars
  PROVE  /\ LeaderInv'
         /\ Overlap
<1>0. /\ LogInv /\ committed \in Nat /\ IsProgress(progress)
      /\ MemInv /\ UncommittedInv /\ ClientInv /\ IsMembership(mem.effective.m)
  BY DEF LeaderInv, MemInv
<1>1. ASSUME NEW c \in Client, NEW req, IsRequest(req.change), NEW to,
             to \in {"first", "second"},
             to = "second" => Len(Change(mem.effective.m, req.change, req.retain).configs) = 1,
             ChangeMembership(c, req, to)
      PROVE  /\ LeaderInv'
             /\ Overlap
  <2>1. LeaderInv' /\ (mem'.effective # mem.effective =>
          mem'.effective.m = Change(mem.effective.m, req.change, req.retain))
    BY <1>1, ChangeKeeps
  <2>2. \A Q, R : (Q \cap R = {} /\ IsQuorum(mem.effective.m.configs, Q))
          => ~ IsQuorum(Change(mem.effective.m, req.change, req.retain).configs, R)
    BY <1>0, <1>1, ChangeIs
  <2>3. \A q : q \cap (Node \ q) = {}
    OBVIOUS
  <2> QED BY <2>1, <2>2, <2>3, Zenon DEF Overlap
<1>2. CASE EstablishLeader
  <2>1. IsProgress(progress')
    BY <1>0, <1>2, NewProgressType DEF EstablishLeader, NewLeader
  <2> QED BY <1>2, <2>1, AppendKeeps DEF EstablishLeader, Overlap
<1>3. CASE ClientWrite
  BY <1>0, <1>3, AppendKeeps DEF ClientWrite, LeaderAppend, Overlap
<1>4. ASSUME NEW c \in Client, NEW r \in Requests, FirstStep(c, r)
      PROVE  LeaderInv' /\ Overlap
  <2>1. IsRequest(r.change)
    BY LeaderAssumption
  <2> QED BY <1>1, <1>4, <2>1 DEF FirstStep
<1>5. ASSUME NEW c \in Client, SecondStep(c)
      PROVE  LeaderInv' /\ Overlap
  <2> DEFINE r == Flatten(client[c].req)
  <2>1. ChangeMembership(c, r, "second")
    BY <1>5 DEF SecondStep
  <2>2. IsRequest(r.change) /\ Len(Change(mem.effective.m, r.change, r.retain).configs) = 1
    BY <1>0, FlattenIs
  <2> HIDE DEF r
  <2> QED BY <1>1, <2>1, <2>2
<1>6. ASSUME NEW c \in Client, FirstDone(c) PROVE LeaderInv' /\ Overlap
  <2>1. UNCHANGED <<log, mem, progress, committed>>
    BY <1>6 DEF FirstDone
  <2>2. client[c].pc = "first" /\ client[c].at \in 1..Len(log)
    BY <1>0, <1>6 DEF FirstDone, ClientInv
  <2>3. CASE Len(log[client[c].at].configs) = 1
    <3>1. client' = [client EXCEPT ![c].pc = "done"]
      BY <1>6, <2>3 DEF FirstDone
    <3> QED BY <2>1, <2>2, <2>3, <3>1, ClientKeeps DEF Overlap
  <2>4. CASE Len(log[client[c].at].configs) # 1
    <3>1. client' = [client EXCEPT ![c].pc = "joint"]
      BY <1>6, <2>4 DEF FirstDone
    <3>2. LeaderInv'
      BY <2>1, <3>1, ClientKeeps
    <3> QED BY <2>1, <3>2 DEF Overlap
  <2> QED BY <2>3, <2>4
<1>7. ASSUME NEW c \in Client, SecondDone(c) PROVE LeaderInv' /\ Overlap
  <2>1. client[c].at \in 1..Len(log) /\ Len(log[client[c].at].configs) = 1
    BY <1>0, <1>7 DEF SecondDone, ClientInv
  <2>2. client' = [client EXCEPT ![c].pc = "done"] /\ UNCHANGED <<log, mem, progress, committed>>
    BY <1>7 DEF SecondDone
  <2> QED BY <2>1, <2>2, ClientKeeps DEF Overlap
<1>8. ASSUME NEW c \in Client, CallFails(c) PROVE LeaderInv' /\ Overlap
  <2>1. client' = [client EXCEPT ![c].pc = "failed"] /\ UNCHANGED <<log, mem, progress, committed>>
    BY <1>8 DEF CallFails
  <2>2. LeaderInv'
    BY <2>1, ClientKeeps
  <2> QED BY <2>1, <2>2 DEF Overlap
<1>9. Len(log) \in Nat
  BY <1>0, LenProperties DEF LogInv
<1>10. ASSUME NEW n \in Node, ReplicationProgress(n) PROVE LeaderInv' /\ Overlap
  <2>1. PICK i \in ValueOf(progress, n) + 1 .. LastIndex : UpdateMatching(n, i)
    BY <1>10 DEF ReplicationProgress
  <2>2. ValueOf(progress, n) \in Nat
    BY <1>0, <1>10, ValueType DEF ReplicationProgress
  <2>3. i \in Nat
    BY <1>9, <2>2 DEF LastIndex
  <2>4. UNCHANGED <<log, client>>
    BY <1>10 DEF ReplicationProgress
  <2> QED BY <2>1, <2>3, <2>4, MatchingKeeps DEF Overlap
<1>11. CASE LocalIO
  <2>1. PICK i \in 1 .. LastIndex : UpdateMatching(Self, i)
    BY <1>11 DEF LocalIO
  <2>2. i \in Nat /\ UNCHANGED <<log, client>>
    BY <1>9, <1>11 DEF LastIndex, LocalIO
  <2> QED BY <2>1, <2>2, MatchingKeeps DEF Overlap
<1>12. CASE \/ \E n \in Node : HeartbeatProgress(n)
            \/ LastQuorumAckedTime \/ PassTime \/ Apply \/ StepDown \/ Deposed \/ TransferLeader
            \/ UNCHANGED vars
  <2>1. UNCHANGED <<log, mem, progress, committed, client>>
    BY <1>12 DEF HeartbeatProgress, LastQuorumAckedTime, PassTime, Apply, StepDown, Deposed,
                 TransferLeader, vars
  <2> QED BY <2>1, OtherKeeps DEF Overlap
<1> QED BY <1>2, <1>3, <1>4, <1>5, <1>6, <1>7, <1>8, <1>10, <1>11, <1>12 DEF Next
----------------------------------------------------------------------------
\* A leader's log, memberships, progress and callers are always what the
\* invariant says, whatever batches of changes its clients ask for.
THEOREM LeaderInvariant == Spec => []LeaderInv
<1>1. Init => LeaderInv
  BY Start
<1>2. LeaderInv /\ [Next]_vars => LeaderInv'
  BY Step
<1> QED BY <1>1, <1>2, PTL DEF Spec

\* At most one membership of the log is not committed (ensure_committed,
\* membership_state.rs), so that two are enough to remember.
THEOREM OneUncommitted == Spec => []OneUncommittedMembership
<1>1. ASSUME LeaderInv PROVE OneUncommittedMembership
  <2> DEFINE S == {i \in 1 .. LastIndex : log[i] # Normal /\ i > committed}
             e == mem.effective.at
  <2>1. S \subseteq {e} /\ mem.committed.at <= committed
    BY <1>1 DEF LeaderInv, UncommittedInv, LastIndex
  <2> HIDE DEF S, e
  <2>2. S = {} \/ S = {e}
    BY <2>1
  <2>3. Cardinality({}) = 0 /\ Cardinality({e}) = 1
    BY FS_EmptySet, FS_Singleton
  <2>4. Cardinality(S) <= 1
    BY <2>2, <2>3
  <2> QED BY <2>1, <2>4 DEF S, OneUncommittedMembership
<1> QED BY <1>1, LeaderInvariant, PTL

\* The two steps of change_membership leave no joint config behind a call that
\* succeeded (raft/api/management.rs).
THEOREM ChangeEndsUniform == Spec => []NotLeftJoint
<1>1. ASSUME LeaderInv PROVE NotLeftJoint
  BY <1>1 DEF LeaderInv, ClientInv, MemInv, NotLeftJoint
<1> QED BY <1>1, LeaderInvariant, PTL

\* Every quorum of the effective membership meets every quorum of the one that
\* replaces it (next_coherent, membership.rs).
THEOREM QuorumsMeet == Spec => QuorumsOverlap
<1>1. LeaderInv /\ [Next]_vars => [Overlap]_vars
  BY Step
<1>2. Spec => [][Overlap]_vars
  BY <1>1, LeaderInvariant, PTL DEF Spec
<1> QED BY <1>2 DEF QuorumsOverlap, Overlap
----------------------------------------------------------------------------
(* What a VecProgress accepts.                                             *)

\* A voter that makes a quorum with any other one.
IsCentre(configs, x) ==
  /\ x \in VoterIds(configs)
  /\ \A y \in VoterIds(configs) \ {x} : IsQuorum(configs, {x, y})

\* Up to three voters, one of them such a voter: every uniform config of so
\* many, and the joint ones that do not need all three of them, nor two given
\* ones.
PairsSuffice(configs) ==
  /\ Cardinality(VoterIds(configs)) <= 3
  /\ \E x \in VoterIds(configs) : IsCentre(configs, x)

SmallQuorums == PairsSuffice(mem.effective.m.configs)

\* The nodes of a progress: each once, the voters first.
IdsInv(p) ==
  /\ \A i, j \in 1..Len(p.entries) : p.entries[i].id = p.entries[j].id => i = j
  /\ p.voters = Cardinality(VoterIds(p.configs))
  /\ \A i \in 1..p.voters : p.entries[i].id \in VoterIds(p.configs)
  /\ \A x \in VoterIds(p.configs) : \E i \in 1..p.voters : p.entries[i].id = x
  /\ \A i \in DOMAIN p.configs : IsFiniteSet(p.configs[i])

\* Where a value above the accepted one cannot be: at a central voter that is
\* not the first, nor behind one that is.
CentreFirst(p) ==
  \A i \in 1..p.voters : IsCentre(p.configs, p.entries[i].id) =>
    IF i = 1 THEN p.voters >= 2 => p.entries[2].val <= p.accepted
    ELSE p.entries[i].val <= p.accepted

\* QuorumHoldsAccepted, of one progress.
Accepted(p) == p.accepted > 0 => IsQuorum(p.configs, Granting(p, p.accepted))

AcceptInv(p) == IsProgress(p) /\ IdsInv(p) /\ CentreFirst(p) /\ Accepted(p)

\* More ids make a quorum, too.
LEMMA QuorumGrows ==
  ASSUME NEW cs, \A i \in DOMAIN cs : IsFiniteSet(cs[i]), NEW Q, NEW R, Q \subseteq R,
         IsQuorum(cs, Q)
  PROVE  IsQuorum(cs, R)
<1>1. SUFFICES ASSUME NEW i \in DOMAIN cs PROVE IsMajority(cs[i], R)
  BY DEF IsQuorum
<1> DEFINE c == cs[i]
<1>2. IsFiniteSet(c) /\ IsMajority(c, Q)
  BY <1>1 DEF IsQuorum
<1> HIDE DEF c
<1>3. IsFiniteSet(c \cap R) /\ c \cap Q \in SUBSET (c \cap R)
  BY <1>2, FS_Subset
<1>4. IsFiniteSet(c \cap Q) /\ Cardinality(c \cap Q) <= Cardinality(c \cap R)
  BY <1>3, FS_Subset
<1>5. Cardinality(c \cap Q) \in Nat /\ Cardinality(c \cap R) \in Nat /\ Cardinality(c) \in Nat
  BY <1>2, <1>3, <1>4, FS_CardinalityType
<1>6. IsMajority(c, R)
  BY <1>2, <1>4, <1>5 DEF IsMajority
<1> QED BY <1>6 DEF c

\* How many ids are smaller tells ids apart.
LEMMA CountsGrow ==
  ASSUME NEW S \in SUBSET Nat, IsFiniteSet(S), NEW x \in S, NEW z \in S, x < z
  PROVE  /\ Cardinality({y \in S : y < x}) < Cardinality({y \in S : y < z})
<1> DEFINE A == {y \in S : y < x}
           B == {y \in S : y < z}
<1>1. A \cup {x} \in SUBSET B /\ x \notin A /\ A \in SUBSET S /\ B \in SUBSET S
  <2>1. x \in Nat /\ z \in Nat /\ \A y \in S : y \in Nat
    OBVIOUS
  <2>2. \A y \in S : y < x => y < z
    BY <2>1
  <2>3. ~ (x < x)
    BY <2>1
  <2> QED BY <2>2, <2>3
<1> HIDE DEF A, B
<1>2. IsFiniteSet(A) /\ IsFiniteSet(B)
  BY <1>1, FS_Subset
<1>3. Cardinality(A \cup {x}) = Cardinality(A) + 1 /\ Cardinality(A \cup {x}) <= Cardinality(B)
  BY <1>1, <1>2, FS_AddElement, FS_Subset
<1>4. Cardinality(A) \in Nat /\ Cardinality(B) \in Nat
  BY <1>2, FS_CardinalityType
<1>5. Cardinality(A) < Cardinality(B)
  BY <1>3, <1>4
<1> QED BY <1>5 DEF A, B

\* For each position there is the id with that many smaller ones.
LEMMA Counted ==
  ASSUME NEW S \in SUBSET Nat, IsFiniteSet(S), NEW i \in 1..Cardinality(S)
  PROVE  \E x \in S : Cardinality({y \in S : y < x}) = i - 1
<1> DEFINE n == Cardinality(S)
           c(x) == Cardinality({y \in S : y < x})
           T == {k \in 0..(n - 1) : \E x \in S : c(x) = k}
<1>1. n \in Nat /\ n >= 1
  BY FS_CardinalityType
<1>2. 0 \in T
  <2>1. S # {}
    BY <1>1, FS_EmptySet
  <2>2. PICK w \in S : w \in S
    BY <2>1
  <2>3. PICK x \in S : \A y \in S : x <= y
    BY <2>2, Least
  <2>4. {y \in S : y < x} = {}
    <3>1. x \in Nat /\ \A y \in S : y \in Nat
      OBVIOUS
    <3>2. \A y \in S : ~ (y < x)
      BY <2>3, <3>1
    <3> QED BY <3>2
  <2>5. c(x) = 0
    BY <2>4, FS_EmptySet
  <2> HIDE DEF c, n
  <2> QED BY <1>1, <2>5
<1>3. ASSUME NEW k \in 0..(n - 1), k \in T, k < n - 1 PROVE k + 1 \in T
  <2>1. PICK x \in S : c(x) = k
    <3> HIDE DEF c, n
    <3> QED BY <1>3
  <2> DEFINE A == {y \in S : y < x}
             U == A \cup {x}
             R == S \ U
  <2>2. A \in SUBSET S /\ x \notin A /\ R \in SUBSET Nat /\ U \in SUBSET S /\ Cardinality(A) = k
    <3>1. x \in Nat
      OBVIOUS
    <3>2. ~ (x < x)
      BY <3>1
    <3> QED BY <2>1, <3>2
  <2>3. IsFiniteSet(A) /\ Cardinality(U) = k + 1
    <3> HIDE DEF A
    <3>1. IsFiniteSet(A)
      BY <2>2, FS_Subset
    <3> QED BY <2>2, <3>1, FS_AddElement
  <2>4. R # {}
    <3>1. SUFFICES ASSUME U = S PROVE FALSE
      BY <2>2
    <3> HIDE DEF U
    <3>2. Cardinality(S) = k + 1
      BY <2>3, <3>1
    <3> QED BY <1>1, <1>3, <3>2 DEF n
  <2>5. PICK z \in R : \A y \in R : z <= y
    <3> HIDE DEF R
    <3>1. PICK w \in R : w \in R
      BY <2>4
    <3> QED BY <2>2, <3>1, Least
  <2>6. {y \in S : y < z} = U
    <3>1. ASSUME NEW y \in S, y < z PROVE y \in U
      <4>1. y \notin R
        BY <2>5, <3>1
      <4> QED BY <4>1
    <3>2. ASSUME NEW y \in U PROVE y < z
      <4>1. y \in Nat /\ z \in Nat /\ x \in Nat /\ z \notin A /\ z # x /\ z \in S
        BY <2>2, <2>5
      <4>2. z > x
        BY <4>1
      <4>3. y <= x
        BY <4>1
      <4> QED BY <4>1, <4>2, <4>3
    <3> QED BY <2>2, <3>1, <3>2
  <2>7. z \in S /\ c(z) = k + 1
    BY <2>3, <2>5, <2>6
  <2> HIDE DEF c, n
  <2> QED BY <1>1, <1>3, <2>7
<1>4. \A k \in 0..(n - 1) : k \in T
  <2> HIDE DEF T
  <2>1. n - 1 \in Nat
    BY <1>1
  <2> HIDE DEF n
  <2> QED BY <1>2, <1>3, <2>1, Induct
<1>5. i - 1 \in T
  <2> HIDE DEF T
  <2> QED BY <1>1, <1>4
<1>6. \E x \in S : c(x) = i - 1
  <2> HIDE DEF c, n
  <2> QED BY <1>5
<1> QED BY <1>6

\* InOrder lists each id once.
LEMMA InOrderLists ==
  ASSUME NEW S \in SUBSET Nat, IsFiniteSet(S)
  PROVE  /\ Cardinality(S) \in Nat
         /\ InOrder(S) \in Seq(S) /\ Len(InOrder(S)) = Cardinality(S)
         /\ \A i, j \in 1..Cardinality(S) : InOrder(S)[i] = InOrder(S)[j] => i = j
         /\ \A x \in S : \E i \in 1..Cardinality(S) : InOrder(S)[i] = x
<1> DEFINE n == Cardinality(S)
           f == InOrder(S)
           c(x) == Cardinality({y \in S : y < x})
<1>1. n \in Nat
  BY FS_CardinalityType
<1>2. f = [i \in 1..n |-> CHOOSE x \in S : c(x) = i - 1]
  BY DEF InOrder
<1>3. ASSUME NEW i \in 1..n PROVE f[i] \in S /\ c(f[i]) = i - 1
  <2>1. \E x \in S : c(x) = i - 1
    BY Counted
  <2>2. f[i] = CHOOSE x \in S : c(x) = i - 1
    BY <1>2
  <2> HIDE DEF c, f
  <2> QED BY <2>1, <2>2, Zenon
<1>4. ASSUME NEW i \in 1..n, NEW j \in 1..n, f[i] = f[j] PROVE i = j
  <2>1. i - 1 = j - 1
    BY <1>3, <1>4, Zenon
  <2> QED BY <1>1, <2>1
<1>5. ASSUME NEW x \in S PROVE \E i \in 1..n : f[i] = x
  <2> DEFINE A == {y \in S : y < x}
  <2>1. A \in SUBSET S /\ x \notin A
    <3>1. x \in Nat
      OBVIOUS
    <3>2. ~ (x < x)
      BY <3>1
    <3> QED BY <3>2
  <2>2. c(x) \in Nat /\ c(x) <= n
    <3> HIDE DEF A
    <3>1. IsFiniteSet(A) /\ Cardinality(A) <= n
      BY <2>1, FS_Subset
    <3>2. Cardinality(A) \in Nat
      BY <3>1, FS_CardinalityType
    <3> QED BY <3>1, <3>2 DEF A
  <2>3. c(x) # n
    <3> HIDE DEF A
    <3>1. Cardinality(A) = n => A = S
      BY <2>1, FS_Subset
    <3>2. Cardinality(A) # n
      BY <2>1, <3>1
    <3> QED BY <3>2 DEF A
  <2> DEFINE i == c(x) + 1
  <2> HIDE DEF A, f, c, n
  <2>4. i \in 1..n /\ i - 1 = c(x)
    BY <1>1, <2>2, <2>3
  <2> HIDE DEF i
  <2>5. f[i] \in S /\ c(f[i]) = c(x)
    BY <1>3, <2>4
  <2> DEFINE z == f[i]
  <2>6. z = x
    <3>1. z \in Nat /\ x \in Nat /\ z \in S
      BY <2>5
    <3> HIDE DEF z
    <3>2. c(x) \in Nat
      BY <2>2
    <3>3. ~ (z < x)
      <4>1. SUFFICES ASSUME z < x PROVE FALSE
        OBVIOUS
      <4>2. c(z) < c(x)
        BY <3>1, <4>1, CountsGrow DEF c
      <4> QED BY <2>5, <3>2, <4>2 DEF z
    <3>4. ~ (x < z)
      <4>1. SUFFICES ASSUME x < z PROVE FALSE
        OBVIOUS
      <4>2. c(x) < c(z)
        BY <3>1, <4>1, CountsGrow DEF c
      <4> QED BY <2>5, <3>2, <4>2 DEF z
    <3> QED BY <3>1, <3>3, <3>4
  <2> QED BY <2>4, <2>6 DEF z
<1>6. f \in [1..n -> S]
  <2> HIDE DEF n, c
  <2>1. \A i \in 1..n : f[i] \in S
    BY <1>3
  <2>2. DOMAIN f = 1..n /\ f = [i \in 1..n |-> f[i]]
    BY <1>2
  <2> HIDE DEF f
  <2> QED BY <2>1, <2>2
<1>7. f \in Seq(S) /\ Len(f) = n
  <2> HIDE DEF f, n
  <2> QED BY <1>1, <1>6, FunIsSeq
<1> HIDE DEF f, n
<1>8. /\ \A i, j \in 1..n : f[i] = f[j] => i = j
      /\ \A x \in S : \E i \in 1..n : f[i] = x
  BY <1>4, <1>5
<1> QED BY <1>1, <1>7, <1>8 DEF f, n

\* The voters of a membership.
LEMMA VotersFinite ==
  ASSUME NEW m, IsMembership(m)
  PROVE  /\ VoterIds(m.configs) \in SUBSET Nat /\ IsFiniteSet(VoterIds(m.configs))
         /\ \A i \in DOMAIN m.configs : IsFiniteSet(m.configs[i])
<1> DEFINE c == m.configs
<1>1. c \in Seq(SUBSET Nat) /\ Len(c) \in 1..2 /\ \A i \in DOMAIN c : IsFiniteSet(c[i])
  BY DEF IsMembership
<1> HIDE DEF c
<1>2. DOMAIN c = 1..Len(c)
  BY <1>1
<1>3. CASE Len(c) = 1
  <2>1. VoterIds(c) = c[1] /\ c[1] \in SUBSET Nat
    BY <1>1, <1>2, <1>3 DEF VoterIds, ToSet
  <2> QED BY <1>1, <1>2, <1>3, <2>1 DEF c
<1>4. CASE Len(c) = 2
  <2>1. VoterIds(c) = c[1] \cup c[2] /\ c[1] \in SUBSET Nat /\ c[2] \in SUBSET Nat
    BY <1>1, <1>2, <1>4 DEF VoterIds, ToSet
  <2>2. IsFiniteSet(c[1]) /\ IsFiniteSet(c[2])
    BY <1>1, <1>2, <1>4
  <2> QED BY <1>1, <2>1, <2>2, FS_Union DEF c
<1> QED BY <1>1, <1>3, <1>4

\* Where moving an element to the front puts the others.
LEMMA MovedIs ==
  ASSUME NEW U, NEW s \in Seq(U), NEW i \in 1..Len(s), NEW k \in 1..i, NEW e \in U,
         NEW j \in 1..Len(s)
  PROVE  InsertAt(RemoveAt(s, i), k, e)[j] =
           IF j < k THEN s[j] ELSE IF j = k THEN e ELSE IF j <= i THEN s[j - 1] ELSE s[j]
<1> DEFINE a == SubSeq(s, 1, i - 1)
           b == SubSeq(s, i + 1, Len(s))
           r == a \o b
           c == SubSeq(r, 1, k - 1)
           d == SubSeq(r, k, Len(r))
<1>0. /\ Len(s) \in Nat /\ i \in Nat /\ k \in Nat /\ j \in Nat /\ j >= 1 /\ j <= Len(s)
      /\ i >= 1 /\ k >= 1 /\ i <= Len(s) /\ k <= i
  OBVIOUS
<1>1. \A n \in 1..Len(s) : s[n] \in U
  OBVIOUS
<1>2. a \in Seq(U) /\ Len(a) = i - 1 /\ \A n \in 1..(i - 1) : a[n] = s[n]
  <2>1. a \in Seq(U) /\ Len(a) = i - 1 /\ \A n \in 1..((i - 1) - 1 + 1) : a[n] = s[1 + n - 1]
    BY <1>0, <1>1, SubSeqProperties
  <2> HIDE DEF a
  <2> QED BY <1>0, <2>1
<1>3. b \in Seq(U) /\ Len(b) = Len(s) - i /\ \A n \in 1..(Len(s) - i) : b[n] = s[i + n]
  <2>1. b \in Seq(U) /\ Len(b) = Len(s) - i /\ \A n \in 1..(Len(s) - (i + 1) + 1) : b[n] = s[(i + 1) + n - 1]
    BY <1>0, <1>1, SubSeqProperties
  <2> HIDE DEF b
  <2> QED BY <1>0, <2>1
<1>4. /\ r \in Seq(U) /\ Len(r) = Len(s) - 1
      /\ \A n \in 1..(Len(s) - 1) : r[n] = IF n < i THEN s[n] ELSE s[n + 1]
  <2> HIDE DEF a, b
  <2>1. /\ r \in Seq(U) /\ Len(r) = Len(a) + Len(b)
        /\ \A n \in 1..(Len(a) + Len(b)) : r[n] = IF n <= Len(a) THEN a[n] ELSE b[n - Len(a)]
    BY <1>2, <1>3, ConcatProperties, Zenon
  <2> HIDE DEF r
  <2>2. Len(r) = Len(s) - 1
    BY <1>0, <1>2, <1>3, <2>1
  <2>3. ASSUME NEW n \in 1..(Len(s) - 1) PROVE r[n] = IF n < i THEN s[n] ELSE s[n + 1]
    <3>1. n \in 1..(Len(a) + Len(b))
      BY <1>0, <1>2, <1>3
    <3>2. CASE n < i
      BY <1>0, <1>2, <2>1, <3>1, <3>2
    <3>3. CASE n >= i
      <4>1. r[n] = b[n - (i - 1)] /\ n - (i - 1) \in 1..(Len(s) - i)
        BY <1>0, <1>2, <2>1, <3>1, <3>3
      <4>2. b[n - (i - 1)] = s[i + (n - (i - 1))]
        BY <1>3, <4>1
      <4>3. i + (n - (i - 1)) = n + 1 /\ ~ (n < i)
        BY <1>0, <3>3
      <4> QED BY <4>1, <4>2, <4>3
    <3> QED BY <1>0, <3>2, <3>3
  <2> QED BY <2>1, <2>2, <2>3
<1> HIDE DEF r
<1>5. \A n \in 1..Len(r) : r[n] \in U
  BY <1>4
<1>6. c \in Seq(U) /\ Len(c) = k - 1 /\ \A n \in 1..(k - 1) : c[n] = r[n]
  <2>1. c \in Seq(U) /\ Len(c) = k - 1 /\ \A n \in 1..((k - 1) - 1 + 1) : c[n] = r[1 + n - 1]
    BY <1>0, <1>4, <1>5, SubSeqProperties
  <2> HIDE DEF c
  <2> QED BY <1>0, <2>1
<1>7. d \in Seq(U) /\ Len(d) = Len(r) - k + 1 /\ \A n \in 1..(Len(r) - k + 1) : d[n] = r[k + n - 1]
  BY <1>0, <1>4, <1>5, SubSeqProperties
<1>8. <<e>> \in Seq(U) /\ Len(<<e>>) = 1 /\ <<e>>[1] = e
  OBVIOUS
<1> HIDE DEF c, d
<1> DEFINE h == c \o <<e>>
<1>9. h \in Seq(U) /\ Len(h) = k /\ h[k] = e /\ \A n \in 1..(k - 1) : h[n] = r[n]
  <2>1. /\ h \in Seq(U) /\ Len(h) = Len(c) + Len(<<e>>)
        /\ \A n \in 1..(Len(c) + Len(<<e>>)) : h[n] = IF n <= Len(c) THEN c[n] ELSE <<e>>[n - Len(c)]
    BY <1>6, <1>8, ConcatProperties, Zenon
  <2> HIDE DEF h
  <2>2. Len(c) + Len(<<e>>) = k
    BY <1>0, <1>6, <1>8
  <2>3. h[k] = <<e>>[k - (k - 1)] /\ k - (k - 1) = 1
    BY <1>0, <1>6, <2>1, <2>2
  <2>4. \A n \in 1..(k - 1) : h[n] = c[n]
    BY <1>0, <1>6, <2>1, <2>2
  <2> QED BY <1>6, <1>8, <2>1, <2>2, <2>3, <2>4
<1> HIDE DEF h
<1>10. /\ Len(h) + Len(d) = Len(s)
       /\ \A n \in 1..(Len(h) + Len(d)) : (h \o d)[n] = IF n <= Len(h) THEN h[n] ELSE d[n - Len(h)]
  <2>1. Len(h) + Len(d) = Len(s)
    BY <1>0, <1>4, <1>7, <1>9
  <2>2. h \in Seq(U) /\ d \in Seq(U)
    BY <1>7, <1>9
  <2>3. \A n \in 1..(Len(h) + Len(d)) : (h \o d)[n] = IF n <= Len(h) THEN h[n] ELSE d[n - Len(h)]
    BY <2>2, ConcatProperties
  <2> QED BY <2>1, <2>3, Zenon
<1>11. InsertAt(RemoveAt(s, i), k, e) = h \o d
  BY Zenon DEF h, InsertAt, RemoveAt, r, a, b, c, d
<1>12. (h \o d)[j] = IF j <= k THEN h[j] ELSE d[j - k]
  BY <1>0, <1>9, <1>10
<1> DEFINE t == InsertAt(RemoveAt(s, i), k, e)[j]
<1>13. ASSUME j < k PROVE t = s[j]
  <2>1. j \in 1..(k - 1) /\ j \in 1..(Len(s) - 1) /\ j < i
    BY <1>0, <1>13
  <2>2. h[j] = s[j]
    BY <1>4, <1>9, <2>1
  <2> QED BY <1>0, <1>11, <1>12, <1>13, <2>2
<1>14. ASSUME j = k PROVE t = e
  BY <1>0, <1>9, <1>11, <1>12, <1>14
<1>15. ASSUME j > k PROVE t = IF j <= i THEN s[j - 1] ELSE s[j]
  <2>1. j - k \in 1..(Len(r) - k + 1) /\ k + (j - k) - 1 = j - 1 /\ j - 1 \in 1..(Len(s) - 1)
    BY <1>0, <1>4, <1>15
  <2>2. d[j - k] = r[j - 1]
    BY <1>7, <2>1
  <2>3. r[j - 1] = IF j - 1 < i THEN s[j - 1] ELSE s[(j - 1) + 1]
    BY <1>4, <2>1
  <2>4. (j - 1) + 1 = j /\ (j - 1 < i <=> j <= i)
    BY <1>0
  <2>5. (h \o d)[j] = d[j - k] /\ ~ (j < k) /\ j # k
    BY <1>0, <1>12, <1>15
  <2> QED BY <1>11, <2>2, <2>3, <2>4, <2>5
<1> HIDE DEF t
<1>16. t = IF j < k THEN s[j] ELSE IF j = k THEN e ELSE IF j <= i THEN s[j - 1] ELSE s[j]
  BY <1>0, <1>13, <1>14, <1>15
<1> QED BY <1>16 DEF t

\* The progress of a new leader: nothing is accepted.
LEMMA NewProgressIs ==
  ASSUME NEW m, IsMembership(m)
  PROVE  /\ AcceptInv(NewProgress(m)) /\ NewProgress(m).configs = m.configs
         /\ NewProgress(m).accepted = 0
         /\ \A i \in 1..Len(NewProgress(m).entries) : NewProgress(m).entries[i].val = 0
<1> DEFINE V == VoterIds(m.configs)
           L == LearnerIds(m)
           f == InOrder(V)
           g == InOrder(L)
           ids == f \o g
           es == [i \in DOMAIN ids |-> [id |-> ids[i], val |-> 0]]
           p == NewProgress(m)
<1>1. V \in SUBSET Nat /\ IsFiniteSet(V) /\ \A i \in DOMAIN m.configs : IsFiniteSet(m.configs[i])
  BY VotersFinite, Zenon
<1>2. L \in SUBSET Nat /\ IsFiniteSet(L) /\ V \cap L = {}
  <2>1. IsFiniteSet(DOMAIN m.nodes) /\ L \in SUBSET (DOMAIN m.nodes) /\ DOMAIN m.nodes \in SUBSET Nat
    BY DEF IsMembership, LearnerIds
  <2>2. V \cap L = {}
    BY DEF LearnerIds
  <2> QED BY <2>1, <2>2, FS_Subset
<1>3. /\ Cardinality(V) \in Nat /\ f \in Seq(V) /\ Len(f) = Cardinality(V)
      /\ \A i, j \in 1..Cardinality(V) : f[i] = f[j] => i = j
      /\ \A x \in V : \E i \in 1..Cardinality(V) : f[i] = x
  <2> HIDE DEF V
  <2> QED BY <1>1, InOrderLists
<1>4. /\ Cardinality(L) \in Nat /\ g \in Seq(L) /\ Len(g) = Cardinality(L)
      /\ \A i, j \in 1..Cardinality(L) : g[i] = g[j] => i = j
  <2> HIDE DEF L
  <2> QED BY <1>2, InOrderLists
<1>5. p = [configs |-> m.configs, accepted |-> 0, voters |-> Cardinality(V), entries |-> es]
  BY Zenon DEF NewProgress
<1>6. p.configs = m.configs /\ p.accepted = 0 /\ p.voters = Cardinality(V) /\ p.entries = es
  <2> HIDE DEF V, es, p
  <2> QED BY <1>5
<1> HIDE DEF V, L, f, g, p
<1> DEFINE X == V \cup L
           n == Len(f) + Len(g)
<1>7. /\ ids \in Seq(X) /\ Len(ids) = n
      /\ \A i \in 1..n : ids[i] = IF i <= Len(f) THEN f[i] ELSE g[i - Len(f)]
  <2>1. f \in Seq(X) /\ g \in Seq(X)
    BY <1>3, <1>4
  <2> HIDE DEF X
  <2> QED BY <2>1, ConcatProperties
<1>8. n \in Nat /\ Len(f) \in Nat /\ Len(g) \in Nat
  BY <1>3, <1>4
<1>9. DOMAIN ids = 1..n
  <2> HIDE DEF ids, n, X
  <2>1. DOMAIN ids = 1..Len(ids)
    BY <1>7, LenProperties
  <2> QED BY <1>7, <2>1
<1> HIDE DEF ids, n
<1>10. es \in [1..n -> [id : X, val : {0}]] /\ \A i \in 1..n : es[i] = [id |-> ids[i], val |-> 0]
  <2>1. \A i \in 1..n : ids[i] \in X
    BY <1>7
  <2> QED BY <1>9, <2>1
<1> HIDE DEF es
<1>11. Len(es) = n
  <2> DEFINE W == [id : X, val : {0}]
  <2>1. es \in [1..n -> W]
    BY <1>10
  <2> HIDE DEF W
  <2> QED BY <1>8, <2>1, FunIsSeq
<1>12. \A i \in 1..n : es[i].id = ids[i] /\ es[i].val = 0
  BY <1>10
<1>13. p.voters \in Nat /\ p.voters = Len(f) /\ p.voters <= n
  BY <1>3, <1>4, <1>6, <1>8 DEF n
<1>14. \A i \in 1..p.voters : i \in 1..n /\ ids[i] = f[i]
  BY <1>7, <1>8, <1>13
<1>15. ASSUME NEW i \in 1..n, NEW j \in 1..n, ids[i] = ids[j] PROVE i = j
  <2>1. \A k \in 1..Len(f) : f[k] \in V
    BY <1>3
  <2>2. \A k \in 1..Len(g) : g[k] \in L
    BY <1>4
  <2>3. CASE i <= Len(f) /\ j <= Len(f)
    <3>1. ids[i] = f[i] /\ ids[j] = f[j] /\ i \in 1..Cardinality(V) /\ j \in 1..Cardinality(V)
      BY <1>3, <1>7, <1>8, <2>3
    <3> QED BY <1>3, <1>15, <3>1
  <2>4. CASE i > Len(f) /\ j > Len(f)
    <3>1. ids[i] = g[i - Len(f)] /\ ids[j] = g[j - Len(f)]
      BY <1>7, <1>8, <2>4
    <3>2. i - Len(f) \in 1..Cardinality(L) /\ j - Len(f) \in 1..Cardinality(L)
      BY <1>4, <1>8, <2>4 DEF n
    <3>3. i - Len(f) = j - Len(f)
      BY <1>4, <1>15, <3>1, <3>2
    <3> QED BY <1>8, <3>3
  <2>5. CASE i <= Len(f) /\ j > Len(f)
    <3>1. ids[i] = f[i] /\ ids[j] = g[j - Len(f)] /\ i \in 1..Len(f) /\ j - Len(f) \in 1..Len(g)
      BY <1>7, <1>8, <2>5 DEF n
    <3> QED BY <1>2, <1>15, <2>1, <2>2, <3>1
  <2>6. CASE i > Len(f) /\ j <= Len(f)
    <3>1. ids[j] = f[j] /\ ids[i] = g[i - Len(f)] /\ j \in 1..Len(f) /\ i - Len(f) \in 1..Len(g)
      BY <1>7, <1>8, <2>6 DEF n
    <3> QED BY <1>2, <1>15, <2>1, <2>2, <3>1
  <2> QED BY <1>8, <2>3, <2>4, <2>5, <2>6
<1>16. IdsInv(p)
  <2>1. \A i, j \in 1..Len(p.entries) : p.entries[i].id = p.entries[j].id => i = j
    BY <1>6, <1>11, <1>12, <1>15
  <2>2. \A i \in 1..p.voters : p.entries[i].id = f[i]
    BY <1>6, <1>12, <1>14
  <2>3. \A i \in 1..p.voters : f[i] \in V
    BY <1>3, <1>13
  <2>4. \A x \in V : \E i \in 1..p.voters : f[i] = x
    BY <1>3, <1>6
  <2>5. V = VoterIds(p.configs) /\ p.voters = Cardinality(V)
    BY <1>6 DEF V
  <2>6. \A i \in DOMAIN p.configs : IsFiniteSet(p.configs[i])
    BY <1>1, <1>6
  <2> QED BY <2>1, <2>2, <2>3, <2>4, <2>5, <2>6 DEF IdsInv
<1>17. \A i \in 1..Len(p.entries) : p.entries[i].val = 0
  BY <1>6, <1>11, <1>12
<1>18. CentreFirst(p)
  <2>1. \A i \in 1..p.voters : p.entries[i].val <= p.accepted
    <3>1. \A i \in 1..p.voters : p.entries[i].val = 0
      BY <1>6, <1>12, <1>14
    <3> QED BY <1>6, <3>1
  <2>2. p.voters >= 2 => p.entries[2].val <= p.accepted
    <3>1. p.voters >= 2 => 2 \in 1..p.voters
      BY <1>13
    <3> QED BY <2>1, <3>1
  <2> QED BY <2>1, <2>2 DEF CentreFirst
<1>19. Accepted(p)
  BY <1>6 DEF Accepted
<1>20. IsProgress(p)
  BY NewProgressType DEF p
<1> QED BY <1>6, <1>16, <1>17, <1>18, <1>19, <1>20 DEF AcceptInv, p

\* One update: either a value is replaced, or the entry crosses the accepted
\* value, is moved before all smaller ones, and the search starts there.
Replaced(p, q, i, v) ==
  /\ q.accepted = p.accepted
  /\ \A j \in 1..Len(p.entries) : /\ q.entries[j].id = p.entries[j].id
                                  /\ q.entries[j].val = IF j = i THEN v ELSE p.entries[j].val
  /\ ~ (i <= p.voters /\ p.entries[i].val <= p.accepted /\ v > p.accepted)

MovedTo(p, q, i, v, k) ==
  /\ i <= p.voters /\ p.entries[i].val <= p.accepted /\ v > p.accepted
  /\ k \in 1..i
  /\ k > 1 => p.entries[k - 1].val >= v
  /\ \A j \in k..(i - 1) : p.entries[j].val < v
  /\ \A j \in 1..Len(p.entries) :
       /\ q.entries[j].id = IF j < k THEN p.entries[j].id ELSE IF j = k THEN p.entries[i].id
                            ELSE IF j <= i THEN p.entries[j - 1].id ELSE p.entries[j].id
       /\ q.entries[j].val = IF j < k THEN p.entries[j].val ELSE IF j = k THEN v
                             ELSE IF j <= i THEN p.entries[j - 1].val ELSE p.entries[j].val

\* The ids of the first r entries.
First(q, r) == {q.entries[j].id : j \in 1..r}

\* Position r is where the search would stop.
Stops(p, q, k, r) ==
  /\ r \in k..p.voters
  /\ \A j \in k..r : q.entries[j].val > p.accepted
  /\ IsQuorum(p.configs, First(q, r))

Searched(p, q, k) ==
  \/ q.accepted = p.accepted /\ \A r \in k..p.voters : ~ Stops(p, q, k, r)
  \/ \E r \in k..p.voters :
       /\ Stops(p, q, k, r) /\ q.accepted = q.entries[r].val
       /\ \A t \in k..(r - 1) : ~ Stops(p, q, k, t)

Updated(p, q, i, v) ==
  /\ q.configs = p.configs /\ q.voters = p.voters /\ Len(q.entries) = Len(p.entries)
  /\ \/ Replaced(p, q, i, v)
     \/ \E k \in 1..i : MovedTo(p, q, i, v, k) /\ Searched(p, q, k)

\* What update_with does.
LEMMA UpdateIs ==
  ASSUME NEW p, IsProgress(p), NEW id \in Tracked(p), NEW v \in Nat
  PROVE  /\ IndexOf(p, id) \in 1..Len(p.entries)
         /\ p.entries[IndexOf(p, id)].id = id
         /\ Updated(p, UpdateWith(p, id, v), IndexOf(p, id), v)
<1>1. PICK U : p.entries \in Seq([id : U, val : Nat])
  BY DEF IsProgress
<1> DEFINE R == [id : U, val : Nat]
           s == p.entries
           i == IndexOf(p, id)
           set == [s EXCEPT ![i].val = v]
           k == MoveUpTo(set, i)
           moved == MoveUp(set, i)
           found == FindAccepted(p, moved, k)
           q == UpdateWith(p, id, v)
<1>2. i \in DOMAIN s /\ s[i].id = id
  <2>1. \E j \in DOMAIN p.entries : p.entries[j].id = id
    BY DEF Tracked
  <2> QED BY <2>1, Zenon DEF IndexOf
<1>3. s \in Seq(R) /\ DOMAIN s = 1..Len(s) /\ Len(s) \in Nat
  BY <1>1
<1>4. p.accepted \in Nat /\ p.voters \in 0..Len(s)
      /\ p = [configs |-> p.configs, accepted |-> p.accepted, voters |-> p.voters, entries |-> s]
  BY DEF IsProgress
<1> HIDE DEF i, s
<1>5. i \in 1..Len(s) /\ i \in Nat /\ i >= 1 /\ i <= Len(s)
  BY <1>2, <1>3
<1>6. \A j \in 1..Len(s) : s[j] \in R /\ s[j].val \in Nat
  <2>1. \A j \in 1..Len(s) : s[j] \in R
    <3> HIDE DEF R
    <3> QED BY <1>3, ElementOfSeq
  <2> QED BY <2>1
<1>7. /\ set \in Seq(R) /\ Len(set) = Len(s) /\ DOMAIN set = 1..Len(s)
      /\ \A j \in 1..Len(s) : set[j].id = s[j].id /\ set[j].val = IF j = i THEN v ELSE s[j].val
      /\ set[i] \in R
  <2> DEFINE e == [s[i] EXCEPT !.val = v]
  <2>1. set = [s EXCEPT ![i] = e]
    OBVIOUS
  <2>2. e \in R /\ e.id = s[i].id /\ e.val = v
    BY <1>5, <1>6
  <2> HIDE DEF e, R, set
  <2>3. set \in Seq(R) /\ Len(set) = Len(s)
    BY <1>3, <1>5, <2>1, <2>2, ExceptSeq
  <2>4. DOMAIN set = 1..Len(s) /\ \A j \in 1..Len(s) : set[j] = IF j = i THEN e ELSE s[j]
    BY <1>3, <2>1
  <2> QED BY <1>5, <2>2, <2>3, <2>4
<1> HIDE DEF set
<1>8. /\ k \in 1..i
      /\ k > 1 => s[k - 1].val >= v
      /\ \A j \in k..(i - 1) : s[j].val < v
  <2> DEFINE S == {0} \cup {j \in 1..i - 1 : set[j].val >= set[i].val}
  <2>1. S \in SUBSET (0..(i - 1)) /\ 0 \in S /\ i - 1 \in Nat
    BY <1>5
  <2>2. k = 1 + Max(S)
    BY Zenon DEF MoveUpTo
  <2>3. Max(S) \in S /\ \A x \in S : Max(S) >= x
    <3> HIDE DEF S
    <3> QED BY <2>1, MaxIsTop
  <2>4. set[i].val = v /\ \A j \in 1..(i - 1) : set[j].val = s[j].val /\ s[j].val \in Nat
    BY <1>5, <1>6, <1>7
  <2> DEFINE x == Max(S)
  <2>5. x \in 0..(i - 1) /\ k = 1 + x
    BY <2>1, <2>2, <2>3
  <2>6. x > 0 => s[x].val >= v
    BY <2>3, <2>4, <2>5
  <2>7. ASSUME NEW j \in (1 + x)..(i - 1) PROVE s[j].val < v
    <3>1. SUFFICES ASSUME s[j].val >= v PROVE FALSE
      BY <1>5, <2>4, <2>5
    <3>2. j \in 1..(i - 1)
      BY <1>5, <2>5
    <3>3. j \in S
      BY <2>4, <3>1, <3>2
    <3>4. x >= j
      BY <2>3, <3>3
    <3> QED BY <1>5, <2>5, <3>2, <3>4
  <2> HIDE DEF x, S, k
  <2>8. k > 1 => k - 1 = x /\ x > 0
    BY <1>5, <2>5
  <2> QED BY <1>5, <2>5, <2>6, <2>7, <2>8
<1> HIDE DEF k
<1>9. /\ Len(moved) = Len(s)
      /\ \A j \in 1..Len(s) :
           moved[j] = IF j < k THEN set[j] ELSE IF j = k THEN set[i]
                      ELSE IF j <= i THEN set[j - 1] ELSE set[j]
  <2> DEFINE e == set[i]
  <2>1. moved = InsertAt(RemoveAt(set, i), k, e)
    BY Zenon DEF MoveUp, k
  <2>2. e \in R
    BY <1>7
  <2> HIDE DEF e, R, moved
  <2>3. k \in 1..Len(set) /\ i \in 1..Len(set)
    BY <1>3, <1>5, <1>7, <1>8
  <2>4. Len(moved) = Len(set)
    BY <1>7, <2>1, <2>2, <2>3, Moved
  <2>5. \A j \in 1..Len(set) : moved[j] = IF j < k THEN set[j] ELSE IF j = k THEN e
                               ELSE IF j <= i THEN set[j - 1] ELSE set[j]
    BY <1>7, <1>8, <2>1, <2>2, <2>3, MovedIs
  <2> QED BY <1>7, <2>4, <2>5 DEF e
<1> HIDE DEF moved
<1>10. \A j \in 1..Len(s) :
         /\ moved[j].id = IF j < k THEN s[j].id ELSE IF j = k THEN s[i].id
                          ELSE IF j <= i THEN s[j - 1].id ELSE s[j].id
         /\ moved[j].val = IF j < k THEN s[j].val ELSE IF j = k THEN v
                           ELSE IF j <= i THEN s[j - 1].val ELSE s[j].val
  <2>1. SUFFICES ASSUME NEW j \in 1..Len(s)
                 PROVE  /\ moved[j].id = IF j < k THEN s[j].id ELSE IF j = k THEN s[i].id
                                         ELSE IF j <= i THEN s[j - 1].id ELSE s[j].id
                        /\ moved[j].val = IF j < k THEN s[j].val ELSE IF j = k THEN v
                                          ELSE IF j <= i THEN s[j - 1].val ELSE s[j].val
    OBVIOUS
  <2>2. k \in Nat /\ j \in Nat /\ k >= 1 /\ k <= i
    BY <1>3, <1>5, <1>8
  <2>3. CASE j < k
    BY <1>5, <1>7, <1>9, <2>2, <2>3
  <2>4. CASE j = k
    BY <1>5, <1>7, <1>9, <2>2, <2>4
  <2>5. CASE j > k /\ j <= i
    <3>1. j - 1 \in 1..Len(s) /\ j - 1 # i /\ ~ (j < k) /\ j # k
      BY <1>3, <1>5, <2>2, <2>5
    <3>2. moved[j] = set[j - 1]
      BY <1>9, <2>5, <3>1
    <3> QED BY <1>7, <2>5, <3>1, <3>2
  <2>6. CASE j > i
    <3>1. j # i /\ ~ (j < k) /\ j # k /\ ~ (j <= i)
      BY <1>5, <2>2, <2>6
    <3>2. moved[j] = set[j]
      BY <1>9, <3>1
    <3> QED BY <1>7, <3>1, <3>2
  <2> QED BY <1>5, <2>2, <2>3, <2>4, <2>5, <2>6
<1> DEFINE crosses == i <= p.voters /\ s[i].val <= p.accepted /\ v > p.accepted
           x == [p EXCEPT !.entries = set]
           y == [p EXCEPT !.entries = moved, !.accepted = found]
<1>11. q = IF ~crosses THEN x ELSE y
  BY Zenon DEF UpdateWith, i, s, set, k, moved, found
<1>12. x.configs = p.configs /\ x.voters = p.voters /\ x.accepted = p.accepted /\ x.entries = set
  BY <1>4
<1>13. y.configs = p.configs /\ y.voters = p.voters /\ y.accepted = found /\ y.entries = moved
  <2> HIDE DEF found
  <2> QED BY <1>4
<1> HIDE DEF x, y, q
<1>14. CASE ~ crosses
  <2>1. Replaced(p, q, i, v)
    BY <1>7, <1>11, <1>12, <1>14 DEF Replaced, s
  <2> QED BY <1>2, <1>5, <1>7, <1>11, <1>12, <1>14, <2>1 DEF Updated, i, s, q
<1>15. CASE crosses
  <2>1. MovedTo(p, q, i, v, k)
    <3> HIDE DEF found
    <3>1. q = y
      BY <1>11, <1>15
    <3> QED BY <1>8, <1>10, <1>13, <1>15, <3>1 DEF MovedTo, s
  <2>2. Searched(p, q, k)
    <3> DEFINE F == {r \in k .. p.voters : /\ \A j \in k .. r : moved[j].val > p.accepted
                                           /\ IsQuorum(p.configs, {moved[j].id : j \in 1 .. r})}
    <3>1. found = IF F = {} THEN p.accepted ELSE moved[Min(F)].val
      BY Zenon DEF FindAccepted
    <3>2. q.entries = moved /\ q.accepted = found
      <4> HIDE DEF found
      <4> QED BY <1>11, <1>13, <1>15
    <3>3. \A r \in k..p.voters : r \in F <=> Stops(p, q, k, r)
      BY <3>2 DEF Stops, First
    <3>4. F \in SUBSET Nat /\ F \in SUBSET (k..p.voters)
      BY <1>4, <1>5, <1>8
    <3> HIDE DEF F, found
    <3>5. CASE F = {}
      BY <3>1, <3>2, <3>3, <3>5 DEF Searched
    <3>6. CASE F # {}
      <4>1. Min(F) \in F /\ \A r \in F : Min(F) <= r
        BY <3>4, <3>6, MinIsBottom
      <4> DEFINE r == Min(F)
      <4>2. r \in k..p.voters /\ Stops(p, q, k, r) /\ q.accepted = q.entries[r].val
        BY <3>1, <3>2, <3>3, <3>4, <3>6, <4>1
      <4>3. ASSUME NEW t \in k..(r - 1) PROVE ~ Stops(p, q, k, t)
        <5>1. r \in Nat /\ t \in Nat /\ ~ (r <= t) /\ t \in k..p.voters
          BY <1>4, <1>5, <1>8, <4>2
        <5> QED BY <3>3, <4>1, <5>1
      <4> HIDE DEF r
      <4> QED BY <4>2, <4>3 DEF Searched
    <3> QED BY <3>5, <3>6
  <2>3. Len(q.entries) = Len(s) /\ q.configs = p.configs /\ q.voters = p.voters
    <3> HIDE DEF found
    <3> QED BY <1>9, <1>11, <1>13, <1>15
  <2> QED BY <1>2, <1>5, <1>8, <2>1, <2>2, <2>3 DEF Updated, i, s, q
<1> QED BY <1>14, <1>15

\* The position an entry had.
Before(i, k, j) == IF j < k THEN j ELSE IF j = k THEN i ELSE IF j <= i THEN j - 1 ELSE j

Placed(p, q, i, v, k) ==
  \A j \in 1..Len(p.entries) :
    LET o == Before(i, k, j)
    IN  /\ o \in 1..Len(p.entries) /\ (o <= p.voters <=> j <= p.voters)
        /\ q.entries[j].id = p.entries[o].id
        /\ q.entries[j].val = IF o = i THEN v ELSE p.entries[o].val

\* A move keeps the nodes of a progress, each once.
LEMMA MovedIds ==
  ASSUME NEW p, NEW q, NEW i, NEW v \in Nat, NEW k, IsProgress(p), IdsInv(p), i \in 1..p.voters,
         MovedTo(p, q, i, v, k), q.configs = p.configs, q.voters = p.voters,
         Len(q.entries) = Len(p.entries)
  PROVE  IdsInv(q) /\ Placed(p, q, i, v, k)
<1> DEFINE n == p.voters
           N == Len(p.entries)
           o(j) == Before(i, k, j)
<1>1. N \in Nat /\ n \in Nat /\ n <= N /\ i \in Nat /\ k \in Nat /\ 1 <= k /\ k <= i /\ i <= n
  BY LenProperties DEF IsProgress, MovedTo
<1> HIDE DEF n, N
<1>2. ASSUME NEW j \in 1..N
      PROVE  /\ o(j) \in 1..N /\ (o(j) <= n <=> j <= n)
             /\ q.entries[j].id = p.entries[o(j)].id
             /\ q.entries[j].val = IF o(j) = i THEN v ELSE p.entries[o(j)].val
  BY <1>1 DEF Before, MovedTo, N
<1>3. ASSUME NEW j \in 1..N, NEW l \in 1..N, o(j) = o(l) PROVE j = l
  BY <1>1, <1>3 DEF Before
<1>4. ASSUME NEW l \in 1..n PROVE \E j \in 1..n : o(j) = l
  <2> DEFINE j == IF l < k THEN l ELSE IF l = i THEN k ELSE IF l < i THEN l + 1 ELSE l
  <2>1. j \in 1..n /\ o(j) = l
    BY <1>1, <1>4 DEF Before
  <2> QED BY <2>1
<1> HIDE DEF o
<1>5. \A j, l \in 1..N : q.entries[j].id = q.entries[l].id => j = l
  <2>1. \A j, l \in 1..N : p.entries[j].id = p.entries[l].id => j = l
    BY DEF IdsInv, N
  <2>2. ASSUME NEW j \in 1..N, NEW l \in 1..N, q.entries[j].id = q.entries[l].id PROVE j = l
    <3>1. o(j) \in 1..N /\ q.entries[j].id = p.entries[o(j)].id
      BY <1>2
    <3>2. o(l) \in 1..N /\ q.entries[l].id = p.entries[o(l)].id
      BY <1>2
    <3>3. o(j) = o(l)
      BY <2>1, <2>2, <3>1, <3>2
    <3> QED BY <1>3, <3>3
  <2> QED BY <2>2
<1>6. \A j \in 1..n : j \in 1..N /\ o(j) \in 1..n
  BY <1>1, <1>2
<1>7. /\ \A j \in 1..n : q.entries[j].id \in VoterIds(p.configs)
      /\ \A x \in VoterIds(p.configs) : \E j \in 1..n : q.entries[j].id = x
  <2>1. /\ \A j \in 1..n : p.entries[j].id \in VoterIds(p.configs)
        /\ \A x \in VoterIds(p.configs) : \E j \in 1..n : p.entries[j].id = x
    BY DEF IdsInv, n
  <2>2. ASSUME NEW x \in VoterIds(p.configs) PROVE \E j \in 1..n : q.entries[j].id = x
    <3>1. PICK l \in 1..n : p.entries[l].id = x
      BY <2>1
    <3>2. PICK j \in 1..n : o(j) = l
      BY <1>4
    <3>3. q.entries[j].id = x
      BY <1>2, <1>6, <3>1, <3>2
    <3> QED BY <3>3
  <2> QED BY <1>2, <1>6, <2>1, <2>2
<1>8. IdsInv(q)
  BY <1>5, <1>7 DEF IdsInv, n, N
<1> QED BY <1>2, <1>8 DEF Placed, o, n, N

\* Two voters, one of them central, with whoever comes with them.
LEMMA CentralQuorum ==
  ASSUME NEW q, IdsInv(q), NEW y \in 1..q.voters, NEW z \in 1..q.voters, y # z,
         q.voters \in 0..Len(q.entries), IsCentre(q.configs, q.entries[y].id),
         NEW S, q.entries[y].id \in S, q.entries[z].id \in S
  PROVE  IsQuorum(q.configs, S)
<1>1. y \in 1..Len(q.entries) /\ z \in 1..Len(q.entries)
  OBVIOUS
<1>2. q.entries[z].id \in VoterIds(q.configs) \ {q.entries[y].id}
  BY <1>1 DEF IdsInv
<1>3. IsQuorum(q.configs, {q.entries[y].id, q.entries[z].id})
  BY <1>2 DEF IsCentre
<1>4. {q.entries[y].id, q.entries[z].id} \subseteq S
  OBVIOUS
<1>5. \A c \in DOMAIN q.configs : IsFiniteSet(q.configs[c])
  BY DEF IdsInv
<1> QED BY <1>3, <1>4, <1>5, QuorumGrows

\* The search finds something at a position that qualifies, or before.
LEMMA SearchFinds ==
  ASSUME NEW p, NEW q, NEW k, Searched(p, q, k), NEW r \in k..p.voters, Stops(p, q, k, r),
         k \in Nat, p.voters \in Nat
  PROVE  \E t \in k..r : Stops(p, q, k, t) /\ q.accepted = q.entries[t].val
<1>1. PICK t \in k..p.voters :
        /\ Stops(p, q, k, t) /\ q.accepted = q.entries[t].val
        /\ \A u \in k..(t - 1) : ~ Stops(p, q, k, u)
  BY DEF Searched
<1>2. ~ (r \in k..(t - 1))
  BY <1>1
<1>3. t <= r /\ t \in k..r
  BY <1>2
<1> QED BY <1>1, <1>3

\* A move keeps values above the accepted one away from behind a central voter.
LEMMA MovedCentre ==
  ASSUME NEW p, NEW q, NEW i, NEW v \in Nat, NEW k, IsProgress(p), IdsInv(p), i \in 1..p.voters,
         CentreFirst(p), MovedTo(p, q, i, v, k), Searched(p, q, k),
         q.configs = p.configs, q.voters = p.voters, Len(q.entries) = Len(p.entries)
  PROVE  q.accepted \in Nat /\ q.accepted >= p.accepted /\ CentreFirst(q)
<1> DEFINE n == p.voters
           a == p.accepted
           b == q.accepted
           w(j) == p.entries[j].val
           W(j) == q.entries[j].val
<1>1. /\ n \in Nat /\ i \in Nat /\ k \in Nat /\ 1 <= k /\ k <= i /\ i <= n /\ a \in Nat
      /\ n <= Len(p.entries) /\ Len(p.entries) \in Nat
  BY LenProperties DEF IsProgress, MovedTo
<1>2. IdsInv(q) /\ \A j \in 1..n : w(j) \in Nat
  <2>1. \A j \in 1..n : w(j) \in Nat
    <3>1. PICK U : p.entries \in Seq([id : U, val : Nat])
      BY DEF IsProgress
    <3>2. \A j \in 1..Len(p.entries) : p.entries[j] \in [id : U, val : Nat]
      <4> DEFINE R == [id : U, val : Nat]
      <4> HIDE DEF R
      <4>1. p.entries \in Seq(R)
        BY <3>1 DEF R
      <4> QED BY <4>1, ElementOfSeq DEF R
    <3> QED BY <1>1, <3>2
  <2> QED BY <2>1, MovedIds
<1>3. /\ v > a /\ w(i) <= a
      /\ k > 1 => w(k - 1) >= v
      /\ \A j \in k..(i - 1) : w(j) < v
      /\ \A j \in 1..n : W(j) = IF j < k THEN w(j) ELSE IF j = k THEN v
                                ELSE IF j <= i THEN w(j - 1) ELSE w(j)
      /\ \A j \in 1..n : q.entries[j].id = IF j < k THEN p.entries[j].id ELSE IF j = k THEN p.entries[i].id
                                           ELSE IF j <= i THEN p.entries[j - 1].id ELSE p.entries[j].id
  BY <1>1 DEF MovedTo
<1>4. b \in Nat /\ b >= a
  <2>1. CASE b = a
    BY <1>1, <2>1
  <2>2. CASE b # a
    <3>1. PICK r \in k..n : Stops(p, q, k, r) /\ b = W(r)
      BY <2>2 DEF Searched
    <3>2. W(r) > a
      BY <1>1, <3>1 DEF Stops
    <3>3. W(r) \in Nat
      <4>1. r \in 1..n /\ r \in Nat /\ k <= r
        BY <1>1, <3>1
      <4>2. W(r) = IF r < k THEN w(r) ELSE IF r = k THEN v ELSE IF r <= i THEN w(r - 1) ELSE w(r)
        BY <1>3, <4>1
      <4>3. r > k => r - 1 \in 1..n
        BY <1>1, <4>1
      <4>4. w(r) \in Nat /\ (r > k => w(r - 1) \in Nat)
        BY <1>2, <4>1, <4>3
      <4> HIDE DEF W, w
      <4> QED BY <1>1, <4>1, <4>2, <4>4
    <3> QED BY <1>1, <3>1, <3>2, <3>3
  <2> QED BY <2>1, <2>2
<1>5. ASSUME NEW y \in 1..n, IsCentre(q.configs, q.entries[y].id), NEW r \in k..n, y <= r, r >= 2,
             \A j \in k..r : W(j) > a
      PROVE  \E t \in k..r : W(t) > a /\ b = W(t)
  <2>1. PICK z \in 1..r : z # y
    <3>1. 1 \in 1..r /\ 2 \in 1..r
      BY <1>1, <1>5
    <3> QED BY <3>1
  <2>2. z \in 1..n /\ y \in 1..r
    BY <1>1, <1>5
  <2>3. q.entries[y].id \in First(q, r) /\ q.entries[z].id \in First(q, r)
    BY <2>2 DEF First
  <2>4. q.voters \in 0..Len(q.entries)
    BY <1>1
  <2>5. IsQuorum(p.configs, First(q, r))
    BY <1>2, <1>5, <2>1, <2>2, <2>3, <2>4, CentralQuorum
  <2>6. Stops(p, q, k, r)
    BY <1>5, <2>5 DEF Stops
  <2>7. PICK t \in k..r : Stops(p, q, k, t) /\ b = W(t)
    BY <1>1, <2>6, SearchFinds
  <2>8. W(t) > a
    BY <1>1, <2>7 DEF Stops
  <2> QED BY <2>7, <2>8
<1>6. ASSUME NEW j \in 1..n, IsCentre(p.configs, p.entries[j].id)
      PROVE  IF j = 1 THEN n >= 2 => w(2) <= a ELSE w(j) <= a
  BY <1>6 DEF CentreFirst
<1> HIDE DEF a, b, w, W, n
<1>7. ASSUME NEW y \in 1..n, IsCentre(p.configs, q.entries[y].id)
      PROVE  IF y = 1 THEN n >= 2 => W(2) <= b ELSE W(y) <= b
  <2> DEFINE c(j) == IsCentre(p.configs, p.entries[j].id)
  <2>1. CASE y = k
    <3>1. W(y) = v /\ c(i) /\ y \in Nat
      BY <1>1, <1>3, <1>7, <2>1
    <3>2. CASE k = 1 /\ i = 1 /\ n >= 2
      <4>1. w(2) <= a
        BY <1>1, <1>6, <3>1, <3>2
      <4>2. W(2) = w(2) /\ w(2) \in Nat
        BY <1>1, <1>2, <1>3, <3>2
      <4> QED BY <1>1, <1>4, <2>1, <3>2, <4>1, <4>2
    <3>3. CASE k = 1 /\ i >= 2 /\ n >= 2
      <4>1. W(2) = w(1) /\ w(1) \in Nat /\ w(1) < v /\ W(1) = v
        BY <1>1, <1>2, <1>3, <3>3
      <4>2. CASE w(1) <= a
        BY <1>1, <1>4, <2>1, <3>3, <4>1, <4>2
      <4>3. CASE w(1) > a
        <5>1. \A j \in 1..2 : W(j) > a
          <6>1. \A j \in 1..2 : j = 1 \/ j = 2
            OBVIOUS
          <6> QED BY <1>3, <4>1, <4>3, <6>1
        <5>2. PICK t \in 1..2 : b = W(t)
          BY <1>1, <1>5, <1>7, <2>1, <3>3, <5>1 DEF n
        <5>3. t = 1 \/ t = 2
          OBVIOUS
        <5>4. W(2) <= b
          BY <4>1, <5>2, <5>3
        <5> QED BY <2>1, <3>3, <5>4
      <4> QED BY <1>1, <4>1, <4>2, <4>3
    <3>4. CASE k >= 2
      <4>1. \A j \in k..k : W(j) > a
        <5>1. \A j \in k..k : j = k
          BY <1>1
        <5> QED BY <1>3, <2>1, <3>1, <5>1
      <4>2. PICK t \in k..k : b = W(t)
        <5>1. k \in k..n /\ y <= k
          BY <1>1, <2>1
        <5> QED BY <1>5, <1>7, <3>4, <4>1, <5>1 DEF n
      <4>3. t = y
        BY <1>1, <2>1
      <4> QED BY <2>1, <3>1, <3>4, <4>2, <4>3
    <3> QED BY <1>1, <2>1, <3>2, <3>3, <3>4
  <2>2. CASE y < k
    <3>1. c(y) /\ W(y) = w(y) /\ k >= 2 /\ n >= 2 /\ y \in Nat
      BY <1>1, <1>3, <1>7, <2>2
    <3>2. CASE y = 1 /\ k = 2
      <4>1. W(2) = v
        BY <1>1, <1>3, <3>2
      <4>2. \A j \in 2..2 : W(j) > a
        <5>1. \A j \in 2..2 : j = 2
          OBVIOUS
        <5> QED BY <1>3, <4>1, <5>1
      <4>3. PICK t \in 2..2 : b = W(t)
        <5>1. 2 \in 2..n
          BY <1>1, <3>1
        <5> QED BY <1>5, <1>7, <3>2, <4>2, <5>1 DEF n
      <4>4. t = 2
        OBVIOUS
      <4> QED BY <3>2, <4>1, <4>3, <4>4
    <3>3. CASE y = 1 /\ k > 2
      <4>1. w(2) <= a
        BY <1>6, <3>1, <3>3
      <4>2. W(2) = w(2) /\ w(2) \in Nat
        BY <1>1, <1>2, <1>3, <3>3
      <4> QED BY <1>1, <1>4, <3>3, <4>1, <4>2
    <3>4. CASE y > 1
      <4>1. w(y) <= a /\ w(y) \in Nat
        BY <1>2, <1>6, <3>1, <3>4
      <4> QED BY <1>1, <1>4, <3>1, <3>4, <4>1
    <3> QED BY <1>1, <2>2, <3>1, <3>2, <3>3, <3>4
  <2>3. CASE y > k /\ y <= i
    <3>1. y - 1 \in 1..n /\ c(y - 1) /\ W(y) = w(y - 1) /\ w(y - 1) \in Nat /\ y # 1
      <4>1. y - 1 \in 1..n /\ ~ (y < k) /\ y # k /\ y # 1
        BY <1>1, <2>3
      <4> QED BY <1>2, <1>3, <1>7, <2>3, <4>1
    <3>2. CASE y = 2
      <4>1. k = 1 /\ W(2) = w(1) /\ w(1) \in Nat /\ w(1) < v /\ W(1) = v /\ n >= 2
        BY <1>1, <1>2, <1>3, <2>3, <3>2
      <4>2. CASE w(1) <= a
        BY <1>1, <1>4, <3>2, <4>1, <4>2
      <4>3. CASE w(1) > a
        <5>1. \A j \in 1..2 : W(j) > a
          <6>1. \A j \in 1..2 : j = 1 \/ j = 2
            OBVIOUS
          <6> QED BY <1>3, <4>1, <4>3, <6>1
        <5>2. PICK t \in 1..2 : b = W(t)
          <6>1. 2 \in 1..n
            BY <1>1, <4>1
          <6> QED BY <1>5, <1>7, <3>2, <4>1, <5>1, <6>1 DEF n
        <5>3. t = 1 \/ t = 2
          OBVIOUS
        <5>4. W(2) <= b
          BY <4>1, <5>2, <5>3
        <5> QED BY <3>2, <5>4
      <4> QED BY <1>1, <4>1, <4>2, <4>3
    <3>3. CASE y > 2
      <4>1. w(y - 1) <= a
        <5>1. y - 1 # 1
          BY <1>1, <3>3
        <5> QED BY <1>6, <3>1, <5>1
      <4> QED BY <1>1, <1>4, <3>1, <4>1
    <3> QED BY <1>1, <2>3, <3>2, <3>3
  <2>4. CASE y > i
    <3>1. c(y) /\ W(y) = w(y) /\ w(y) \in Nat /\ y # 1
      <4>1. ~ (y < k) /\ y # k /\ ~ (y <= i) /\ y # 1
        BY <1>1, <2>4
      <4> QED BY <1>2, <1>3, <1>7, <4>1
    <3>2. w(y) <= a
      BY <1>6, <3>1
    <3> QED BY <1>1, <1>4, <3>1, <3>2
  <2> QED BY <1>1, <2>1, <2>2, <2>3, <2>4
<1>8. CentreFirst(q)
  BY <1>7 DEF CentreFirst, W, b, n
<1> QED BY <1>4, <1>8 DEF a, b

\* The values of a progress are numbers.
LEMMA ValuesAre ==
  ASSUME NEW p, IsProgress(p)
  PROVE  Len(p.entries) \in Nat /\ \A j \in 1..Len(p.entries) : p.entries[j].val \in Nat
<1>1. PICK U : p.entries \in Seq([id : U, val : Nat])
  BY DEF IsProgress
<1> DEFINE R == [id : U, val : Nat]
           s == p.entries
<1>2. s \in Seq(R)
  BY <1>1
<1> HIDE DEF R, s
<1>3. Len(s) \in Nat /\ \A j \in 1..Len(s) : s[j] \in R
  BY <1>2, LenProperties, ElementOfSeq
<1> QED BY <1>3 DEF R, s

\* A voter that makes a quorum with each of the two others is central.
LEMMA ThirdCentre ==
  ASSUME NEW p, IdsInv(p), p.voters = 3, p.voters \in 0..Len(p.entries),
         IsCentre(p.configs, p.entries[3].id),
         IsQuorum(p.configs, {p.entries[1].id, p.entries[2].id})
  PROVE  IsCentre(p.configs, p.entries[1].id)
<1> DEFINE d(j) == p.entries[j].id
           V == VoterIds(p.configs)
<1>1. /\ \A j \in 1..3 : d(j) \in V /\ \A x \in V : \E l \in 1..3 : d(l) = x
      /\ 1 \in 1..3 /\ 2 \in 1..3 /\ 3 \in 1..3
  BY DEF IdsInv
<1>2. d(1) # d(3)
  <2>1. 1 \in 1..Len(p.entries) /\ 3 \in 1..Len(p.entries)
    OBVIOUS
  <2>2. d(1) = d(3) => 1 = 3
    BY <2>1 DEF IdsInv
  <2> QED BY <2>2
<1>3. IsQuorum(p.configs, {d(3), d(1)})
  <2>1. d(1) \in V \ {d(3)}
    BY <1>1, <1>2
  <2> QED BY <2>1 DEF IsCentre
<1>4. {d(3), d(1)} = {d(1), d(3)}
  OBVIOUS
<1>5. IsQuorum(p.configs, {d(1), d(2)}) /\ IsQuorum(p.configs, {d(1), d(3)})
  BY <1>3, <1>4
<1> HIDE DEF d, V
<1>6. ASSUME NEW y \in V \ {d(1)} PROVE y = d(2) \/ y = d(3)
  <2>1. PICK l \in 1..3 : d(l) = y
    BY <1>1
  <2>2. l = 1 \/ l = 2 \/ l = 3
    OBVIOUS
  <2> QED BY <1>6, <2>1, <2>2
<1>7. ASSUME NEW y \in V \ {d(1)} PROVE IsQuorum(p.configs, {d(1), y})
  <2>1. CASE y = d(2)
    BY <1>5, <2>1
  <2>2. CASE y = d(3)
    BY <1>5, <2>2
  <2> QED BY <1>6, <2>1, <2>2
<1>8. d(1) \in V
  BY <1>1
<1> QED BY <1>7, <1>8 DEF IsCentre, d, V

\* What is found is accepted by a quorum.
LEMMA MovedAccepted ==
  ASSUME NEW p, NEW q, NEW i, NEW v \in Nat, NEW k, IsProgress(p), IsProgress(q), IdsInv(p),
         i \in 1..p.voters, CentreFirst(p), Accepted(p), PairsSuffice(p.configs),
         MovedTo(p, q, i, v, k), Searched(p, q, k),
         q.configs = p.configs, q.voters = p.voters, Len(q.entries) = Len(p.entries)
  PROVE  Accepted(q)
<1> DEFINE n == p.voters
           a == p.accepted
           b == q.accepted
           w(j) == p.entries[j].val
           W(j) == q.entries[j].val
           d(j) == p.entries[j].id
           D(j) == q.entries[j].id
           Quorum(S) == IsQuorum(p.configs, S)
           Central(x) == IsCentre(p.configs, x)
<1>1. /\ n \in Nat /\ i \in Nat /\ k \in Nat /\ 1 <= k /\ k <= i /\ i <= n /\ a \in Nat
      /\ n <= Len(p.entries) /\ Len(p.entries) \in Nat
  BY LenProperties DEF IsProgress, MovedTo
<1>2. IdsInv(q)
  BY MovedIds
<1>3. \A j \in 1..n : w(j) \in Nat /\ W(j) \in Nat
  BY <1>1, ValuesAre
<1>4. /\ v > a /\ w(i) <= a
      /\ k > 1 => w(k - 1) >= v
      /\ \A j \in k..(i - 1) : w(j) < v
      /\ \A j \in 1..n : W(j) = IF j < k THEN w(j) ELSE IF j = k THEN v
                                ELSE IF j <= i THEN w(j - 1) ELSE w(j)
      /\ \A j \in 1..n : D(j) = IF j < k THEN d(j) ELSE IF j = k THEN d(i)
                                ELSE IF j <= i THEN d(j - 1) ELSE d(j)
  <2>1. \A j \in 1..n : j \in 1..Len(p.entries)
    BY <1>1
  <2>2. v > a /\ w(i) <= a /\ (k > 1 => w(k - 1) >= v) /\ \A j \in k..(i - 1) : w(j) < v
    BY DEF MovedTo
  <2>3. ASSUME NEW j \in 1..n
        PROVE  W(j) = IF j < k THEN w(j) ELSE IF j = k THEN v ELSE IF j <= i THEN w(j - 1) ELSE w(j)
    BY <2>1 DEF MovedTo
  <2>4. ASSUME NEW j \in 1..n
        PROVE  D(j) = IF j < k THEN d(j) ELSE IF j = k THEN d(i) ELSE IF j <= i THEN d(j - 1) ELSE d(j)
    BY <2>1 DEF MovedTo
  <2> QED BY <2>2, <2>3, <2>4
<1>5. n <= 3 /\ \E c \in 1..n : Central(D(c))
  <2>1. PICK x \in VoterIds(q.configs) : Central(x)
    BY DEF PairsSuffice
  <2>2. PICK c \in 1..q.voters : q.entries[c].id = x
    BY <1>2 DEF IdsInv
  <2>3. n <= 3
    BY DEF PairsSuffice, IdsInv
  <2> QED BY <2>1, <2>2, <2>3
<1>6. ASSUME NEW j \in 1..n, Central(d(j))
      PROVE  IF j = 1 THEN n >= 2 => w(2) <= a ELSE w(j) <= a
  BY <1>6 DEF CentreFirst
<1>7. ASSUME NEW T, T \subseteq Granting(q, b), Quorum(T) PROVE Quorum(Granting(q, b))
  <2>1. \A c \in DOMAIN p.configs : IsFiniteSet(p.configs[c])
    BY DEF IdsInv
  <2> QED BY <1>7, <2>1, QuorumGrows
<1>8. ASSUME NEW y \in 1..n, NEW z \in 1..n, y # z, Central(D(y)), NEW S, D(y) \in S, D(z) \in S
      PROVE  Quorum(S)
  <2>1. q.voters \in 0..Len(q.entries)
    BY <1>1
  <2> QED BY <1>2, <1>8, <2>1, CentralQuorum
<1>9. ASSUME b = a, b > 0 PROVE Quorum(Granting(q, b))
  <2>1. Quorum(Granting(p, a))
    BY <1>9 DEF Accepted
  <2>2. ASSUME NEW x \in Granting(p, a) PROVE x \in Granting(q, b)
    <3>1. PICK l \in 1..n : w(l) >= a /\ d(l) = x
      BY DEF Granting
    <3>2. PICK j \in 1..n : D(j) = d(l) /\ W(j) >= a
      <4> DEFINE j == IF l < k THEN l ELSE IF l = i THEN k ELSE IF l < i THEN l + 1 ELSE l
      <4> HIDE DEF w, W, d, D, n, a
      <4>0. l \in Nat /\ l >= 1 /\ l <= n
        BY <1>1
      <4>1. CASE l < k
        <5>1. D(l) = d(l) /\ W(l) = w(l)
          BY <1>1, <1>4, <4>0, <4>1
        <5> QED BY <3>1, <5>1
      <4>2. CASE l = i
        <5>1. k \in 1..n /\ D(k) = d(i) /\ W(k) = v
          BY <1>1, <1>4, <4>0
        <5>2. v >= a
          BY <1>1, <1>4
        <5> QED BY <4>2, <5>1, <5>2
      <4>3. CASE k <= l /\ l < i
        <5>1. l + 1 \in 1..n /\ ~ (l + 1 < k) /\ l + 1 # k /\ l + 1 <= i /\ (l + 1) - 1 = l
          BY <1>1, <4>0, <4>3
        <5>2. D(l + 1) = d(l) /\ W(l + 1) = w(l)
          BY <1>4, <5>1
        <5> QED BY <3>1, <5>1, <5>2
      <4>4. CASE l > i
        <5>1. ~ (l < k) /\ l # k /\ ~ (l <= i)
          BY <1>1, <4>0, <4>4
        <5>2. D(l) = d(l) /\ W(l) = w(l)
          BY <1>4, <5>1
        <5> QED BY <3>1, <5>2
      <4> QED BY <1>1, <4>0, <4>1, <4>2, <4>3, <4>4
    <3> QED BY <1>9, <3>1, <3>2 DEF Granting
  <2>3. Granting(p, a) \subseteq Granting(q, b)
    BY <2>2
  <2> QED BY <1>9, <2>1, <2>3, <1>7
<1>10. ASSUME NEW r \in k..n, Stops(p, q, k, r), b = W(r), \A t \in k..(r - 1) : ~ Stops(p, q, k, t)
       PROVE  Quorum(Granting(q, b))
  <2>1. /\ Quorum(First(q, r)) /\ \A j \in k..r : W(j) > a
        /\ r \in 1..n /\ r \in Nat /\ r <= 3 /\ n <= 3
    BY <1>1, <1>5, <1>10 DEF Stops
  <2>2. ASSUME NEW t \in k..(r - 1) PROVE ~ Quorum(First(q, t))
    <3>1. ~ Stops(p, q, k, t)
      BY <1>10
    <3>2. t \in k..n /\ \A j \in k..t : j \in k..r
      BY <1>1, <2>1
    <3> QED BY <2>1, <3>1, <3>2 DEF Stops
  <2>3. ASSUME \A j \in 1..r : W(j) >= b PROVE Quorum(Granting(q, b))
    <3>1. First(q, r) \subseteq Granting(q, b)
      <4>1. \A j \in 1..r : j \in 1..n
        BY <1>1, <2>1
      <4> QED BY <2>3, <4>1 DEF First, Granting
    <3> QED BY <1>7, <2>1, <3>1
  <2>4. ASSUME NEW y \in 1..n, W(y) >= b PROVE D(y) \in Granting(q, b)
    BY <2>4 DEF Granting
  <2>5. \A t \in 1..n : \A j \in 1..t : D(j) \in First(q, t)
    BY DEF First
  <2>6. \A j \in 1..n : j \in Nat /\ (j = 1 \/ j = 2 \/ j = 3)
    BY <1>1, <2>1
  <2>7. PICK c \in 1..n : Central(D(c))
    BY <1>5
  <2> HIDE DEF a, b, w, W, d, D, Quorum, Central, n
  <2>8. CASE r = 1
    <3>1. \A j \in 1..r : j = r
      BY <2>8
    <3>2. \A j \in 1..r : W(j) >= b
      BY <1>3, <1>10, <2>1, <3>1
    <3> QED BY <2>3, <3>2
  <2>9. CASE r = 2
    <3>1. 1 \in 1..n /\ 2 \in 1..n /\ n >= 2 /\ (\A j \in 1..r : j = 1 \/ j = 2) /\ k \in {1, 2}
      BY <1>1, <2>1, <2>9
    <3>2. ASSUME W(1) >= W(2) PROVE Quorum(Granting(q, b))
      <4>1. \A j \in 1..r : W(j) >= b
        BY <1>3, <1>10, <2>9, <3>1, <3>2
      <4> QED BY <2>3, <4>1
    <3>3. CASE k = 2
      <4>1. W(1) = w(1) /\ W(2) = v /\ w(1) >= v
        BY <1>4, <3>1, <3>3
      <4> QED BY <3>2, <4>1
    <3>4. CASE k = 1 /\ i >= 2
      <4>1. W(1) = v /\ W(2) = w(1) /\ w(1) < v
        BY <1>1, <1>4, <3>1, <3>4
      <4> QED BY <1>3, <3>1, <3>2, <4>1
    <3>5. CASE k = 1 /\ i = 1
      <4>1. W(2) = w(2) /\ w(2) > a /\ \A j \in 1..n : D(j) = d(j)
        <5>1. \A j \in 1..n : j = 1 \/ (~ (j < k) /\ j # k /\ ~ (j <= i))
          BY <2>6, <3>5
        <5>2. \A j \in 1..n : D(j) = d(j)
          BY <1>4, <3>5, <5>1
        <5>3. W(2) = w(2) /\ 2 \in k..r
          BY <1>4, <2>9, <3>1, <3>5
        <5>4. W(2) > a
          BY <2>1, <5>3
        <5> QED BY <5>2, <5>3, <5>4
      <4>2. ~ (w(2) <= a)
        BY <1>1, <1>3, <3>1, <4>1
      <4>3. Central(d(c))
        BY <2>7, <4>1
      <4>4. c # 1 /\ c # 2
        BY <1>6, <3>1, <4>2, <4>3
      <4>5. c = 3 /\ n = 3
        BY <1>1, <2>1, <2>6, <4>4
      <4>6. Quorum({d(1), d(2)})
        <5>1. First(q, 2) = {D(1), D(2)}
          <6>1. 1..2 = {1, 2}
            OBVIOUS
          <6> QED BY <6>1 DEF First, D
        <5> QED BY <2>1, <2>9, <3>1, <4>1, <5>1
      <4>7. Central(d(1))
        <5>1. IsCentre(p.configs, p.entries[3].id) /\ IsQuorum(p.configs, {p.entries[1].id, p.entries[2].id})
          BY <4>3, <4>5, <4>6 DEF Central, Quorum, d
        <5>2. p.voters = 3 /\ p.voters \in 0..Len(p.entries)
          BY <1>1, <4>5 DEF n
        <5>3. IsCentre(p.configs, p.entries[1].id)
          BY <5>1, <5>2, ThirdCentre
        <5> QED BY <5>3 DEF Central, d
      <4> QED BY <1>6, <3>1, <4>2, <4>7
    <3> QED BY <1>1, <3>1, <3>3, <3>4, <3>5
  <2>10. CASE r = 3
    <3>1. 1 \in 1..n /\ 2 \in 1..n /\ 3 \in 1..n /\ n = 3 /\ k \in {1, 2, 3} /\ i \in {1, 2, 3}
      BY <1>1, <2>1, <2>10
    <3>2. CASE k = 3
      <4>1. W(3) = v /\ w(2) >= v /\ W(2) = w(2) /\ D(1) = d(1) /\ D(2) = d(2)
        BY <1>4, <3>1, <3>2
      <4>2. ~ (w(2) <= a)
        BY <1>1, <1>3, <1>4, <3>1, <4>1
      <4>3. c # 1 /\ c # 2
        BY <1>6, <2>7, <3>1, <4>1, <4>2
      <4>4. c = 3
        BY <2>6, <4>3
      <4>5. W(2) >= b /\ W(3) >= b
        BY <1>3, <1>10, <2>10, <3>1, <4>1
      <4>6. D(2) \in Granting(q, b) /\ D(3) \in Granting(q, b)
        BY <2>4, <3>1, <4>5
      <4> QED BY <1>8, <2>7, <3>1, <4>4, <4>6
    <3>3. CASE k <= 2
      <4>1. ~ Quorum(First(q, 2))
        <5>1. 2 \in k..(r - 1)
          BY <2>10, <3>1, <3>3
        <5> QED BY <2>2, <5>1
      <4>2. c # 1 /\ c # 2
        <5>1. D(1) \in First(q, 2) /\ D(2) \in First(q, 2)
          BY <2>5, <3>1
        <5> QED BY <1>8, <2>7, <3>1, <4>1, <5>1
      <4>3. c = 3
        BY <2>6, <4>2
      <4>4. W(3) > a
        BY <1>1, <2>1, <2>10
      <4>5. CASE i = 3
        <5>1. W(3) = w(2) /\ D(3) = d(2)
          BY <1>4, <3>1, <3>3, <4>5
        <5>2. w(2) <= a
          BY <1>6, <2>7, <3>1, <4>3, <5>1
        <5> QED BY <1>1, <1>3, <3>1, <4>4, <5>1, <5>2
      <4>6. CASE i <= 2
        <5>1. W(3) = w(3) /\ D(3) = d(3)
          BY <1>4, <3>1, <3>3, <4>6
        <5>2. w(3) <= a
          BY <1>6, <2>7, <3>1, <4>3, <5>1
        <5> QED BY <1>1, <1>3, <3>1, <4>4, <5>1, <5>2
      <4> QED BY <3>1, <4>5, <4>6
    <3> QED BY <3>1, <3>2, <3>3
  <2> QED BY <2>1, <2>6, <2>8, <2>9, <2>10
<1>11. b > 0 => Quorum(Granting(q, b))
  <2>1. CASE b = a
    BY <1>9, <2>1
  <2>2. CASE b # a
    <3>1. PICK r \in k..n : /\ Stops(p, q, k, r) /\ b = W(r)
                            /\ \A t \in k..(r - 1) : ~ Stops(p, q, k, t)
      BY <2>2 DEF Searched
    <3> QED BY <1>10, <3>1
  <2> QED BY <2>1, <2>2
<1> QED BY <1>11 DEF Accepted

\* A value that grows without crossing the accepted one.
LEMMA ReplacedKeeps ==
  ASSUME NEW p, NEW q, NEW i \in 1..Len(p.entries), NEW v \in Nat, AcceptInv(p), IsProgress(q),
         Replaced(p, q, i, v), v >= p.entries[i].val,
         q.configs = p.configs, q.voters = p.voters, Len(q.entries) = Len(p.entries)
  PROVE  AcceptInv(q)
<1> DEFINE n == p.voters
           a == p.accepted
           w(j) == p.entries[j].val
           W(j) == q.entries[j].val
<1>1. /\ n \in Nat /\ n <= Len(p.entries) /\ Len(p.entries) \in Nat /\ a \in Nat /\ i \in Nat
      /\ \A j \in 1..Len(p.entries) : w(j) \in Nat
      /\ \A j \in 1..n : j \in 1..Len(p.entries) /\ j \in Nat
  <2>1. IsProgress(p)
    BY DEF AcceptInv
  <2>2. Len(p.entries) \in Nat /\ \A j \in 1..Len(p.entries) : w(j) \in Nat
    BY <2>1, ValuesAre
  <2>3. n \in Nat /\ n <= Len(p.entries) /\ a \in Nat
    BY <2>1, <2>2 DEF IsProgress
  <2> QED BY <2>2, <2>3
<1>2. /\ q.accepted = a
      /\ \A j \in 1..Len(p.entries) : /\ q.entries[j].id = p.entries[j].id
                                      /\ W(j) = IF j = i THEN v ELSE w(j)
      /\ ~ (i <= n /\ w(i) <= a /\ v > a)
  BY DEF Replaced
<1>3. IdsInv(p) /\ CentreFirst(p) /\ Accepted(p)
  BY DEF AcceptInv
<1>4. IdsInv(q)
  <2>1. \A j, l \in 1..Len(q.entries) : q.entries[j].id = q.entries[l].id => j = l
    BY <1>2, <1>3 DEF IdsInv
  <2>2. \A j \in 1..n : q.entries[j].id = p.entries[j].id
    BY <1>1, <1>2
  <2>3. /\ \A j \in 1..n : q.entries[j].id \in VoterIds(p.configs)
        /\ \A x \in VoterIds(p.configs) : \E j \in 1..n : q.entries[j].id = x
    BY <1>3, <2>2 DEF IdsInv
  <2>4. n = Cardinality(VoterIds(p.configs)) /\ \A j \in DOMAIN p.configs : IsFiniteSet(p.configs[j])
    BY <1>3 DEF IdsInv
  <2> QED BY <2>1, <2>3, <2>4 DEF IdsInv
<1>5. Accepted(q)
  <2>1. SUFFICES ASSUME a > 0 PROVE IsQuorum(p.configs, Granting(q, a))
    BY <1>2 DEF Accepted
  <2>2. IsQuorum(p.configs, Granting(p, a))
    BY <1>3, <2>1 DEF Accepted
  <2>3. ASSUME NEW x \in Granting(p, a) PROVE x \in Granting(q, a)
    <3>1. PICK j \in 1..n : w(j) >= a /\ p.entries[j].id = x
      BY DEF Granting
    <3>2. W(j) >= w(j)
      BY <1>1, <1>2
    <3>3. W(j) >= a /\ q.entries[j].id = x
      <4>1. j \in 1..Len(p.entries) /\ w(j) \in Nat
        BY <1>1
      <4>2. W(j) \in Nat
        BY <1>2, <4>1
      <4> HIDE DEF w, W
      <4> QED BY <1>1, <1>2, <3>1, <3>2, <4>1, <4>2
    <3> QED BY <3>3 DEF Granting
  <2>4. Granting(p, a) \subseteq Granting(q, a)
    BY <2>3
  <2>5. \A j \in DOMAIN p.configs : IsFiniteSet(p.configs[j])
    BY <1>3 DEF IdsInv
  <2> QED BY <2>2, <2>4, <2>5, QuorumGrows
<1>6. CentreFirst(q)
  <2>1. ASSUME NEW j \in 1..n, w(j) <= a PROVE W(j) <= a
    <3>1. j \in 1..Len(p.entries)
      BY <1>1
    <3>2. CASE j = i
      <4>1. W(j) = v /\ i <= n
        BY <1>1, <1>2, <3>1, <3>2
      <4> QED BY <1>1, <1>2, <2>1, <3>2, <4>1
    <3>3. CASE j # i
      BY <1>2, <2>1, <3>1, <3>3
    <3> QED BY <3>2, <3>3
  <2>2. ASSUME NEW j \in 1..n, IsCentre(p.configs, q.entries[j].id)
        PROVE  IF j = 1 THEN n >= 2 => W(2) <= a ELSE W(j) <= a
    <3>1. IsCentre(p.configs, p.entries[j].id)
      BY <1>1, <1>2, <2>2
    <3>2. IF j = 1 THEN n >= 2 => w(2) <= a ELSE w(j) <= a
      BY <1>3, <3>1 DEF CentreFirst
    <3>3. n >= 2 => 2 \in 1..n
      BY <1>1
    <3> HIDE DEF w, W, n, a
    <3>4. CASE j = 1
      BY <2>1, <3>2, <3>3, <3>4
    <3>5. CASE j # 1
      BY <2>1, <3>2, <3>5
    <3> QED BY <3>4, <3>5
  <2> QED BY <1>2, <2>2 DEF CentreFirst
<1> QED BY <1>4, <1>5, <1>6 DEF AcceptInv

\* A progress whose values are 0 or those of the first k entries of another.
Taken(x, p, k) ==
  \A j \in 1..Len(x.entries) :
    \/ x.entries[j].val = 0
    \/ \E l \in 1..k : /\ p.entries[l].id = x.entries[j].id
                       /\ p.entries[l].val = x.entries[j].val

\* An update with a greater value, where some voter makes a quorum with any
\* other: a quorum holds what is accepted.
LEMMA UpdateAccepts ==
  ASSUME NEW p, AcceptInv(p), PairsSuffice(p.configs), NEW id \in Tracked(p), NEW v \in Nat,
         v >= ValueOf(p, id)
  PROVE  LET q == UpdateWith(p, id, v)
         IN  /\ AcceptInv(q) /\ q.configs = p.configs
             /\ \A j \in 1..Len(q.entries) :
                  \/ q.entries[j].id = id /\ q.entries[j].val = v
                  \/ \E l \in 1..Len(p.entries) : /\ p.entries[l].id = q.entries[j].id
                                                  /\ p.entries[l].val = q.entries[j].val
<1> DEFINE q == UpdateWith(p, id, v)
           i == IndexOf(p, id)
           Goal == \A j \in 1..Len(q.entries) :
                     \/ q.entries[j].id = id /\ q.entries[j].val = v
                     \/ \E l \in 1..Len(p.entries) : /\ p.entries[l].id = q.entries[j].id
                                                     /\ p.entries[l].val = q.entries[j].val
<1>1. IsProgress(p) /\ IdsInv(p) /\ CentreFirst(p) /\ Accepted(p)
  BY DEF AcceptInv
<1>2. IsProgress(q)
  BY <1>1, UpdateWithType
<1>3. i \in 1..Len(p.entries) /\ p.entries[i].id = id /\ Updated(p, q, i, v) /\ v >= p.entries[i].val
  BY <1>1, UpdateIs DEF ValueOf
<1> HIDE DEF q, i
<1>4. q.configs = p.configs /\ q.voters = p.voters /\ Len(q.entries) = Len(p.entries)
  BY <1>3 DEF Updated
<1>5. CASE Replaced(p, q, i, v)
  <2>1. AcceptInv(q)
    BY <1>2, <1>3, <1>4, <1>5, ReplacedKeeps
  <2>2. Goal
    BY <1>3, <1>4, <1>5 DEF Replaced
  <2> QED BY <1>4, <2>1, <2>2 DEF q
<1>6. CASE \E k \in 1..i : MovedTo(p, q, i, v, k) /\ Searched(p, q, k)
  <2>1. PICK k \in 1..i : MovedTo(p, q, i, v, k) /\ Searched(p, q, k)
    BY <1>6
  <2>2. i \in 1..p.voters
    BY <1>3, <2>1 DEF MovedTo
  <2>3. IdsInv(q)
    BY <1>1, <1>4, <2>1, <2>2, MovedIds
  <2>4. CentreFirst(q)
    BY <1>1, <1>4, <2>1, <2>2, MovedCentre
  <2>5. Accepted(q)
    BY <1>1, <1>2, <1>4, <2>1, <2>2, MovedAccepted
  <2>6. AcceptInv(q)
    BY <1>2, <2>3, <2>4, <2>5 DEF AcceptInv
  <2>7. Goal
    <3>1. Placed(p, q, i, v, k)
      BY <1>1, <1>4, <2>1, <2>2, MovedIds
    <3>2. ASSUME NEW j \in 1..Len(q.entries)
          PROVE  \/ q.entries[j].id = id /\ q.entries[j].val = v
                 \/ \E l \in 1..Len(p.entries) : /\ p.entries[l].id = q.entries[j].id
                                                 /\ p.entries[l].val = q.entries[j].val
      <4> DEFINE o == Before(i, k, j)
      <4>1. /\ o \in 1..Len(p.entries)
            /\ q.entries[j].id = p.entries[o].id
            /\ q.entries[j].val = IF o = i THEN v ELSE p.entries[o].val
        BY <1>4, <3>1 DEF Placed
      <4> HIDE DEF o
      <4> QED BY <1>3, <4>1
    <3> QED BY <3>2
  <2> QED BY <1>4, <2>6, <2>7 DEF q
<1> QED BY <1>3, <1>5, <1>6 DEF Updated

\* The progress that a change of the quorum set makes.
LEMMA UpgradeAccepts ==
  ASSUME NEW p, IsProgress(p), IdsInv(p), NEW m, IsMembership(m), PairsSuffice(m.configs)
  PROVE  LET q == UpgradeQuorumSet(p, m)
         IN  AcceptInv(q) /\ q.configs = m.configs /\ Taken(q, p, Len(p.entries))
<1> DEFINE n == Len(p.entries)
           put == CHOOSE f : Put(f, p, m, Len(p.entries))
<1>1. n \in Nat /\ \A i \in 1..n : p.entries[i].val \in Nat
  BY ValuesAre
<1>2. Put(put, p, m, n)
  <2>1. \E f : Put(f, p, m, Len(p.entries))
    BY <1>1, PutExists
  <2> QED BY <2>1, Zenon
<1>3. UpgradeQuorumSet(p, m) = put[n]
  BY Zenon DEF UpgradeQuorumSet, Put
<1> HIDE DEF put, n
<1> DEFINE Good(x, k) == AcceptInv(x) /\ x.configs = m.configs /\ Taken(x, p, k)
           S == {k \in 0..n : Good(put[k], k)}
<1>4. 0 \in S
  <2>1. put[0] = NewProgress(m)
    BY <1>1, <1>2 DEF Put
  <2>2. AcceptInv(NewProgress(m)) /\ NewProgress(m).configs = m.configs
        /\ \A i \in 1..Len(NewProgress(m).entries) : NewProgress(m).entries[i].val = 0
    BY NewProgressIs
  <2>3. Taken(NewProgress(m), p, 0)
    BY <2>2 DEF Taken
  <2> QED BY <1>1, <2>1, <2>2, <2>3
<1>5. ASSUME NEW k \in 0..n, k \in S, k < n PROVE k + 1 \in S
  <2> DEFINE x == put[k]
             id == p.entries[k + 1].id
             v == p.entries[k + 1].val
             q == UpdateWith(x, id, v)
  <2>1. k \in Nat /\ k + 1 \in 1..n /\ k + 1 \in 0..n /\ v \in Nat
    BY <1>1, <1>5
  <2>2. put[k + 1] = q
    BY <1>1, <1>2, <2>1 DEF Put
  <2>3. AcceptInv(x) /\ x.configs = m.configs /\ Taken(x, p, k)
    BY <1>5
  <2> HIDE DEF q, x, v, id
  <2>4. CASE id \notin Tracked(x)
    <3>1. q = x
      BY <2>4 DEF UpdateWith, q
    <3>2. Taken(x, p, k + 1)
      <4>1. \A l \in 1..k : l \in 1..(k + 1)
        BY <2>1
      <4> QED BY <2>3, <4>1 DEF Taken
    <3> QED BY <2>1, <2>2, <2>3, <3>1, <3>2
  <2>5. CASE id \in Tracked(x)
    <3> DEFINE i == IndexOf(x, id)
    <3>1. IsProgress(x)
      BY <2>3 DEF AcceptInv
    <3>2. i \in 1..Len(x.entries) /\ x.entries[i].id = id
      BY <2>1, <2>5, <3>1, UpdateIs
    <3> HIDE DEF i
    <3>3. x.entries[i].val = 0
      <4>1. SUFFICES ASSUME NEW l \in 1..k, p.entries[l].id = x.entries[i].id PROVE FALSE
        BY <2>3, <3>2 DEF Taken
      <4>2. l \in 1..n /\ l # k + 1
        BY <1>1, <2>1, <4>1
      <4> QED BY <2>1, <3>2, <4>1, <4>2 DEF IdsInv, n, id
    <3>4. v >= ValueOf(x, id)
      BY <2>1, <3>3 DEF ValueOf, i
    <3>5. /\ AcceptInv(q) /\ q.configs = x.configs
          /\ \A j \in 1..Len(q.entries) :
               \/ q.entries[j].id = id /\ q.entries[j].val = v
               \/ \E l \in 1..Len(x.entries) : /\ x.entries[l].id = q.entries[j].id
                                               /\ x.entries[l].val = q.entries[j].val
      BY <2>1, <2>3, <2>5, <3>4, UpdateAccepts DEF q
    <3>6. ASSUME NEW j \in 1..Len(q.entries)
          PROVE  \/ q.entries[j].val = 0
                 \/ \E l \in 1..(k + 1) : /\ p.entries[l].id = q.entries[j].id
                                          /\ p.entries[l].val = q.entries[j].val
      <4>1. CASE q.entries[j].id = id /\ q.entries[j].val = v
        <5>1. k + 1 \in 1..(k + 1)
          BY <2>1
        <5> QED BY <4>1, <5>1 DEF id, v
      <4>2. CASE \E l \in 1..Len(x.entries) : /\ x.entries[l].id = q.entries[j].id
                                              /\ x.entries[l].val = q.entries[j].val
        <5>1. PICK l \in 1..Len(x.entries) : /\ x.entries[l].id = q.entries[j].id
                                             /\ x.entries[l].val = q.entries[j].val
          BY <4>2
        <5>2. \/ x.entries[l].val = 0
              \/ \E t \in 1..k : p.entries[t].id = x.entries[l].id /\ p.entries[t].val = x.entries[l].val
          BY <2>3 DEF Taken
        <5>3. \A t \in 1..k : t \in 1..(k + 1)
          BY <2>1
        <5> QED BY <5>1, <5>2, <5>3
      <4> QED BY <3>5, <4>1, <4>2
    <3>7. Taken(q, p, k + 1)
      BY <3>6 DEF Taken
    <3> QED BY <2>1, <2>2, <2>3, <3>5, <3>7
  <2> QED BY <2>4, <2>5
<1>6. n \in S
  <2> HIDE DEF S
  <2>1. n \in Nat
    BY <1>1
  <2>2. \A k \in 0..n : k \in S /\ k < n => k + 1 \in S
    BY <1>5
  <2>3. \A k \in 0..n : k \in S
    BY <1>4, <2>1, <2>2, Induct
  <2> QED BY <2>1, <2>3
<1> QED BY <1>3, <1>6 DEF n
----------------------------------------------------------------------------
(* What is held of what is committed.                                      *)

\* Quorums of one config meet those of the other.
Meets(cs, ds) == \A Q, R : (Q \cap R = {} /\ IsQuorum(cs, Q)) => ~ IsQuorum(ds, R)

Holders(i) == {n \in Node : held[n] >= i}

\* Both progresses are those of the effective membership.
ProgressInv ==
  /\ AcceptInv(progress) /\ progress.configs = mem.effective.m.configs
  /\ AcceptInv(clock) /\ clock.configs = mem.effective.m.configs

\* A node holds what it acknowledged.
HeldInv ==
  /\ held \in [Node -> Nat]
  /\ \A j \in 1..Len(progress.entries) :
       progress.entries[j].val > 0 =>
         /\ progress.entries[j].id \in Node
         /\ held[progress.entries[j].id] >= progress.entries[j].val

\* The two memberships overlap, and are one when their entries are.
PairInv ==
  /\ IsMembership(mem.committed.m)
  /\ Meets(mem.committed.m.configs, mem.effective.m.configs)
  /\ mem.effective.at = mem.committed.at => mem.effective.m = mem.committed.m

\* A quorum of one of them holds what is committed.
CommittedHeld ==
  \E em \in {mem.committed, mem.effective} : IsQuorum(em.m.configs, Holders(committed))

AccInv == ProgressInv /\ HeldInv /\ PairInv /\ CommittedHeld /\ now \in Nat

\* Configs with a set in common overlap.
LEMMA SharedMeets ==
  ASSUME NEW m, IsMembership(m), NEW cs, ToSet(cs) \cap ToSet(m.configs) # {}
  PROVE  Meets(cs, m.configs)
<1>1. SUFFICES ASSUME NEW Q, NEW R, Q \cap R = {}, IsQuorum(cs, Q), IsQuorum(m.configs, R)
               PROVE  FALSE
  BY DEF Meets
<1>2. PICK c : c \in ToSet(cs) /\ c \in ToSet(m.configs)
  OBVIOUS
<1>3. PICK i \in DOMAIN cs : cs[i] = c
  BY <1>2 DEF ToSet
<1>4. PICK j \in DOMAIN m.configs : m.configs[j] = c
  BY <1>2 DEF ToSet
<1>5. IsMajority(c, Q) /\ IsMajority(c, R) /\ IsFiniteSet(c)
  BY <1>1, <1>3, <1>4 DEF IsQuorum, IsMembership
<1> QED BY <1>1, <1>5, MajoritiesMeet

\* A membership overlaps itself.
LEMMA SelfMeets ==
  ASSUME NEW m, IsMembership(m)
  PROVE  Meets(m.configs, m.configs)
<1> DEFINE c == m.configs
<1>1. c \in Seq(SUBSET Nat) /\ Len(c) \in 1..2
  BY DEF IsMembership
<1> HIDE DEF c
<1>2. 1 \in DOMAIN c
  BY <1>1
<1>3. c[1] \in ToSet(c)
  BY <1>2 DEF ToSet
<1>4. ToSet(c) \cap ToSet(c) # {}
  BY <1>3
<1> QED BY <1>4, SharedMeets DEF c

\* A new leader has heard of nobody.
LEMMA AccStart ==
  ASSUME Init
  PROVE  AccInv
<1>1. PICK i \in InitMembers :
        /\ mem = [committed |-> [at |-> 1, m |-> i.committed],
                  effective |-> IF i.effective = i.committed THEN [at |-> 1, m |-> i.committed]
                                ELSE [at |-> Inherited, m |-> i.effective]]
        /\ held \in [Node -> {0, 1, Inherited}]
        /\ IsQuorum(i.committed.configs, {n \in Node : held[n] >= 1})
        /\ progress = NewProgress(i.effective) /\ clock = progress
  BY DEF Init
<1>2. committed = 1 /\ now = 0
  BY DEF Init
<1>3. /\ Inherited \in Nat /\ IsMembership(i.committed) /\ IsMembership(i.effective)
      /\ i.effective # i.committed => Inherited > 1
      /\ ToSet(i.committed.configs) \cap ToSet(i.effective.configs) # {}
  <2>1. Inherited \in Nat \ {0}
    BY LeaderAssumption, Zenon
  <2>2. /\ IsMembership(i.committed) /\ IsMembership(i.effective)
        /\ i.effective # i.committed => Inherited > 1
        /\ ToSet(i.committed.configs) \cap ToSet(i.effective.configs) # {}
    BY LeaderAssumption, Zenon
  <2> QED BY <2>1, <2>2
<1>4. /\ mem.committed.at = 1 /\ mem.committed.m = i.committed
      /\ mem.effective.at = IF i.effective = i.committed THEN 1 ELSE Inherited
      /\ mem.effective.m = i.effective
  BY <1>1
<1>5. /\ AcceptInv(progress) /\ progress.configs = i.effective.configs
      /\ \A j \in 1..Len(progress.entries) : progress.entries[j].val = 0
  BY <1>1, <1>3, NewProgressIs
<1>6. ProgressInv
  BY <1>1, <1>4, <1>5 DEF ProgressInv
<1>7. HeldInv
  <2>1. held \in [Node -> Nat]
    BY <1>1, <1>3
  <2>2. \A j \in 1..Len(progress.entries) : ~ (progress.entries[j].val > 0)
    BY <1>5
  <2> QED BY <2>1, <2>2 DEF HeldInv
<1>8. PairInv
  <2>1. Meets(i.committed.configs, i.effective.configs)
    BY <1>3, SharedMeets
  <2>2. mem.effective.at = mem.committed.at => mem.effective.m = mem.committed.m
    BY <1>3, <1>4
  <2> QED BY <1>3, <1>4, <2>1, <2>2 DEF PairInv
<1>9. CommittedHeld
  BY <1>1, <1>2, <1>4 DEF CommittedHeld, Holders
<1> QED BY <1>2, <1>6, <1>7, <1>8, <1>9 DEF AccInv

\* An accepted request for a membership.
LEMMA AccChange ==
  ASSUME LeaderInv, LeaderInv', AccInv, SmallQuorums', NEW c \in Client, NEW req,
         IsRequest(req.change), NEW to, ChangeMembership(c, req, to)
  PROVE  AccInv'
<1> DEFINE m == Change(mem.effective.m, req.change, req.retain)
<1>1. /\ LogInv /\ IsMembership(mem.effective.m) /\ mem.effective.at \in 1..Len(log)
      /\ IsMembership(m) /\ Meets(mem.effective.m.configs, m.configs)
      /\ UNCHANGED <<committed, held, now>>
  <2>1. LogInv /\ IsMembership(mem.effective.m) /\ mem.effective.at \in 1..Len(log)
    BY DEF LeaderInv, MemInv
  <2>2. IsMembership(m) /\ Meets(mem.effective.m.configs, m.configs)
    BY <2>1, ChangeIs DEF Meets
  <2> QED BY <2>1, <2>2 DEF ChangeMembership
<1>2. CASE Accepts(req, m) /\ leading = "leader" /\ ~transfer
  <2>1. LeaderAppend(m) /\ EnsureCommitted(mem)
    BY <1>2 DEF ChangeMembership, Accepts
  <2> HIDE DEF m
  <2>2. /\ progress' = UpgradeQuorumSet(progress, m) /\ clock' = UpgradeQuorumSet(clock, m)
        /\ mem' = [committed |-> mem.effective, effective |-> [at |-> Len(log) + 1, m |-> m]]
    BY <1>1, <2>1, NotNormal DEF LeaderAppend, LeaderAppendMembership, RebuildProgresses,
                                 AppendMembership, LastIndex
  <2>3. mem'.committed = mem.effective /\ mem'.effective.at = Len(log) + 1 /\ mem'.effective.m = m
    BY <2>2
  <2>4. mem.effective.m = mem.committed.m
    BY <2>1 DEF AccInv, PairInv, EnsureCommitted
  <2>5. PairsSuffice(m.configs)
    <3>1. PairsSuffice(mem'.effective.m.configs)
      BY DEF SmallQuorums
    <3> QED BY <2>3, <3>1
  <2>6. IsProgress(progress) /\ IdsInv(progress) /\ IsProgress(clock) /\ IdsInv(clock)
    BY DEF AccInv, ProgressInv, AcceptInv
  <2>7. /\ AcceptInv(progress') /\ progress'.configs = m.configs
        /\ Taken(progress', progress, Len(progress.entries))
    BY <1>1, <2>2, <2>5, <2>6, UpgradeAccepts
  <2>8. AcceptInv(clock') /\ clock'.configs = m.configs
    BY <1>1, <2>2, <2>5, <2>6, UpgradeAccepts
  <2>9. ProgressInv'
    BY <2>3, <2>7, <2>8 DEF ProgressInv
  <2>10. HeldInv'
    <3>1. ASSUME NEW j \in 1..Len(progress'.entries), progress'.entries[j].val > 0
          PROVE  /\ progress'.entries[j].id \in Node
                 /\ held[progress'.entries[j].id] >= progress'.entries[j].val
      <4>1. PICK l \in 1..Len(progress.entries) :
              /\ progress.entries[l].id = progress'.entries[j].id
              /\ progress.entries[l].val = progress'.entries[j].val
        <5>1. ~ (progress'.entries[j].val = 0)
          BY <3>1
        <5> QED BY <2>7, <5>1 DEF Taken
      <4> QED BY <3>1, <4>1 DEF AccInv, HeldInv
    <3> QED BY <1>1, <3>1 DEF AccInv, HeldInv
  <2>11. PairInv'
    <3>1. Len(log) \in Nat
      BY <1>1, LenProperties DEF LogInv
    <3>2. mem'.effective.at # mem'.committed.at
      BY <1>1, <2>3, <3>1
    <3> QED BY <1>1, <2>3, <3>2 DEF PairInv
  <2>12. CommittedHeld'
    <3>1. IsQuorum(mem.effective.m.configs, Holders(committed))
      BY <2>4 DEF AccInv, CommittedHeld
    <3>2. Holders(committed)' = Holders(committed)
      BY <1>1 DEF Holders
    <3>3. IsQuorum(mem'.committed.m.configs, Holders(committed)')
      BY <2>3, <3>1, <3>2
    <3> QED BY <3>3 DEF CommittedHeld
  <2> QED BY <1>1, <2>9, <2>10, <2>11, <2>12 DEF AccInv
<1>3. CASE ~ (Accepts(req, m) /\ leading = "leader" /\ ~transfer)
  <2>1. UNCHANGED <<mem, progress, clock>>
    BY <1>3 DEF ChangeMembership
  <2> QED BY <1>1, <2>1 DEF AccInv, ProgressInv, HeldInv, PairInv, CommittedHeld, Holders
<1> QED BY <1>2, <1>3

\* What a node acknowledged, it holds, and what is committed with it is held by
\* a quorum of the effective membership.
LEMMA AccMatching ==
  ASSUME LeaderInv, AccInv, SmallQuorums, NEW n \in Node, n \in Tracked(progress), NEW i \in Nat,
         i >= ValueOf(progress, n), UpdateMatching(n, i), Holds(n, i), UNCHANGED <<clock, now>>
  PROVE  AccInv'
<1> DEFINE p == UpdateWith(progress, n, i)
<1>1. /\ IsMembership(mem.effective.m) /\ mem = [committed |-> mem.committed, effective |-> mem.effective]
      /\ committed \in Nat
      /\ ProgressInv /\ HeldInv /\ PairInv /\ CommittedHeld /\ now \in Nat
  BY DEF LeaderInv, MemInv, AccInv
<1>2. progress' = p /\ TryCommit(p.accepted, mem)
  BY DEF UpdateMatching
<1>3. /\ AcceptInv(p) /\ p.configs = mem.effective.m.configs
      /\ \A j \in 1..Len(p.entries) :
           \/ p.entries[j].id = n /\ p.entries[j].val = i
           \/ \E l \in 1..Len(progress.entries) : /\ progress.entries[l].id = p.entries[j].id
                                                  /\ progress.entries[l].val = p.entries[j].val
  <2>1. AcceptInv(progress) /\ PairsSuffice(progress.configs) /\ progress.configs = mem.effective.m.configs
    BY <1>1 DEF ProgressInv, SmallQuorums
  <2>2. /\ AcceptInv(p) /\ p.configs = progress.configs
        /\ \A j \in 1..Len(p.entries) :
             \/ p.entries[j].id = n /\ p.entries[j].val = i
             \/ \E l \in 1..Len(progress.entries) : /\ progress.entries[l].id = p.entries[j].id
                                                    /\ progress.entries[l].val = p.entries[j].val
    BY <2>1, UpdateAccepts
  <2> QED BY <2>1, <2>2
<1> HIDE DEF p
<1>4. /\ held' \in [Node -> Nat] /\ held'[n] >= i
      /\ \A x \in Node : held[x] \in Nat /\ held'[x] \in Nat /\ held'[x] >= held[x]
  BY <1>1 DEF HeldInv, Holds
<1>5. p.accepted \in Nat /\ IsProgress(p) /\ \A j \in 1..Len(p.entries) : p.entries[j].val \in Nat
  BY <1>3, ValuesAre DEF AcceptInv, IsProgress
<1>6. /\ mem'.effective = mem.effective
      /\ \/ mem'.committed = mem.committed /\ committed' = committed
         \/ /\ mem'.committed = mem.committed \/ mem'.committed = mem.effective
            /\ committed' = p.accepted /\ p.accepted > 0
  <2>1. [mem EXCEPT !.committed = mem.effective]
          = [committed |-> mem.effective, effective |-> mem.effective]
    BY <1>1
  <2>2. CASE p.accepted > Inherited /\ p.accepted > committed
    <3>1. committed' = p.accepted /\ p.accepted > 0
      BY <1>1, <1>2, <1>5, <2>2 DEF TryCommit
    <3>2. mem' = mem \/ mem' = [mem EXCEPT !.committed = mem.effective]
      BY <1>2, <2>2 DEF TryCommit, CommitMembership
    <3> QED BY <2>1, <3>1, <3>2
  <2>3. CASE ~ (p.accepted > Inherited /\ p.accepted > committed)
    BY <1>2, <2>3 DEF TryCommit
  <2> QED BY <2>2, <2>3
<1>7. ProgressInv'
  BY <1>1, <1>2, <1>3, <1>6 DEF ProgressInv
<1>8. ASSUME NEW j \in 1..Len(p.entries), p.entries[j].val > 0
      PROVE  p.entries[j].id \in Node /\ held'[p.entries[j].id] >= p.entries[j].val
  <2>1. CASE p.entries[j].id = n /\ p.entries[j].val = i
    BY <1>4, <2>1
  <2>2. CASE \E l \in 1..Len(progress.entries) : /\ progress.entries[l].id = p.entries[j].id
                                                 /\ progress.entries[l].val = p.entries[j].val
    <3> DEFINE x == p.entries[j].id
               v == p.entries[j].val
    <3>1. x \in Node /\ held[x] >= v /\ v \in Nat
      BY <1>1, <1>5, <1>8, <2>2 DEF HeldInv
    <3> HIDE DEF x, v
    <3>2. held'[x] >= v
      BY <1>4, <3>1
    <3> QED BY <3>1, <3>2 DEF x, v
  <2> QED BY <1>3, <2>1, <2>2
<1>9. HeldInv'
  BY <1>2, <1>4, <1>8 DEF HeldInv
<1>10. PairInv'
  <2>1. Meets(mem.effective.m.configs, mem.effective.m.configs)
    BY <1>1, SelfMeets
  <2>2. CASE mem'.committed = mem.committed
    BY <1>1, <1>6, <2>2 DEF PairInv
  <2>3. CASE mem'.committed = mem.effective
    BY <1>1, <1>6, <2>1, <2>3 DEF PairInv
  <2> QED BY <1>6, <2>2, <2>3
<1>11. CommittedHeld'
  <2>1. CASE mem'.committed = mem.committed /\ committed' = committed
    <3>1. PICK em \in {mem.committed, mem.effective} : IsQuorum(em.m.configs, Holders(committed))
      BY <1>1 DEF CommittedHeld
    <3>2. IsMembership(em.m)
      BY <1>1, <3>1 DEF PairInv
    <3>3. Holders(committed) \subseteq Holders(committed)'
      BY <1>1, <1>4, <2>1 DEF Holders
    <3>4. \A k \in DOMAIN em.m.configs : IsFiniteSet(em.m.configs[k])
      BY <3>2 DEF IsMembership
    <3>5. IsQuorum(em.m.configs, Holders(committed)')
      BY <3>1, <3>3, <3>4, QuorumGrows
    <3>6. em \in {mem'.committed, mem'.effective}
      BY <1>6, <2>1
    <3> QED BY <3>5, <3>6 DEF CommittedHeld
  <2>2. CASE committed' = p.accepted /\ p.accepted > 0
    <3>1. IsQuorum(p.configs, Granting(p, p.accepted))
      BY <1>3, <2>2 DEF AcceptInv, Accepted
    <3>2. ASSUME NEW x \in Granting(p, p.accepted) PROVE x \in Holders(committed)'
      <4>1. PICK j \in 1..p.voters : p.entries[j].val >= p.accepted /\ p.entries[j].id = x
        BY DEF Granting
      <4>2. j \in 1..Len(p.entries)
        BY <1>5 DEF IsProgress
      <4>3. p.entries[j].val \in Nat /\ p.entries[j].val > 0
        BY <1>5, <2>2, <4>1, <4>2
      <4>4. x \in Node /\ held'[x] >= p.entries[j].val
        BY <1>8, <4>1, <4>2, <4>3
      <4>5. held'[x] >= p.accepted
        BY <1>4, <1>5, <4>1, <4>3, <4>4
      <4> QED BY <2>2, <4>4, <4>5 DEF Holders
    <3>3. Granting(p, p.accepted) \subseteq Holders(committed)'
      BY <3>2
    <3>4. \A k \in DOMAIN p.configs : IsFiniteSet(p.configs[k])
      BY <1>3 DEF AcceptInv, IdsInv
    <3>5. IsQuorum(p.configs, Holders(committed)')
      BY <3>1, <3>3, <3>4, QuorumGrows
    <3>6. IsQuorum(mem'.effective.m.configs, Holders(committed)')
      BY <1>3, <1>6, <3>5
    <3> QED BY <3>6 DEF CommittedHeld
  <2> QED BY <1>6, <2>1, <2>2
<1> QED BY <1>1, <1>7, <1>9, <1>10, <1>11 DEF AccInv

\* A heartbeat's answer, or the leader's own time.
LEMMA AccClock ==
  ASSUME AccInv, SmallQuorums, NEW n, n \in Tracked(clock), NEW t \in Nat, t > ValueOf(clock, n),
         clock' = IncreaseTo(clock, n, t),
         UNCHANGED <<mem, progress, committed, held, now>>
  PROVE  AccInv'
<1>1. AcceptInv(clock) /\ clock.configs = mem.effective.m.configs
  BY DEF AccInv, ProgressInv
<1>2. PairsSuffice(clock.configs)
  BY <1>1 DEF SmallQuorums
<1>3. clock' = UpdateWith(clock, n, t)
  BY DEF IncreaseTo
<1>4. ValueOf(clock, n) \in Nat /\ t >= ValueOf(clock, n)
  <2>1. ValueOf(clock, n) \in Nat
    BY <1>1, ValueType DEF AcceptInv
  <2> QED BY <2>1
<1>5. AcceptInv(clock') /\ clock'.configs = clock.configs
  BY <1>1, <1>2, <1>3, <1>4, UpdateAccepts
<1> QED BY <1>1, <1>5 DEF AccInv, ProgressInv, HeldInv, PairInv, CommittedHeld, Holders

\* Whatever else happens.
LEMMA AccOther ==
  ASSUME AccInv, UNCHANGED <<mem, progress, clock, committed, held>>, now' \in Nat
  PROVE  AccInv'
BY DEF AccInv, ProgressInv, HeldInv, PairInv, CommittedHeld, Holders

\* While no config is one that the search misjudges, the invariant is inductive.
LEMMA AccStep ==
  ASSUME LeaderInv, LeaderInv', AccInv, SmallQuorums, SmallQuorums', [Next]_vars
  PROVE  AccInv'
<1>1. /\ now \in Nat /\ ProgressInv /\ IsProgress(progress) /\ IsProgress(clock)
      /\ IsMembership(mem.effective.m) /\ LogInv
  BY DEF AccInv, ProgressInv, AcceptInv, LeaderInv, MemInv
<1>2. CASE EstablishLeader
  <2>1. /\ progress' = NewProgress(mem.effective.m) /\ clock' = NewProgress(mem.effective.m)
        /\ UNCHANGED <<mem, committed, held, now>>
    BY <1>2 DEF EstablishLeader, NewLeader
  <2>2. /\ AcceptInv(progress') /\ progress'.configs = mem.effective.m.configs
        /\ \A j \in 1..Len(progress'.entries) : progress'.entries[j].val = 0
    BY <1>1, <2>1, NewProgressIs
  <2>3. ProgressInv'
    BY <2>1, <2>2 DEF ProgressInv
  <2>4. HeldInv'
    <3>1. \A j \in 1..Len(progress'.entries) : ~ (progress'.entries[j].val > 0)
      BY <2>2
    <3> QED BY <2>1, <3>1 DEF AccInv, HeldInv
  <2> QED BY <2>1, <2>3, <2>4 DEF AccInv, PairInv, CommittedHeld, Holders
<1>3. CASE ClientWrite
  <2>1. UNCHANGED <<mem, progress, clock, committed, held, now>>
    BY <1>3 DEF ClientWrite, LeaderAppend
  <2> QED BY <1>1, <2>1, AccOther
<1>4. ASSUME NEW c \in Client, NEW r \in Requests, FirstStep(c, r) PROVE AccInv'
  <2>1. IsRequest(r.change)
    BY LeaderAssumption
  <2> QED BY <1>4, <2>1, AccChange DEF FirstStep
<1>5. ASSUME NEW c \in Client, SecondStep(c) PROVE AccInv'
  <2> DEFINE r == Flatten(client[c].req)
  <2>1. ChangeMembership(c, r, "second")
    BY <1>5 DEF SecondStep
  <2>2. IsRequest(r.change)
    BY <1>1, FlattenIs
  <2> HIDE DEF r
  <2> QED BY <2>1, <2>2, AccChange
<1>6. Len(log) \in Nat
  BY <1>1, LenProperties DEF LogInv
<1>7. ASSUME NEW n \in Node, ReplicationProgress(n) PROVE AccInv'
  <2>1. PICK i \in ValueOf(progress, n) + 1 .. LastIndex : UpdateMatching(n, i) /\ Holds(n, i)
    BY <1>7 DEF ReplicationProgress
  <2>2. n \in Tracked(progress) /\ UNCHANGED <<clock, now>>
    BY <1>7 DEF ReplicationProgress
  <2>3. ValueOf(progress, n) \in Nat
    BY <1>1, <2>2, ValueType
  <2>4. i \in Nat /\ i >= ValueOf(progress, n)
    BY <1>6, <2>3 DEF LastIndex
  <2> QED BY <2>1, <2>2, <2>4, AccMatching
<1>8. CASE LocalIO
  <2>1. PICK i \in 1 .. LastIndex :
          /\ Self \in Tracked(progress) /\ ValueOf(progress, Self) < i
          /\ UpdateMatching(Self, i)
          /\ Holds(Self, i)
    BY <1>8 DEF LocalIO
  <2>2. UNCHANGED <<clock, now>> /\ Self \in Node
    BY <1>8, LeaderAssumption DEF LocalIO
  <2>3. ValueOf(progress, Self) \in Nat
    BY <1>1, <2>1, ValueType
  <2>4. i \in Nat /\ i >= ValueOf(progress, Self)
    BY <1>6, <2>1, <2>3 DEF LastIndex
  <2> QED BY <2>1, <2>2, <2>4, AccMatching
<1>9. ASSUME NEW n \in Node, HeartbeatProgress(n) PROVE AccInv'
  <2>1. PICK t \in 1 .. now : t > ValueOf(clock, n) /\ clock' = IncreaseTo(clock, n, t)
    BY <1>9 DEF HeartbeatProgress, UpdateLeaderClock
  <2>2. n \in Tracked(clock) /\ UNCHANGED <<mem, progress, committed, held, now>>
    BY <1>9 DEF HeartbeatProgress
  <2>3. t \in Nat
    BY <1>1
  <2> QED BY <2>1, <2>2, <2>3, AccClock
<1>10. CASE LastQuorumAckedTime
  <2>1. /\ Self \in Tracked(clock) /\ clock' = IncreaseTo(clock, Self, now)
        /\ ValueOf(clock, Self) < now /\ UNCHANGED <<mem, progress, committed, held, now>>
    BY <1>10 DEF LastQuorumAckedTime
  <2>2. ValueOf(clock, Self) \in Nat
    BY <1>1, <2>1, ValueType
  <2>3. now > ValueOf(clock, Self)
    BY <1>1, <2>1, <2>2
  <2> QED BY <1>1, <2>1, <2>3, AccClock
<1>11. CASE PassTime
  <2>1. UNCHANGED <<mem, progress, clock, committed, held>> /\ now' \in Nat
    BY <1>1, <1>11 DEF PassTime
  <2> QED BY <2>1, AccOther
<1>12. CASE \/ \E c \in Client : FirstDone(c) \/ SecondDone(c) \/ CallFails(c)
            \/ Apply \/ StepDown \/ Deposed \/ TransferLeader \/ UNCHANGED vars
  <2>1. UNCHANGED <<mem, progress, clock, committed, held, now>>
    BY <1>12 DEF FirstDone, SecondDone, CallFails, Apply, StepDown, Deposed, TransferLeader, vars
  <2> QED BY <1>1, <2>1, AccOther
<1> QED BY <1>2, <1>3, <1>4, <1>5, <1>7, <1>8, <1>9, <1>10, <1>11, <1>12 DEF Next

\* In a behaviour whose effective configs all have a voter that makes a quorum
\* with any other one, both progresses and the memberships are what the
\* invariant says.
LEMMA AccInvariant == Spec /\ []SmallQuorums => []AccInv
<1>1. Init => AccInv
  BY AccStart
<1>2. LeaderInv /\ LeaderInv' /\ AccInv /\ SmallQuorums /\ SmallQuorums' /\ [Next]_vars => AccInv'
  BY AccStep
<1> QED BY <1>1, <1>2, LeaderInvariant, PTL DEF Spec

\* What update_with computes (vec_progress.rs) is the value that a quorum
\* reached, for the log and for the lease, if up to three voters, one of whom
\* makes a quorum with any other one, are all it ever has to do with.
THEOREM AcceptedByQuorum == Spec /\ []SmallQuorums => []QuorumHoldsAccepted
<1>1. ASSUME AccInv PROVE QuorumHoldsAccepted
  BY <1>1 DEF AccInv, ProgressInv, AcceptInv, Accepted, QuorumHoldsAccepted
<1> QED BY <1>1, AccInvariant, PTL

\* In such a behaviour no quorum that could elect another leader is without an
\* entry that is committed, across every change of the membership
\* (replication_handler, try_commit_quorum_accepted).
THEOREM CommittedStays == Spec /\ []SmallQuorums => []NoQuorumWithoutCommitted
<1>1. ASSUME LeaderInv, AccInv PROVE NoQuorumWithoutCommitted
  <2> DEFINE c == mem.committed.m
             e == mem.effective.m
             H == Holders(committed)
             L == {n \in Node : held[n] < committed}
  <2>1. /\ IsMembership(c) /\ IsMembership(e) /\ Meets(c.configs, e.configs)
        /\ committed \in Nat /\ held \in [Node -> Nat]
    BY <1>1 DEF LeaderInv, MemInv, AccInv, HeldInv, PairInv
  <2>2. Meets(c.configs, c.configs) /\ Meets(e.configs, e.configs)
    BY <2>1, SelfMeets
  <2>3. H \cap L = {} /\ L \cap H = {}
    BY <2>1 DEF Holders
  <2>4. IsQuorum(c.configs, H) \/ IsQuorum(e.configs, H)
    BY <1>1 DEF AccInv, CommittedHeld
  <2> HIDE DEF H, L
  <2>5. ~ IsQuorum(c.configs, L) /\ ~ IsQuorum(e.configs, L)
    <3>1. CASE IsQuorum(c.configs, H)
      BY <2>1, <2>2, <2>3, <3>1, Zenon DEF Meets
    <3>2. CASE IsQuorum(e.configs, H)
      BY <2>1, <2>2, <2>3, <3>2, Zenon DEF Meets
    <3> QED BY <2>4, <3>1, <3>2
  <2> QED BY <2>5 DEF L, NoQuorumWithoutCommitted
<1> QED BY <1>1, AccInvariant, LeaderInvariant, PTL
=============================================================================
