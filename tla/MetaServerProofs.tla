-------------------------- MODULE MetaServerProofs --------------------------
(***************************************************************************)
(* What the proxy tells its clients, for every number of nodes, servers,   *)
(* commands and elections: a write it has logged was committed, a put that *)
(* can reach its leader succeeds, and reads from a leader that stays see   *)
(* the last acknowledged write.  At the end, the ids that clients are      *)
(* logged in under, for any number of clients and ids.                     *)
(***************************************************************************)
EXTENDS MetaServer, Session, WellFoundedInduction, TLAPS

Vals    == Value \cup {""}
Answers == [t : {"text", "Ok", "Err"}, v : Vals \cup Node \cup {"Ok", "Err"}]
Stages  == {"read", "recheck", "write", "members", "learner", "metrics"}
Ops     == {"put", "get", "delete", "members", "learner", "metrics"}
Commands ==
  [op : Ops, srv : Server, val : Vals, members : Seq(Node), stage : Stages,
   todo : Seq(Node), resps : Seq(Answers), wait : BOOLEAN, elections : Nat, reach : BOOLEAN]
WriteEntry   == [kind : {"write"}, cmd : Nat, val : Vals]
LearnerEntry == [kind : {"learner"}, node : Node]
LogLine == [op : Ops, srv : Server, cmd : Nat, val : Vals, elections : Nat]
Outcome == [op : Ops, srv : Server, cmd : Nat, ok : BOOLEAN,
            got : Vals \cup Node \cup {"Ok", "Err"}, elections : Nat, reach : BOOLEAN]

MetaTypeOK ==
  /\ hist \in Seq([cmd : Nat, val : Vals])
  /\ applied \in [Node -> Nat] /\ alive \in [Node -> BOOLEAN]
  /\ leader \in Node \cup {NoNode}
  /\ \/ pending = NoEntry \/ pending \in WriteEntry \/ pending \in LearnerEntry
     \/ pending = [kind |-> "members", conf |-> pending.conf]
  /\ ids \in [Server -> Seq(Node)]
  /\ cur = NoCommand \/ cur \in Commands
  /\ issued \in Nat /\ elections \in Nat
  /\ last = NoCommand \/ last \in Outcome
  /\ log \in Seq(LogLine)

\* A Server asks at least one node, a change of members is for at least one
\* voter.
Asks ==
  /\ \A s \in Server : ids[s] # <<>>
  /\ cur # NoCommand /\ cur.op \in {"members", "learner"} => cur.members # <<>>

LeaderAlive ==
  /\ leader # NoNode => alive[leader]
  /\ \A n \in Node : applied[n] <= Len(hist)

\* The command in progress and the stage it is at.
StageInv ==
  cur # NoCommand =>
    /\ cur.stage \in {"members", "learner", "metrics"} => cur.op = cur.stage
    /\ cur.stage \in {"read", "recheck"} => cur.op \in {"put", "get", "delete"}
    /\ cur.stage = "recheck" => cur.op = "delete"
    /\ cur.stage = "write" => /\ cur.op \in Writes
                              /\ ToSet(cur.resps) \subseteq {OkText, ErrText}
    /\ cur.wait => cur.todo # <<>> /\ cur.stage \in {"write", "members", "learner"}

\* An entry that is proposed by a leader that is there is what the command in
\* progress waits for.
WaitInv ==
  /\ cur # NoCommand /\ cur.wait =>
       /\ pending # NoEntry => pending.kind = cur.stage
       /\ pending.kind = "write" => pending.cmd = issued /\ pending.val = cur.val
       /\ cur.stage \in {"write", "members"} => pending # NoEntry /\ leader # NoNode
  /\ pending # NoEntry /\ leader # NoNode =>
       cur # NoCommand /\ cur.wait /\ cur.todo # <<>> /\ Head(cur.todo) = leader

\* The command in progress was answered Ok by a node.
WasOk == cur # NoCommand /\ cur.stage = "write" /\ OkText \in ToSet(cur.resps)

CommitInv == WasOk => \E j \in DOMAIN hist : hist[j].cmd = issued

\* Elections are counted from the issue of a command.
EpochInv ==
  /\ cur # NoCommand => cur.elections <= elections /\ LastWrite.elections <= cur.elections
  /\ last # NoCommand => last.elections <= elections
  /\ LastWrite.elections <= elections

ReachInv ==
  /\ cur # NoCommand /\ cur.op = "put" /\ cur.reach /\ leader # NoNode
     /\ elections = cur.elections =>
       /\ leader \in ToSet(ids[cur.srv])
       /\ cur.stage = "write" => leader \in ToSet(cur.todo) \/ WasOk
  /\ ReachablePutSucceeds

\* What a leader that has applied all committed writes answers.
CurrentVal == IF hist = <<>> THEN "" ELSE hist[Len(hist)].val

SteadyInv ==
  /\ leader # NoNode =>
       /\ elections = LastWrite.elections =>
            /\ applied[leader] = Len(hist)
            /\ ~WasOk => CurrentVal = LastWrite.val
       /\ WasOk /\ elections = cur.elections =>
            applied[leader] = Len(hist) /\ CurrentVal = cur.val
       /\ /\ cur # NoCommand /\ cur.op = "get" /\ cur.stage = "read"
          /\ elections = LastWrite.elections /\ Head(ids[cur.srv]) = leader
          => \/ cur.todo = ids[cur.srv] /\ cur.resps = <<>>
             \/ cur.resps # <<>> /\ cur.resps[1] = OkDict(LastWrite.val)
  /\ SteadyLeaderReads

MetaInv == /\ MetaTypeOK /\ Asks /\ LeaderAlive /\ StageInv /\ WaitInv /\ CommitInv
           /\ EpochInv /\ ReachInv /\ SteadyInv /\ LoggedIsCommitted
----------------------------------------------------------------------------
(* Sequences of answers and of log lines.                                   *)

\* A set of natural numbers that is not empty has a least member.
LEMMA LeastOf ==
  ASSUME NEW S, S \subseteq Nat, S # {}
  PROVE  Min(S) \in S /\ \A j \in S : Min(S) <= j
<1>1. PICK i \in S : \A j \in S : ~(<<j, i>> \in OpToRel(<, Nat))
  BY WFMin, NatLessThanWellFounded, Zenon
<1>2. ASSUME NEW j \in S PROVE i <= j
  <2>1. i \in Nat /\ j \in Nat
    OBVIOUS
  <2>2. ~(j < i)
    BY <1>1, <2>1, Zenon DEF OpToRel
  <2> QED
    BY <2>1, <2>2
<1> QED
  BY <1>2 DEF Min

\* One that is bounded has a greatest one.
LEMMA GreatestOf ==
  ASSUME NEW S, NEW n \in Nat, S \subseteq 1..n, S # {}
  PROVE  Max(S) \in S /\ \A j \in S : Max(S) >= j
<1> DEFINE T == {n - i : i \in S}
<1>0. \A i \in S : n - i \in Nat
  OBVIOUS
<1>1. T \subseteq Nat /\ T # {}
  BY <1>0, Zenon
<1> HIDE DEF T
<1>2. PICK k \in T : \A j \in T : k <= j
  BY <1>1, LeastOf
<1>3. PICK i \in S : k = n - i
  BY DEF T
<1>4. \A j \in S : n - j \in T
  BY DEF T
<1>5. \A j \in S : i >= j
  BY <1>2, <1>3, <1>4
<1> QED
  BY <1>5 DEF Max

\* The answers so far, and the nodes still to be asked, when one has answered.
LEMMA Range1 ==
  ASSUME NEW S, NEW s \in Seq(S), NEW x \in S
  PROVE  /\ ToSet(Append(s, x)) = ToSet(s) \cup {x}
         /\ s # <<>> => /\ Head(s) \in S /\ Tail(s) \in Seq(S)
                        /\ ToSet(s) = {Head(s)} \cup ToSet(Tail(s))
         /\ ToSet(s) \subseteq S
         /\ s # <<>> => s[1] \in ToSet(s) /\ Append(s, x)[1] = s[1]
<1>1. ToSet(Append(s, x)) = ToSet(s) \cup {x}
  <2>1. DOMAIN Append(s, x) = DOMAIN s \cup {Len(s) + 1}
    OBVIOUS
  <2>2. \A i \in DOMAIN s : Append(s, x)[i] = s[i]
    OBVIOUS
  <2>3. Append(s, x)[Len(s) + 1] = x
    OBVIOUS
  <2> QED
    BY <2>1, <2>2, <2>3 DEF ToSet
<1>2. ASSUME s # <<>> PROVE /\ Head(s) \in S /\ Tail(s) \in Seq(S)
                            /\ ToSet(s) = {Head(s)} \cup ToSet(Tail(s))
  <2>1. /\ Tail(s) \in Seq(S) /\ Head(s) = s[1] /\ s[1] \in S
        /\ DOMAIN Tail(s) = 1..(Len(s) - 1) /\ \A i \in 1..(Len(s) - 1) : Tail(s)[i] = s[i + 1]
    BY <1>2
  <2>2. \A i \in DOMAIN s : i = 1 \/ (i - 1 \in DOMAIN Tail(s) /\ Tail(s)[i - 1] = s[i])
    BY <2>1
  <2>3. \A i \in DOMAIN Tail(s) : i + 1 \in DOMAIN s /\ Tail(s)[i] = s[i + 1]
    BY <2>1
  <2>4. 1 \in DOMAIN s
    BY <1>2
  <2>5. ASSUME NEW y \in ToSet(s) PROVE y \in {Head(s)} \cup ToSet(Tail(s))
    <3>1. PICK i \in DOMAIN s : y = s[i]
      BY DEF ToSet
    <3>2. CASE i = 1
      BY <2>1, <3>1, <3>2
    <3>3. CASE i # 1
      <4>1. i - 1 \in DOMAIN Tail(s) /\ Tail(s)[i - 1] = y
        BY <2>2, <3>1, <3>3
      <4> QED BY <4>1, Zenon DEF ToSet
    <3> QED BY <3>2, <3>3
  <2>6. ASSUME NEW y \in ToSet(Tail(s)) PROVE y \in ToSet(s)
    <3>1. PICK i \in DOMAIN Tail(s) : y = Tail(s)[i]
      BY DEF ToSet
    <3>2. i + 1 \in DOMAIN s /\ y = s[i + 1]
      BY <2>3, <3>1
    <3> QED BY <3>2, Zenon DEF ToSet
  <2>7. Head(s) \in ToSet(s)
    BY <2>1, <2>4 DEF ToSet
  <2> QED
    BY <2>1, <2>5, <2>6, <2>7
<1>3. ToSet(s) \subseteq S
  BY DEF ToSet
<1>4. s # <<>> => s[1] \in ToSet(s) /\ Append(s, x)[1] = s[1]
  BY DEF ToSet
<1> QED
  BY <1>1, <1>2, <1>3, <1>4

\* The combined answer is "Ok" exactly if a node said so, when the nodes
\* answer in texts, and it is the first one if that is not "Err".
LEMMA Combined ==
  ASSUME NEW rs \in Seq(Answers)
  PROVE  /\ Combine(rs) = OkText => OkText \in ToSet(rs)
         /\ ToSet(rs) \subseteq {OkText, ErrText} /\ OkText \in ToSet(rs) => Combine(rs) = OkText
         /\ rs # <<>> /\ rs[1] # ErrText => Combine(rs) = rs[1]
         /\ Combine(rs) \in Answers
<1> DEFINE said == {i \in DOMAIN rs : rs[i] # ErrText}
<1>1. OkText # ErrText /\ ErrText \in Answers
  BY DEF OkText, ErrText, Answers
<1>2. said \subseteq Nat
  OBVIOUS
<1>3. said # {} => Min(said) \in said /\ \A j \in said : Min(said) <= j
  <2> HIDE DEF said
  <2> QED BY <1>2, LeastOf
<1>4. Combine(rs) = IF said = {} THEN ErrText ELSE rs[Min(said)]
  BY DEF Combine
<1>5. Combine(rs) = OkText => OkText \in ToSet(rs)
  BY <1>1, <1>3, <1>4 DEF ToSet
<1>6. ToSet(rs) \subseteq {OkText, ErrText} /\ OkText \in ToSet(rs) => Combine(rs) = OkText
  BY <1>1, <1>3, <1>4 DEF ToSet
<1>7. rs # <<>> /\ rs[1] # ErrText => Combine(rs) = rs[1]
  <2> SUFFICES ASSUME rs # <<>>, rs[1] # ErrText PROVE Combine(rs) = rs[1]
    OBVIOUS
  <2>1. 1 \in said /\ \A j \in said : 1 <= j
    OBVIOUS
  <2>2. Min(said) \in Nat
    BY <1>2, <1>3, <2>1
  <2>3. Min(said) = 1
    <3> HIDE DEF said
    <3> QED BY <1>3, <2>1, <2>2
  <2> QED
    BY <1>4, <2>1, <2>3
<1> QED
  BY <1>1, <1>3, <1>4, <1>5, <1>6, <1>7

\* The last acknowledged write, when a line is logged.
LEMMA LastWriteNext ==
  ASSUME log \in Seq(LogLine), NEW e \in LogLine, log' = Append(log, e)
  PROVE  LastWrite' = IF e.op \in Writes THEN e ELSE LastWrite
<1> DEFINE ws == {i \in DOMAIN log : log[i].op \in Writes}
           wt == {i \in DOMAIN log' : log'[i].op \in Writes}
<1>1. /\ DOMAIN log' = DOMAIN log \cup {Len(log) + 1} /\ log'[Len(log) + 1] = e
      /\ \A i \in DOMAIN log : log'[i] = log[i]
  OBVIOUS
<1>2. LastWrite' = IF wt = {} THEN [val |-> "", elections |-> 0] ELSE log'[Max(wt)]
  BY DEF LastWrite, Writes
<1>3. LastWrite = IF ws = {} THEN [val |-> "", elections |-> 0] ELSE log[Max(ws)]
  BY DEF LastWrite
<1>4. CASE e.op \in Writes
  <2>1. wt = ws \cup {Len(log) + 1} /\ wt \subseteq 1..(Len(log) + 1) /\ Len(log) + 1 \in Nat
    BY <1>1, <1>4
  <2>2. Max(wt) \in wt /\ \A j \in wt : Max(wt) >= j
    <3> HIDE DEF wt
    <3> QED BY <2>1, GreatestOf
  <2>3. Max(wt) = Len(log) + 1
    <3>1. Len(log) + 1 \in wt /\ Max(wt) \in 1..(Len(log) + 1)
      BY <2>1, <2>2
    <3> HIDE DEF wt, ws
    <3>2. Max(wt) >= Len(log) + 1
      BY <2>2, <3>1
    <3> QED BY <2>1, <3>1, <3>2
  <2> QED
    BY <1>1, <1>2, <1>4, <2>1, <2>3
<1>5. CASE e.op \notin Writes
  <2>1. wt = ws
    BY <1>1, <1>5
  <2>2. ws # {} => Max(ws) \in ws
    <3>1. ws \subseteq 1..Len(log) /\ Len(log) \in Nat
      OBVIOUS
    <3> HIDE DEF ws
    <3> QED BY <3>1, GreatestOf
  <2>3. ws # {} => Max(ws) \in DOMAIN log
    BY <2>2
  <2> HIDE DEF ws, wt
  <2> QED
    BY <1>1, <1>2, <1>3, <1>5, <2>1, <2>3
<1> QED
  BY <1>4, <1>5

\* It has the number of elections that its command began with.
LEMMA LastWriteEpoch == log \in Seq(LogLine) => LastWrite.elections \in Nat
<1> SUFFICES ASSUME log \in Seq(LogLine) PROVE LastWrite.elections \in Nat
  OBVIOUS
<1> DEFINE ws == {i \in DOMAIN log : log[i].op \in Writes}
<1>1. CASE ws = {}
  <2>1. LastWrite = [val |-> "", elections |-> 0]
    BY <1>1, Zenon DEF LastWrite
  <2> QED BY <2>1
<1>2. CASE ws # {}
  <2>1. ws \subseteq 1..Len(log) /\ Len(log) \in Nat
    OBVIOUS
  <2>2. LastWrite = log[Max(ws)]
    BY <1>2, Zenon DEF LastWrite
  <2> HIDE DEF ws
  <2>3. Max(ws) \in 1..Len(log)
    BY <1>2, <2>1, GreatestOf
  <2>4. log[Max(ws)] \in LogLine
    BY <2>3
  <2> QED BY <2>2, <2>4 DEF LogLine
<1> QED BY <1>1, <1>2

----------------------------------------------------------------------------
(* Steps.                                                                   *)

\* Nothing is in progress, committed or answered at the start.
LEMMA MetaInit == Init => MetaInv
<1> SUFFICES ASSUME Init PROVE MetaInv
  OBVIOUS
<1>1. /\ cur = NoCommand /\ last = NoCommand /\ pending = NoEntry /\ log = <<>> /\ hist = <<>>
      /\ leader = 1 /\ elections = 0 /\ issued = 0
  BY DEF Init
<1>12. ids \in [Server -> Seq(Node)] /\ \A s \in Server : ids[s] # <<>>
  <2>3. 1 \in Node
    BY MetaAssumption
  <2>4. <<1>> \in Seq(Node)
    BY <2>3
  <2>5. <<1>> # <<>>
    OBVIOUS
  <2>2. ids = [s \in Server |-> <<1>>]
    BY DEF Init
  <2> QED
    BY <2>2, <2>4, <2>5, Zenon
<1>13. /\ applied \in [Node -> Nat] /\ alive \in [Node -> BOOLEAN]
       /\ \A n \in Node : applied[n] = 0 /\ alive[n]
  BY DEF Init
<1>2. LastWrite = [val |-> "", elections |-> 0]
  <2>1. {i \in DOMAIN log : log[i].op \in Writes} = {}
    BY <1>1
  <2> QED
    BY <2>1, Zenon DEF LastWrite
<1>3. MetaTypeOK
  <2>1. hist \in Seq([cmd : Nat, val : Vals]) /\ log \in Seq(LogLine)
    BY <1>1
  <2>2. leader \in Node \cup {NoNode} /\ issued \in Nat /\ elections \in Nat
    BY <1>1, MetaAssumption
  <2> QED
    BY <1>1, <1>12, <1>13, <2>1, <2>2, Zenon DEF MetaTypeOK
<1>4. Asks /\ LeaderAlive
  <2>1. Len(hist) = 0
    BY <1>1
  <2>2. leader \in Node
    BY <1>1, MetaAssumption
  <2>3. \A n \in Node : applied[n] <= Len(hist)
    BY <1>13, <2>1
  <2> QED
    BY <1>1, <1>12, <1>13, <2>2, <2>3, Zenon DEF Asks, LeaderAlive
<1>11. StageInv /\ CommitInv
  BY <1>1, Zenon DEF StageInv, CommitInv, WasOk
<1>5. WaitInv /\ LoggedIsCommitted
  BY <1>1 DEF WaitInv, LoggedIsCommitted
<1>6. LastWrite.elections = 0
  BY <1>2
<1>14. LastWrite.val = ""
  BY <1>2
<1>7. EpochInv
  <2>1. LastWrite.elections <= elections
    BY <1>1, <1>6
  <2> QED
    BY <1>1, <2>1, Zenon DEF EpochInv
<1>8. last.op = "none"
  BY <1>1 DEF NoCommand
<1>9. ReachInv
  BY <1>1, <1>8 DEF ReachInv, ReachablePutSucceeds
<1>10. SteadyInv
  <2>1. applied[leader] = Len(hist) /\ CurrentVal = ""
    BY <1>1, <1>13, MetaAssumption DEF CurrentVal
  <2> QED
    BY <1>1, <1>8, <1>14, <2>1, Zenon DEF SteadyInv, SteadyLeaderReads, WasOk
<1> QED
  BY <1>3, <1>4, <1>5, <1>7, <1>9, <1>10, <1>11 DEF MetaInv

\* What is issued is a command that has asked nobody.
LEMMA IssueStep ==
  ASSUME MetaInv, NEW s \in Server, NEW op \in Ops, NEW v \in Vals, NEW ms \in Seq(Node),
         NEW stage \in Stages, Issue(Command(s, op, v, ms), stage),
         stage \in {"members", "learner", "metrics"} => op = stage,
         stage = "read" => op \in {"put", "get", "delete"},
         stage \notin {"recheck", "write"},
         op \in {"members", "learner"} => ms # <<>>
  PROVE  MetaInv'
<1> DEFINE c == [op |-> op, srv |-> s, val |-> v, members |-> ms,
                 stage |-> stage, todo |-> ids[s], resps |-> <<>>, wait |-> FALSE,
                 elections |-> elections, reach |-> leader \in ToSet(ids[s])]
<1>1. cur = NoCommand /\ cur' = c /\ issued' = issued + 1
      /\ UNCHANGED <<cluster, ids, last, elections, log>>
  BY DEF Issue, Command, FanOut
<1>2. c \in Commands
  BY DEF MetaInv, MetaTypeOK, Commands
<1>3. c # NoCommand /\ LastWrite' = LastWrite
  BY <1>1 DEF NoCommand, Ops, LastWrite, Writes
<1>4. c.op = op /\ c.srv = s /\ c.stage = stage /\ c.todo = ids[s] /\ c.resps = <<>>
      /\ c.wait = FALSE /\ c.elections = elections /\ c.reach = (leader \in ToSet(ids[s]))
      /\ c.members = ms
  OBVIOUS
<1> HIDE DEF c
<1> USE DEF cluster
<1>5. MetaTypeOK'
  BY <1>1, <1>2 DEF MetaInv, MetaTypeOK
<1>6. Asks' /\ LeaderAlive' /\ StageInv'
  BY <1>1, <1>4 DEF MetaInv, Asks, LeaderAlive, StageInv
<1>7. pending = NoEntry \/ leader = NoNode
  BY <1>1 DEF MetaInv, WaitInv
<1>8. WaitInv' /\ LoggedIsCommitted'
  BY <1>1, <1>4, <1>7 DEF MetaInv, WaitInv, LoggedIsCommitted
<1>9. ~WasOk' /\ ~WasOk
  BY <1>1, <1>4 DEF WasOk
<1>10. CommitInv' /\ EpochInv'
  BY <1>1, <1>3, <1>4, <1>9 DEF MetaInv, MetaTypeOK, CommitInv, EpochInv
<1>11. ReachInv'
  BY <1>1, <1>4, <1>9 DEF MetaInv, ReachInv, ReachablePutSucceeds
<1>12. SteadyInv'
  BY <1>1, <1>3, <1>4, <1>9 DEF MetaInv, SteadyInv, SteadyLeaderReads, CurrentVal
<1> QED
  BY <1>5, <1>6, <1>8, <1>10, <1>11, <1>12 DEF MetaInv

\* What an answer does to the command in progress.
LEMMA AnsweredFacts ==
  ASSUME MetaTypeOK, cur # NoCommand, cur.todo # <<>>, NEW r \in Answers, Answered(r)
  PROVE  /\ cur \in Commands /\ cur' \in Commands /\ cur' # NoCommand
         /\ cur'.op = cur.op /\ cur'.srv = cur.srv /\ cur'.stage = cur.stage /\ cur'.wait = FALSE
         /\ cur'.elections = cur.elections /\ cur'.reach = cur.reach /\ cur'.members = cur.members
         /\ cur'.val = cur.val
         /\ ToSet(cur'.resps) = ToSet(cur.resps) \cup {r}
         /\ ToSet(cur.todo) = {Head(cur.todo)} \cup ToSet(cur'.todo)
         /\ cur'.resps # <<>> /\ (cur.resps # <<>> => cur'.resps[1] = cur.resps[1])
         /\ (cur.resps = <<>> => cur'.resps[1] = r)
         /\ r # OkText => (WasOk' <=> WasOk)
<1>1. cur \in Commands /\ cur.todo \in Seq(Node) /\ cur.resps \in Seq(Answers)
  BY DEF MetaTypeOK, Commands
<1>2. cur' = [cur EXCEPT !.todo = Tail(cur.todo), !.resps = Append(cur.resps, r), !.wait = FALSE]
  BY DEF Answered
<1>3. Tail(cur.todo) \in Seq(Node) /\ Append(cur.resps, r) \in Seq(Answers)
  BY <1>1
<1>4. cur' \in Commands
  BY <1>1, <1>2, <1>3 DEF Commands
<1>5. /\ cur'.op = cur.op /\ cur'.srv = cur.srv /\ cur'.stage = cur.stage /\ cur'.wait = FALSE
      /\ cur'.elections = cur.elections /\ cur'.reach = cur.reach /\ cur'.members = cur.members
      /\ cur'.val = cur.val /\ cur'.todo = Tail(cur.todo) /\ cur'.resps = Append(cur.resps, r)
  BY <1>1, <1>2 DEF Commands
<1>6. cur' # NoCommand
  BY <1>4 DEF Commands, Ops, NoCommand
<1>7. ToSet(Append(cur.resps, r)) = ToSet(cur.resps) \cup {r}
  BY <1>1, Range1
<1>8. ToSet(cur.todo) = {Head(cur.todo)} \cup ToSet(Tail(cur.todo))
  BY ZenonT(60), <1>1, Range1, MetaAssumption
<1>9. cur'.resps # <<>> /\ (cur.resps # <<>> => cur'.resps[1] = cur.resps[1])
      /\ (cur.resps = <<>> => cur'.resps[1] = r)
  <2> DEFINE rs == cur.resps
             rt == cur'.resps
  <2>1. rs \in Seq(Answers) /\ rt = Append(rs, r)
    BY <1>1, <1>5
  <2> HIDE DEF rs, rt
  <2>2. rt # <<>> /\ (rs # <<>> => rt[1] = rs[1]) /\ (rs = <<>> => rt[1] = r)
    BY <2>1
  <2> QED
    BY <2>2 DEF rs, rt
<1>10. r # OkText => (WasOk' <=> WasOk)
  BY <1>5, <1>6, <1>7, Zenon DEF WasOk, OkText
<1> QED
  BY <1>1, <1>4, <1>5, <1>6, <1>7, <1>8, <1>9, <1>10

\* A node that is not the leader answers a write with "Err", and the leader a
\* read with what it has applied.
LEMMA AnswerStep ==
  ASSUME MetaInv, Asking, NEW r \in Answers, Answered(r),
         UNCHANGED <<cluster, ids, issued, last, elections, log>>,
         cur.stage = "write" => r = ErrText /\ Target # leader,
         cur.stage = "read" /\ Target = leader => r = OkDict(ValueAt(Target))
  PROVE  MetaInv'
<1>1. MetaTypeOK /\ cur # NoCommand /\ ~cur.wait /\ cur.todo # <<>>
  BY DEF Asking, MetaInv
<1>2. /\ cur' \in Commands /\ cur' # NoCommand
      /\ cur'.op = cur.op /\ cur'.srv = cur.srv /\ cur'.stage = cur.stage /\ cur'.wait = FALSE
      /\ cur'.elections = cur.elections /\ cur'.reach = cur.reach /\ cur'.members = cur.members
  BY <1>1, AnsweredFacts
<1>3. /\ ToSet(cur'.resps) = ToSet(cur.resps) \cup {r}
      /\ ToSet(cur.todo) = {Target} \cup ToSet(cur'.todo)
      /\ cur'.resps # <<>> /\ (cur.resps # <<>> => cur'.resps[1] = cur.resps[1])
      /\ (cur.resps = <<>> => cur'.resps[1] = r)
  BY <1>1, AnsweredFacts DEF Target
<1>4. WasOk' <=> WasOk
  <2>1. CASE cur.stage = "write"
    <3>1. r # OkText
      BY <2>1 DEF OkText, ErrText
    <3> QED BY <1>1, <3>1, AnsweredFacts
  <2>2. CASE cur.stage # "write"
    BY <1>2, <2>2 DEF WasOk
  <2> QED BY <2>1, <2>2
<1>7. LastWrite' = LastWrite
  BY DEF LastWrite, Writes
<1> USE DEF cluster
<1>11. MetaTypeOK'
  BY <1>2 DEF MetaInv, MetaTypeOK
<1>12. Asks' /\ LeaderAlive' /\ LoggedIsCommitted'
  BY <1>1, <1>2 DEF MetaInv, Asks, LeaderAlive, LoggedIsCommitted
<1>13. StageInv'
  BY <1>1, <1>2, <1>3 DEF MetaInv, StageInv
<1>14. pending = NoEntry \/ leader = NoNode
  BY <1>1 DEF MetaInv, WaitInv
<1>15. WaitInv'
  BY <1>2, <1>14 DEF WaitInv
<1>16. CommitInv' /\ EpochInv'
  BY <1>1, <1>2, <1>4, <1>7 DEF MetaInv, CommitInv, EpochInv
<1>17. ReachInv'
  BY <1>1, <1>2, <1>3, <1>4 DEF MetaInv, ReachInv, ReachablePutSucceeds
<1>18. SteadyInv'
  <2>1. ASSUME leader # NoNode, cur.op = "get", cur.stage = "read", elections = LastWrite.elections,
               Head(ids[cur.srv]) = leader
        PROVE  cur'.resps # <<>> /\ cur'.resps[1] = OkDict(LastWrite.val)
    <3>1. CASE cur.resps # <<>> /\ cur.resps[1] = OkDict(LastWrite.val)
      BY <1>3, <3>1
    <3>2. CASE cur.todo = ids[cur.srv] /\ cur.resps = <<>>
      <4>1. r = OkDict(ValueAt(leader)) /\ cur'.resps[1] = r
        BY <1>3, <2>1, <3>2 DEF Target
      <4>2. applied[leader] = Len(hist) /\ CurrentVal = LastWrite.val
        BY <2>1 DEF MetaInv, SteadyInv, WasOk
      <4>3. ValueAt(leader) = CurrentVal
        <5>1. hist = <<>> <=> Len(hist) = 0
          BY DEF MetaInv, MetaTypeOK
        <5> QED
          BY <4>2, <5>1 DEF ValueAt, CurrentVal
      <4> QED
        BY <1>3, <4>1, <4>2, <4>3
    <3> QED
      BY <1>1, <2>1, <3>1, <3>2 DEF MetaInv, SteadyInv
  <2>2. CurrentVal' = CurrentVal
    BY DEF CurrentVal
  <2>3. SteadyLeaderReads'
    BY <1>7 DEF MetaInv, SteadyInv, SteadyLeaderReads
  <2>4. leader # NoNode =>
          /\ elections = LastWrite.elections =>
               applied[leader] = Len(hist) /\ (~WasOk => CurrentVal = LastWrite.val)
          /\ WasOk /\ elections = cur.elections =>
               applied[leader] = Len(hist) /\ CurrentVal = cur.val
    BY DEF MetaInv, SteadyInv
  <2>5. cur'.val = cur.val
    BY <1>1, AnsweredFacts
  <2> QED
    BY <1>2, <1>4, <1>7, <2>1, <2>2, <2>3, <2>4, <2>5 DEF SteadyInv
<1> QED
  BY <1>11, <1>12, <1>13, <1>15, <1>16, <1>17, <1>18 DEF MetaInv

\* The leader proposes an entry, which the command waits for.
LEMMA ProposeStep ==
  ASSUME MetaInv, Asking, Target = leader, Target \in Node, NEW e, Proposed(e),
         UNCHANGED <<ids, issued, last, elections, log>>,
         \/ e \in WriteEntry /\ e.cmd = issued /\ e.val = cur.val
         \/ e \in LearnerEntry
         \/ e = [kind |-> "members", conf |-> e.conf],
         cur.stage = e.kind
  PROVE  MetaInv'
<1>1. MetaTypeOK /\ cur # NoCommand /\ ~cur.wait /\ cur.todo # <<>> /\ cur \in Commands
  BY DEF Asking, MetaInv, MetaTypeOK
<1>2. cur' = [cur EXCEPT !.wait = TRUE] /\ pending' = e
      /\ UNCHANGED <<hist, applied, alive, leader, conf, nodes, ids, issued, last, elections, log>>
  BY DEF Proposed
<1>3. /\ cur' \in Commands /\ cur'.wait = TRUE
      /\ cur'.op = cur.op /\ cur'.srv = cur.srv /\ cur'.stage = cur.stage /\ cur'.val = cur.val
      /\ cur'.elections = cur.elections /\ cur'.reach = cur.reach /\ cur'.members = cur.members
      /\ cur'.todo = cur.todo /\ cur'.resps = cur.resps
  BY <1>1, <1>2 DEF Commands
<1>4. cur' # NoCommand
  BY <1>3 DEF Commands, Ops, NoCommand
<1>5. e.kind \in {"write", "learner", "members"} /\ e # NoEntry /\ leader # NoNode
  <2>1. leader # NoNode
    BY MetaAssumption
  <2>2. e.kind \in {"write", "learner", "members"}
    BY DEF WriteEntry, LearnerEntry
  <2>3. NoEntry.kind = "none"
    BY DEF NoEntry
  <2> QED
    BY <2>1, <2>2, <2>3
<1>6. LastWrite' = LastWrite /\ (WasOk' <=> WasOk) /\ CurrentVal' = CurrentVal
  BY <1>1, <1>2, <1>3, <1>4 DEF LastWrite, Writes, WasOk, CurrentVal, OkText
<1>7. MetaTypeOK'
  BY <1>1, <1>2, <1>3 DEF MetaTypeOK
<1>8. Asks' /\ LeaderAlive' /\ LoggedIsCommitted'
  BY <1>1, <1>2, <1>3 DEF MetaInv, Asks, LeaderAlive, LoggedIsCommitted
<1>9. StageInv'
  BY <1>1, <1>3, <1>5 DEF MetaInv, StageInv
<1>10. WaitInv'
  <2>1. e.kind = "write" => e.cmd = issued /\ e.val = cur.val
    BY DEF WriteEntry, LearnerEntry
  <2> QED
    BY <1>1, <1>2, <1>3, <1>4, <1>5, <2>1 DEF WaitInv, Target
<1>11. CommitInv' /\ EpochInv'
  BY <1>1, <1>2, <1>3, <1>6 DEF MetaInv, CommitInv, EpochInv
<1>12. ReachInv'
  BY <1>1, <1>2, <1>3, <1>6 DEF MetaInv, ReachInv, ReachablePutSucceeds
<1>13. SteadyInv'
  BY <1>1, <1>2, <1>3, <1>6 DEF MetaInv, SteadyInv, SteadyLeaderReads
<1> QED
  BY <1>7, <1>8, <1>9, <1>10, <1>11, <1>12, <1>13 DEF MetaInv

\* A command ends.
LEMMA EndStep ==
  ASSUME MetaInv, Returned, cur' = NoCommand, UNCHANGED <<cluster, issued, elections>>,
         last' = NoCommand \/ (last' \in Outcome /\ last'.elections = cur.elections),
         ids' \in [Server -> Seq(Node)], \A s \in Server : ids'[s] # <<>>,
         log' \in Seq(LogLine), LoggedIsCommitted',
         LastWrite'.elections <= elections,
         leader # NoNode /\ elections = LastWrite'.elections =>
           applied[leader] = Len(hist) /\ CurrentVal = LastWrite'.val,
         ReachablePutSucceeds', SteadyLeaderReads'
  PROVE  MetaInv'
<1> USE DEF cluster
<1>1. MetaTypeOK'
  BY DEF MetaInv, MetaTypeOK
<1>2. Asks' /\ LeaderAlive' /\ StageInv'
  BY DEF MetaInv, Asks, LeaderAlive, StageInv
<1>3. pending = NoEntry \/ leader = NoNode
  BY DEF MetaInv, WaitInv, Returned
<1>4. WaitInv'
  BY <1>3 DEF WaitInv
<1>5. ~WasOk' /\ CurrentVal' = CurrentVal
  BY DEF WasOk, CurrentVal
<1>6. CommitInv'
  BY <1>5 DEF CommitInv
<1>9. EpochInv'
  <2>1. cur.elections <= elections /\ last' # NoCommand => last'.elections = cur.elections
    BY DEF MetaInv, EpochInv, Returned
  <2>2. cur.elections <= elections
    BY DEF MetaInv, EpochInv, Returned
  <2> QED
    BY <2>1, <2>2 DEF EpochInv
<1>7. ReachInv'
  BY DEF ReachInv
<1>8. SteadyInv'
  BY <1>5 DEF SteadyInv
<1> QED
  BY <1>1, <1>2, <1>4, <1>6, <1>7, <1>8, <1>9 DEF MetaInv

\* The look at the key returns.
LEMMA ReadReturnsStep == MetaInv /\ ReadReturns => MetaInv'
<1> SUFFICES ASSUME MetaInv, ReadReturns PROVE MetaInv'
  OBVIOUS
<1> DEFINE v == GetValue(Combine(cur.resps))
<1>1. /\ Returned /\ cur.stage \in {"read", "recheck"} /\ cur # NoCommand /\ cur \in Commands
      /\ ~cur.wait /\ cur.todo = <<>>
      /\ UNCHANGED <<cluster, ids, issued, elections, log>>
  BY DEF ReadReturns, Returned, MetaInv, MetaTypeOK
<1>2. cur.resps \in Seq(Answers) /\ Combine(cur.resps) \in Answers
  BY <1>1, Combined DEF Commands
<1>3. v \in Vals \cup Node \cup {"Ok", "Err"}
  BY <1>2 DEF GetValue, Answers, Vals
<1>4. LastWrite' = LastWrite /\ LastWrite.elections <= elections /\ ~WasOk
  BY <1>1 DEF LastWrite, Writes, MetaInv, EpochInv, WasOk
<1>5. leader # NoNode /\ elections = LastWrite'.elections =>
        applied[leader] = Len(hist) /\ CurrentVal = LastWrite'.val
  BY <1>4 DEF MetaInv, SteadyInv
<1>6. LoggedIsCommitted'
  BY <1>1 DEF MetaInv, LoggedIsCommitted, cluster
<1>7. ids' \in [Server -> Seq(Node)] /\ \A s \in Server : ids'[s] # <<>>
  BY <1>1 DEF MetaInv, MetaTypeOK, Asks
<1>8. log' \in Seq(LogLine)
  BY <1>1 DEF MetaInv, MetaTypeOK
<1>9. ASSUME cur.op = "get", Reply(v # "", v) PROVE MetaInv'
  <2>1. cur' = NoCommand
    BY <1>9 DEF Reply
  <2>2. last' \in Outcome /\ last'.elections = cur.elections /\ last'.op = "get"
        /\ last'.got = v /\ last'.srv = cur.srv
    BY <1>1, <1>3, <1>9 DEF Reply, Outcome, Commands, MetaInv, MetaTypeOK
  <2>3. ReachablePutSucceeds'
    BY <2>2 DEF ReachablePutSucceeds
  <2>4. SteadyLeaderReads'
    <3> SUFFICES ASSUME elections = LastWrite.elections, leader # NoNode, Head(ids[cur.srv]) = leader
                 PROVE  v = LastWrite.val
      BY <1>1, <1>4, <2>2 DEF SteadyLeaderReads, cluster
    <3>1. cur.stage = "read" /\ cur.srv \in Server /\ ids[cur.srv] # <<>>
      BY <1>1, <1>9 DEF MetaInv, StageInv, Asks, Commands
    <3>2. cur.resps # <<>> /\ cur.resps[1] = OkDict(LastWrite.val)
      BY <1>1, <1>9, <3>1 DEF MetaInv, SteadyInv
    <3>3. cur.resps[1].t = "Ok" /\ cur.resps[1].v = LastWrite.val
      BY <3>2 DEF OkDict
    <3>4. ErrText.t = "text"
      BY DEF ErrText
    <3>5. cur.resps[1] # ErrText
      BY <3>3, <3>4
    <3>6. Combine(cur.resps) = cur.resps[1]
      BY <1>2, <3>2, <3>5, Combined
    <3> QED
      BY <3>3, <3>6 DEF GetValue
  <2> QED
    BY <1>1, <1>4, <1>5, <1>6, <1>7, <1>8, <2>1, <2>2, <2>3, <2>4, EndStep
<1>10. ASSUME cur.op = "delete", Reply(FALSE, "") PROVE MetaInv'
  <2>1. cur' = NoCommand
    BY <1>10 DEF Reply
  <2>2. last' \in Outcome /\ last'.elections = cur.elections /\ last'.op = "delete"
    BY <1>1, <1>10 DEF Reply, Outcome, Commands, MetaInv, MetaTypeOK, Vals
  <2>3. ReachablePutSucceeds' /\ SteadyLeaderReads'
    BY <2>2 DEF ReachablePutSucceeds, SteadyLeaderReads
  <2> QED
    BY <1>1, <1>4, <1>5, <1>6, <1>7, <1>8, <2>1, <2>2, <2>3, EndStep
<1>11. ASSUME cur.op \in {"put", "delete"}, UNCHANGED last,
              NEW st \in {"recheck", "write"}, st = "recheck" => cur.op = "delete",
              cur' = FanOut(cur, cur.srv, st)
       PROVE  MetaInv'
  <2>1. cur' = [cur EXCEPT !.stage = st, !.todo = ids[cur.srv], !.resps = <<>>]
    BY <1>11 DEF FanOut
  <2>2. cur.srv \in Server /\ ids[cur.srv] \in Seq(Node) /\ <<>> \in Seq(Answers)
    BY <1>1 DEF Commands, MetaInv, MetaTypeOK
  <2>3. /\ cur' \in Commands /\ cur'.wait = FALSE /\ cur'.stage = st
        /\ cur'.op = cur.op /\ cur'.srv = cur.srv /\ cur'.val = cur.val
        /\ cur'.elections = cur.elections /\ cur'.reach = cur.reach /\ cur'.members = cur.members
        /\ cur'.todo = ids[cur.srv] /\ cur'.resps = <<>>
    BY <1>1, <1>11, <2>1, <2>2 DEF Commands, Stages
  <2>4. cur' # NoCommand
    BY <2>3 DEF Commands, Ops, NoCommand
  <2>5. ToSet(cur'.resps) = {}
    BY <2>3 DEF ToSet
  <2>6. ~WasOk'
    BY <2>5 DEF WasOk
  <2> USE DEF cluster
  <2>7. MetaTypeOK'
    BY <1>1, <1>11, <2>3 DEF MetaInv, MetaTypeOK
  <2>8. Asks' /\ LeaderAlive'
    BY <1>1, <1>11, <2>3 DEF MetaInv, Asks, LeaderAlive
  <2>9. StageInv'
    BY <1>11, <2>3, <2>5 DEF StageInv, Writes
  <2>10. pending = NoEntry \/ leader = NoNode
    BY <1>1 DEF MetaInv, WaitInv
  <2>11. WaitInv' /\ CommitInv'
    BY <1>1, <2>3, <2>6, <2>10 DEF WaitInv, CommitInv
  <2>12. EpochInv'
    BY <1>1, <1>4, <1>11, <2>3 DEF MetaInv, EpochInv
  <2>13. ReachInv'
    BY <1>1, <1>11, <2>3 DEF MetaInv, ReachInv, ReachablePutSucceeds
  <2>14. CurrentVal' = CurrentVal
    BY <1>1 DEF CurrentVal
  <2>15. SteadyLeaderReads'
    BY <1>1, <1>4, <1>11 DEF MetaInv, SteadyInv, SteadyLeaderReads
  <2>16. SteadyInv'
    BY <1>1, <1>4, <1>5, <1>11, <2>3, <2>6, <2>14, <2>15 DEF SteadyInv
  <2> QED
    BY <1>6, <2>7, <2>8, <2>9, <2>11, <2>12, <2>13, <2>16 DEF MetaInv
<1> HIDE DEF v
<1>12. \/ cur.op = "get" /\ Reply(v # "", v)
       \/ cur.op = "delete" /\ Reply(FALSE, "")
       \/ /\ cur.op = "put" \/ cur.op = "delete"
          /\ cur' = FanOut(cur, cur.srv, IF cur.op = "delete" /\ cur.stage = "read"
                                          THEN "recheck" ELSE "write")
          /\ UNCHANGED last
  BY DEF ReadReturns, v
<1> QED
  BY <1>9, <1>10, <1>11, <1>12

\* A write returns.
LEMMA WriteReturnsStep == MetaInv /\ WriteReturns => MetaInv'
<1> SUFFICES ASSUME MetaInv, WriteReturns PROVE MetaInv'
  OBVIOUS
<1> DEFINE ok == Combine(cur.resps) = OkText
           e == [op |-> cur.op, srv |-> cur.srv, cmd |-> issued,
                 val |-> cur.val, elections |-> cur.elections]
<1>1. /\ Returned /\ cur.stage = "write" /\ cur # NoCommand /\ cur \in Commands
      /\ ~cur.wait /\ cur.todo = <<>>
      /\ UNCHANGED <<cluster, ids, issued, elections>> /\ Reply(ok, "") /\ WriteLog
  BY DEF WriteReturns, Returned, MetaInv, MetaTypeOK
<1>2. cur' = NoCommand
  BY <1>1 DEF Reply
<1>3. /\ last' \in Outcome /\ last'.elections = cur.elections /\ last'.op = cur.op
      /\ last'.ok = ok /\ last'.reach = cur.reach
  BY <1>1 DEF Reply, Outcome, Commands, MetaInv, MetaTypeOK, Vals
<1>4. cur.op \in Writes /\ ToSet(cur.resps) \subseteq {OkText, ErrText}
  BY <1>1 DEF MetaInv, StageInv
<1>5. cur.resps \in Seq(Answers)
  BY <1>1 DEF Commands
<1>6. ok <=> WasOk
  BY <1>1, <1>4, <1>5, Combined DEF WasOk
<1>7. e \in LogLine /\ e.op = cur.op /\ e.cmd = issued /\ e.val = cur.val /\ e.elections = cur.elections
  BY <1>1 DEF LogLine, Commands, MetaInv, MetaTypeOK
<1>8. log' = IF ok THEN Append(log, e) ELSE log
  BY <1>1, <1>3 DEF WriteLog
<1>9. log \in Seq(LogLine)
  BY DEF MetaInv, MetaTypeOK
<1>10. ids' \in [Server -> Seq(Node)] /\ \A s \in Server : ids'[s] # <<>>
  BY <1>1 DEF MetaInv, MetaTypeOK, Asks
<1> HIDE DEF e, ok
<1>11. log' \in Seq(LogLine)
  BY <1>7, <1>8, <1>9
<1>12. ok => LastWrite' = e
  BY <1>4, <1>7, <1>8, <1>9, LastWriteNext
<1>13. ~ok => LastWrite' = LastWrite
  BY <1>8 DEF LastWrite, Writes
<1>14. LoggedIsCommitted'
  <2>1. hist' = hist
    BY <1>1 DEF cluster
  <2>2. CASE ok
    <3>1. \E j \in DOMAIN hist : hist[j].cmd = e.cmd
      BY <1>6, <1>7, <2>2 DEF MetaInv, CommitInv
    <3>2. \A i \in DOMAIN log' : log'[i] = e \/ (i \in DOMAIN log /\ log'[i] = log[i])
      BY <1>7, <1>8, <1>9, <2>2
    <3> QED
      BY <2>1, <3>1, <3>2 DEF MetaInv, LoggedIsCommitted, Writes
  <2>3. CASE ~ok
    BY <1>8, <2>1, <2>3 DEF MetaInv, LoggedIsCommitted, Writes
  <2> QED
    BY <2>2, <2>3
<1>15. cur.elections <= elections /\ LastWrite.elections <= elections
  BY <1>1 DEF MetaInv, EpochInv
<1>16. LastWrite'.elections <= elections
  BY <1>7, <1>12, <1>13, <1>15
<1>17. leader # NoNode /\ elections = LastWrite'.elections =>
         applied[leader] = Len(hist) /\ CurrentVal = LastWrite'.val
  <2>1. CASE ok
    BY <1>6, <1>7, <1>12, <2>1 DEF MetaInv, SteadyInv
  <2>2. CASE ~ok
    BY <1>6, <1>13, <2>2 DEF MetaInv, SteadyInv
  <2> QED
    BY <2>1, <2>2
<1>18. ReachablePutSucceeds'
  <2> SUFFICES ASSUME cur.op = "put", cur.reach, leader # NoNode, elections = cur.elections
               PROVE  ok
    BY <1>1, <1>3 DEF ReachablePutSucceeds, cluster
  <2>1. leader \notin ToSet(cur.todo)
    <3> DEFINE td == cur.todo
    <3>1. td = <<>>
      BY <1>1
    <3> HIDE DEF td
    <3>2. DOMAIN td = {}
      BY <3>1
    <3>3. leader \notin ToSet(td)
      BY <3>2, Zenon DEF ToSet
    <3> QED BY <3>3 DEF td
  <2> QED
    BY <1>1, <1>6, <2>1 DEF MetaInv, ReachInv
<1>19. SteadyLeaderReads'
  BY <1>3, <1>4 DEF SteadyLeaderReads, Writes
<1> QED
  BY <1>1, <1>2, <1>3, <1>10, <1>11, <1>14, <1>16, <1>17, <1>18, <1>19, EndStep

\* Other commands return: the log may get a line that is not of a write.
LEMMA OtherReturnsStep ==
  MetaInv /\ (MembersReturn \/ LearnerReturns \/ MetricsReturn) => MetaInv'
<1> SUFFICES ASSUME MetaInv, MembersReturn \/ LearnerReturns \/ MetricsReturn PROVE MetaInv'
  OBVIOUS
<1> DEFINE e == [op |-> cur.op, srv |-> cur.srv, cmd |-> issued,
                 val |-> cur.val, elections |-> cur.elections]
<1>1. /\ Returned /\ cur.stage \in {"members", "learner", "metrics"}
      /\ cur # NoCommand /\ cur \in Commands /\ cur' = NoCommand
      /\ UNCHANGED <<cluster, issued, elections>>
  BY DEF MembersReturn, LearnerReturns, MetricsReturn, Returned, MetaInv, MetaTypeOK, Reply
<1>2. cur.op = cur.stage
  BY <1>1 DEF MetaInv, StageInv
<1>3. last' = NoCommand \/ (last' \in Outcome /\ last'.elections = cur.elections /\ last'.op = cur.op)
  <2>1. CASE MetricsReturn
    BY <2>1 DEF MetricsReturn
  <2>2. ASSUME NEW ok \in BOOLEAN, Reply(ok, "")
        PROVE  last' \in Outcome /\ last'.elections = cur.elections /\ last'.op = cur.op
    BY <1>1, <2>2 DEF Reply, Outcome, Commands, MetaInv, MetaTypeOK, Vals
  <2>3. CASE MembersReturn \/ LearnerReturns
    <3>1. Reply(Combine(cur.resps).t = "Ok", "")
      BY <2>3 DEF MembersReturn, LearnerReturns
    <3> QED
      BY <2>2, <3>1
  <2> QED
    BY <2>1, <2>3
<1>4. e \in LogLine /\ e.op = cur.op
  BY <1>1 DEF LogLine, Commands, MetaInv, MetaTypeOK
<1>5. log' = log \/ log' = Append(log, e)
  BY DEF MembersReturn, LearnerReturns, MetricsReturn, WriteLog
<1>6. log \in Seq(LogLine) /\ cur.op \notin Writes
  BY <1>1, <1>2 DEF MetaInv, MetaTypeOK, Writes
<1> HIDE DEF e
<1>7. log' \in Seq(LogLine) /\ LastWrite' = LastWrite
  <2>1. CASE log' = log
    BY <1>6, <2>1 DEF LastWrite, Writes
  <2>2. CASE log' = Append(log, e)
    BY <1>4, <1>6, <2>2, LastWriteNext
  <2> QED
    BY <1>5, <2>1, <2>2
<1>8. LoggedIsCommitted'
  <2>1. hist' = hist
    BY <1>1 DEF cluster
  <2>2. \A i \in DOMAIN log' : log'[i] = e \/ (i \in DOMAIN log /\ log'[i] = log[i])
    BY <1>4, <1>5, <1>6
  <2> QED
    BY <1>4, <1>6, <2>1, <2>2 DEF MetaInv, LoggedIsCommitted, Writes
<1>9. ids' \in [Server -> Seq(Node)] /\ \A s \in Server : ids'[s] # <<>>
  <2>1. ids \in [Server -> Seq(Node)] /\ \A s \in Server : ids[s] # <<>>
    BY DEF MetaInv, MetaTypeOK, Asks
  <2>2. ids' = ids \/ (cur.stage = "members" /\ ids' = [ids EXCEPT ![cur.srv] = cur.members])
    BY DEF MembersReturn, LearnerReturns, MetricsReturn
  <2>3. cur.stage = "members" => cur.members \in Seq(Node) /\ cur.members # <<>>
    BY <1>1, <1>2 DEF MetaInv, Asks, Commands
  <2> QED
    BY <2>1, <2>2, <2>3
<1>10. ~WasOk /\ LastWrite.elections <= elections
  BY <1>1 DEF WasOk, MetaInv, EpochInv
<1>11. leader # NoNode /\ elections = LastWrite'.elections =>
         applied[leader] = Len(hist) /\ CurrentVal = LastWrite'.val
  BY <1>7, <1>10 DEF MetaInv, SteadyInv
<1>12. last'.op \notin {"put", "get"}
  BY <1>1, <1>2, <1>3 DEF NoCommand
<1>13. ReachablePutSucceeds' /\ SteadyLeaderReads'
  BY <1>12 DEF ReachablePutSucceeds, SteadyLeaderReads
<1> QED
  BY <1>1, <1>3, <1>7, <1>8, <1>9, <1>10, <1>11, <1>13, EndStep

\* The proposed write is committed.
LEMMA CommitWriteStep == MetaInv /\ CommitWrite => MetaInv'
<1> SUFFICES ASSUME MetaInv, CommitWrite PROVE MetaInv'
  OBVIOUS
<1> DEFINE w == [cmd |-> pending.cmd, val |-> pending.val]
<1>1. /\ pending.kind = "write" /\ leader # NoNode /\ leader \in Node
      /\ hist' = Append(hist, w) /\ applied' = [applied EXCEPT ![leader] = Len(hist')]
      /\ pending' = NoEntry /\ Answered(OkText)
      /\ UNCHANGED <<alive, leader, conf, nodes, ids, issued, last, elections, log>>
  BY DEF CommitWrite, MetaInv, MetaTypeOK
<1>2. pending # NoEntry /\ pending \in WriteEntry
  BY <1>1 DEF NoEntry, LearnerEntry, MetaInv, MetaTypeOK
<1>3. /\ cur # NoCommand /\ cur.wait /\ cur.todo # <<>> /\ cur.stage = "write"
      /\ pending.cmd = issued /\ pending.val = cur.val
  BY <1>1, <1>2 DEF MetaInv, WaitInv
<1>4. w \in [cmd : Nat, val : Vals] /\ w.cmd = issued /\ w.val = cur.val
  BY <1>2, <1>3 DEF WriteEntry
<1> HIDE DEF w
<1>5. OkText \in Answers /\ MetaTypeOK
  BY DEF OkText, Answers, MetaInv
<1>6. /\ cur' \in Commands /\ cur' # NoCommand
      /\ cur'.op = cur.op /\ cur'.srv = cur.srv /\ cur'.stage = cur.stage /\ cur'.wait = FALSE
      /\ cur'.elections = cur.elections /\ cur'.reach = cur.reach /\ cur'.members = cur.members
      /\ cur'.val = cur.val
      /\ ToSet(cur'.resps) = ToSet(cur.resps) \cup {OkText}
  BY <1>1, <1>3, <1>5, AnsweredFacts
<1>7. /\ hist' \in Seq([cmd : Nat, val : Vals]) /\ Len(hist') = Len(hist) + 1
      /\ \A i \in DOMAIN hist : i \in DOMAIN hist' /\ hist'[i] = hist[i]
      /\ Len(hist') \in DOMAIN hist' /\ hist'[Len(hist')] = w /\ hist' # <<>>
      /\ Len(hist) \in Nat
  BY <1>1, <1>4 DEF MetaInv, MetaTypeOK
<1>8. applied' \in [Node -> Nat] /\ applied'[leader] = Len(hist')
      /\ \A n \in Node : applied'[n] <= Len(hist')
  BY <1>1, <1>7 DEF MetaInv, MetaTypeOK, LeaderAlive
<1>9. WasOk' /\ LastWrite' = LastWrite
  BY <1>1, <1>3, <1>6 DEF WasOk, OkText, LastWrite, Writes
<1>10. CurrentVal' = cur.val
  BY <1>4, <1>7 DEF CurrentVal
<1>11. MetaTypeOK'
  BY <1>1, <1>6, <1>7, <1>8 DEF MetaInv, MetaTypeOK
<1>12. Asks' /\ LeaderAlive'
  BY <1>1, <1>3, <1>6, <1>8 DEF MetaInv, Asks, LeaderAlive
<1>13. StageInv'
  BY <1>3, <1>6 DEF MetaInv, StageInv
<1>14. WaitInv'
  BY <1>1, <1>6 DEF WaitInv
<1>15. CommitInv'
  BY <1>1, <1>4, <1>7 DEF CommitInv
<1>16. EpochInv'
  BY <1>1, <1>3, <1>6, <1>9 DEF MetaInv, EpochInv
<1>17. ReachInv'
  BY <1>1, <1>3, <1>6, <1>9 DEF MetaInv, ReachInv, ReachablePutSucceeds
<1>18. LoggedIsCommitted'
  BY <1>1, <1>7 DEF MetaInv, LoggedIsCommitted, Writes
<1>19. SteadyLeaderReads'
  BY <1>1, <1>9 DEF MetaInv, SteadyInv, SteadyLeaderReads
<1>20. SteadyInv'
  BY <1>1, <1>3, <1>6, <1>8, <1>9, <1>10, <1>19 DEF SteadyInv
<1> QED
  BY <1>11, <1>12, <1>13, <1>14, <1>15, <1>16, <1>17, <1>18, <1>20 DEF MetaInv

\* The leader stays, what is committed and what its command was answered does
\* not change, and it may apply more.
LEMMA QuietStep ==
  ASSUME MetaInv, UNCHANGED <<hist, alive, leader, ids, issued, last, elections, log>>,
         MetaTypeOK', StageInv', WaitInv', Asks',
         cur' = cur \/ (/\ cur # NoCommand /\ cur' # NoCommand /\ cur.stage \in {"members", "learner"}
                       /\ cur'.stage = cur.stage /\ cur'.elections = cur.elections /\ cur'.op = cur.op),
         \A n \in Node : applied'[n] <= Len(hist),
         leader # NoNode => applied'[leader] = applied[leader] \/ applied'[leader] = Len(hist)
  PROVE  MetaInv'
<1>1. LastWrite' = LastWrite /\ CurrentVal' = CurrentVal
  BY DEF LastWrite, Writes, CurrentVal
<1>2. (WasOk' <=> WasOk) /\ (cur' = cur \/ ~WasOk)
  BY DEF WasOk, OkText
<1>3. LeaderAlive' /\ LoggedIsCommitted'
  BY DEF MetaInv, LeaderAlive, LoggedIsCommitted, Writes
<1>4. CommitInv'
  BY <1>2 DEF MetaInv, CommitInv
<1>5. EpochInv'
  BY <1>1 DEF MetaInv, EpochInv
<1>6. ReachInv'
  <2>1. CASE cur' = cur
    BY <1>2, <2>1 DEF MetaInv, ReachInv, ReachablePutSucceeds
  <2>2. CASE cur' # cur
    <3>1. cur'.op # "put"
      BY <2>2 DEF MetaInv, StageInv
    <3> QED
      BY <3>1 DEF MetaInv, ReachInv, ReachablePutSucceeds
  <2> QED
    BY <2>1, <2>2
<1>7. SteadyLeaderReads'
  BY <1>1 DEF MetaInv, SteadyInv, SteadyLeaderReads
<1>8. SteadyInv'
  <2>1. CASE cur' = cur
    BY <1>1, <1>2, <1>7, <2>1 DEF MetaInv, SteadyInv
  <2>2. CASE cur' # cur
    <3>1. cur'.op # "get" /\ ~WasOk /\ ~WasOk'
      BY <1>2, <2>2 DEF MetaInv, StageInv
    <3> QED
      BY <1>1, <1>7, <3>1 DEF MetaInv, SteadyInv
  <2> QED
    BY <2>1, <2>2
<1> QED
  BY <1>3, <1>4, <1>5, <1>6, <1>8 DEF MetaInv

\* A configuration is committed: it is the last one or a joint one.
LEMMA CommitMembersStep == MetaInv /\ CommitMembers => MetaInv'
<1> SUFFICES ASSUME MetaInv, CommitMembers PROVE MetaInv'
  OBVIOUS
<1>1. /\ pending.kind = "members" /\ leader # NoNode /\ leader \in Node
      /\ applied' = [applied EXCEPT ![leader] = Len(hist)]
      /\ UNCHANGED <<hist, alive, leader, ids, issued, last, elections, log>>
  BY DEF CommitMembers, MetaInv, MetaTypeOK
<1>7. \/ pending' = NoEntry /\ Answered(OkDict(""))
      \/ pending' = [pending EXCEPT !.conf = <<Last(@)>>] /\ UNCHANGED cur
  BY DEF CommitMembers
<1>2. pending # NoEntry
  BY <1>1 DEF NoEntry
<1>3. cur # NoCommand /\ cur.wait /\ cur.todo # <<>> /\ cur.stage = "members" /\ Head(cur.todo) = leader
  BY <1>1, <1>2 DEF MetaInv, WaitInv
<1>4. /\ applied' \in [Node -> Nat] /\ \A n \in Node : applied'[n] <= Len(hist)
      /\ applied'[leader] = Len(hist)
  BY <1>1 DEF MetaInv, MetaTypeOK, LeaderAlive
<1>5. CASE pending' = NoEntry /\ Answered(OkDict(""))
  <2>1. OkDict("") \in Answers /\ MetaTypeOK
    BY DEF OkDict, Answers, Vals, MetaInv
  <2>2. /\ cur' \in Commands /\ cur' # NoCommand
        /\ cur'.op = cur.op /\ cur'.stage = cur.stage /\ cur'.wait = FALSE
        /\ cur'.elections = cur.elections /\ cur'.members = cur.members
    BY <1>3, <1>5, <2>1, AnsweredFacts
  <2>3. MetaTypeOK'
    BY <1>1, <1>4, <1>5, <2>2 DEF MetaInv, MetaTypeOK
  <2>4. StageInv' /\ WaitInv' /\ Asks'
    BY <1>1, <1>3, <1>5, <2>2 DEF MetaInv, StageInv, WaitInv, Asks
  <2> QED
    BY <1>1, <1>3, <1>4, <2>2, <2>3, <2>4, QuietStep
<1>6. CASE pending' = [pending EXCEPT !.conf = <<Last(@)>>] /\ UNCHANGED cur
  <2>1. pending = [kind |-> "members", conf |-> pending.conf]
    BY <1>1, <1>2 DEF MetaInv, MetaTypeOK, WriteEntry, LearnerEntry
  <2>2. pending' = [kind |-> "members", conf |-> <<Last(pending.conf)>>]
    BY <1>6, <2>1
  <2>3. pending'.kind = "members" /\ pending' = [kind |-> "members", conf |-> pending'.conf]
    BY <2>2
  <2>4. pending' # NoEntry
    BY <2>3 DEF NoEntry
  <2>5. MetaTypeOK'
    BY <1>1, <1>4, <1>6, <2>3 DEF MetaInv, MetaTypeOK
  <2>6. StageInv' /\ Asks'
    BY <1>1, <1>6 DEF MetaInv, StageInv, Asks, Writes, OkText, ErrText
  <2>7. WaitInv'
    BY <1>1, <1>3, <1>6, <2>3, <2>4 DEF WaitInv
  <2> QED
    BY <1>1, <1>4, <1>6, <2>5, <2>6, <2>7, QuietStep
<1> QED
  BY <1>5, <1>6, <1>7

\* The new node of a learner's entry is known, and the command goes on to wait.
LEMMA CommitLearnerStep == MetaInv /\ CommitLearner => MetaInv'
<1> SUFFICES ASSUME MetaInv, CommitLearner PROVE MetaInv'
  OBVIOUS
<1>1. /\ pending.kind = "learner" /\ leader # NoNode /\ leader \in Node /\ pending' = NoEntry
      /\ applied' = [applied EXCEPT ![leader] = Len(hist)]
      /\ UNCHANGED <<hist, alive, leader, ids, cur, issued, last, elections, log>>
  BY DEF CommitLearner, MetaInv, MetaTypeOK
<1>2. pending # NoEntry
  BY <1>1 DEF NoEntry
<1>3. cur # NoCommand /\ cur.wait /\ cur.stage = "learner"
  BY <1>1, <1>2 DEF MetaInv, WaitInv
<1>4. /\ applied' \in [Node -> Nat] /\ \A n \in Node : applied'[n] <= Len(hist)
      /\ applied'[leader] = Len(hist)
  BY <1>1 DEF MetaInv, MetaTypeOK, LeaderAlive
<1>5. MetaTypeOK'
  BY <1>1, <1>4 DEF MetaInv, MetaTypeOK
<1>6. StageInv' /\ Asks'
  BY <1>1 DEF MetaInv, StageInv, Asks, Writes, OkText, ErrText
<1>7. NoEntry.kind = "none"
  BY DEF NoEntry
<1>8. WaitInv'
  BY <1>1, <1>3, <1>7 DEF WaitInv
<1> QED
  BY <1>1, <1>4, <1>5, <1>6, <1>8, QuietStep

\* A learner counts as up to date, which ends the wait.
LEMMA LearnerUpToDateStep == MetaInv /\ LearnerUpToDate => MetaInv'
<1> SUFFICES ASSUME MetaInv, LearnerUpToDate PROVE MetaInv'
  OBVIOUS
<1>1. /\ cur # NoCommand /\ cur.wait /\ cur.stage = "learner" /\ pending = NoEntry
      /\ Answered(OkDict("")) /\ UNCHANGED <<cluster, ids, issued, last, elections, log>>
  BY DEF LearnerUpToDate
<1>2. OkDict("") \in Answers /\ MetaTypeOK
  BY DEF OkDict, Answers, Vals, MetaInv
<1>3. cur.todo # <<>>
  BY <1>1 DEF MetaInv, StageInv
<1>4. /\ cur' \in Commands /\ cur' # NoCommand
      /\ cur'.op = cur.op /\ cur'.stage = cur.stage /\ cur'.wait = FALSE
      /\ cur'.elections = cur.elections /\ cur'.members = cur.members
  BY <1>1, <1>2, <1>3, AnsweredFacts
<1> USE DEF cluster
<1>5. MetaTypeOK'
  BY <1>1, <1>4 DEF MetaInv, MetaTypeOK
<1>6. StageInv' /\ WaitInv' /\ Asks'
  BY <1>1, <1>4 DEF MetaInv, StageInv, WaitInv, Asks
<1>7. \A n \in Node : applied'[n] <= Len(hist)
  BY <1>1 DEF MetaInv, LeaderAlive
<1> QED
  BY <1>1, <1>4, <1>5, <1>6, <1>7, QuietStep

\* A node applies more; a leader that has to is not one that has acknowledged
\* the last write.
LEMMA CatchUpStep == ASSUME NEW n \in Node PROVE MetaInv /\ CatchUp(n) => MetaInv'
<1> SUFFICES ASSUME MetaInv, CatchUp(n) PROVE MetaInv'
  OBVIOUS
<1>1. PICK k \in (applied[n] + 1)..Len(hist) : applied' = [applied EXCEPT ![n] = k]
  BY DEF CatchUp
<1>2. UNCHANGED <<hist, alive, leader, conf, nodes, pending, ids, cur, issued, last, elections, log>>
      /\ applied[n] < Len(hist)
  BY DEF CatchUp
<1>3. applied \in [Node -> Nat] /\ Len(hist) \in Nat /\ \A m \in Node : applied[m] <= Len(hist)
  BY DEF MetaInv, MetaTypeOK, LeaderAlive
<1>4. applied' \in [Node -> Nat] /\ \A m \in Node : applied'[m] <= Len(hist)
  BY <1>1, <1>3
<1>5. MetaTypeOK'
  BY <1>2, <1>4 DEF MetaInv, MetaTypeOK
<1>6. StageInv' /\ WaitInv' /\ Asks'
  BY <1>2 DEF MetaInv, StageInv, WaitInv, Asks, Writes, OkText, ErrText
<1>7. CASE n # leader
  <2>1. leader # NoNode => applied'[leader] = applied[leader]
    BY <1>1, <1>3, <1>7 DEF MetaInv, MetaTypeOK
  <2> QED
    BY <1>2, <1>4, <1>5, <1>6, <2>1, QuietStep
<1>8. CASE n = leader
  \* A leader that has not applied everything yet.
  <2>1. leader # NoNode /\ ~(elections = LastWrite.elections) /\ ~(WasOk /\ elections = cur.elections)
    <3>1. leader # NoNode
      BY <1>8, MetaAssumption
    <3>2. applied[leader] # Len(hist)
      BY <1>2, <1>3, <1>8
    <3> QED
      BY <3>1, <3>2 DEF MetaInv, SteadyInv
  <2>2. LastWrite' = LastWrite /\ CurrentVal' = CurrentVal /\ (WasOk' <=> WasOk)
    BY <1>2 DEF LastWrite, Writes, CurrentVal, WasOk, OkText
  <2>3. LeaderAlive' /\ LoggedIsCommitted' /\ CommitInv'
    BY <1>2, <1>4, <2>2 DEF MetaInv, LeaderAlive, LoggedIsCommitted, Writes, CommitInv
  <2>4. EpochInv'
    BY <1>2, <2>2 DEF MetaInv, EpochInv
  <2>5. ReachInv'
    BY <1>2, <2>2 DEF MetaInv, ReachInv, ReachablePutSucceeds
  <2>6. SteadyLeaderReads' /\ SteadyInv'
    BY <1>2, <2>1, <2>2 DEF MetaInv, SteadyInv, SteadyLeaderReads
  <2> QED
    BY <1>5, <1>6, <2>3, <2>4, <2>5, <2>6 DEF MetaInv
<1> QED
  BY <1>7, <1>8

\* A node that starts again with less is not the leader.
LEMMA RecoverStep == ASSUME NEW n \in Node PROVE MetaInv /\ Recover(n) => MetaInv'
<1> SUFFICES ASSUME MetaInv, Recover(n) PROVE MetaInv'
  OBVIOUS
<1>1. PICK k \in 0..applied[n] : applied' = [applied EXCEPT ![n] = k]
  BY DEF Recover
<1>2. UNCHANGED <<hist, leader, conf, nodes, pending, ids, cur, issued, last, elections, log>>
      /\ ~alive[n] /\ alive' = [alive EXCEPT ![n] = TRUE]
  BY DEF Recover
<1>3. /\ applied \in [Node -> Nat] /\ Len(hist) \in Nat /\ alive \in [Node -> BOOLEAN]
      /\ \A m \in Node : applied[m] <= Len(hist)
      /\ leader # NoNode => leader \in Node /\ alive[leader]
  BY DEF MetaInv, MetaTypeOK, LeaderAlive
<1>4. /\ applied' \in [Node -> Nat] /\ \A m \in Node : applied'[m] <= Len(hist)
      /\ alive' \in [Node -> BOOLEAN]
      /\ leader # NoNode => applied'[leader] = applied[leader] /\ alive'[leader]
  BY <1>1, <1>2, <1>3
<1>5. MetaTypeOK'
  BY <1>2, <1>4 DEF MetaInv, MetaTypeOK
<1>6. StageInv' /\ WaitInv' /\ Asks'
  BY <1>2 DEF MetaInv, StageInv, WaitInv, Asks, Writes, OkText, ErrText
<1>7. LastWrite' = LastWrite /\ CurrentVal' = CurrentVal /\ (WasOk' <=> WasOk)
  BY <1>2 DEF LastWrite, Writes, CurrentVal, WasOk, OkText
<1>8. LeaderAlive' /\ LoggedIsCommitted' /\ CommitInv'
  BY <1>2, <1>4, <1>7 DEF MetaInv, LeaderAlive, LoggedIsCommitted, Writes, CommitInv
<1>9. EpochInv' /\ ReachInv'
  BY <1>2, <1>7 DEF MetaInv, EpochInv, ReachInv, ReachablePutSucceeds
<1>10. SteadyLeaderReads'
  BY <1>2, <1>7 DEF MetaInv, SteadyInv, SteadyLeaderReads
<1>11. SteadyInv'
  BY <1>2, <1>4, <1>7, <1>10 DEF MetaInv, SteadyInv
<1> QED
  BY <1>5, <1>6, <1>8, <1>9, <1>11 DEF MetaInv

\* The leader goes.
LEMMA KillStep == ASSUME NEW n \in Node PROVE MetaInv /\ Kill(n) => MetaInv'
<1> SUFFICES ASSUME MetaInv, Kill(n) PROVE MetaInv'
  OBVIOUS
<1>1. alive' = [alive EXCEPT ![n] = FALSE]
      /\ UNCHANGED <<hist, applied, conf, nodes, pending, ids, issued, last, elections, log>>
  BY DEF Kill
<1>2. alive' \in [Node -> BOOLEAN]
  BY <1>1 DEF MetaInv, MetaTypeOK
<1>3. LastWrite' = LastWrite /\ CurrentVal' = CurrentVal
  BY <1>1 DEF LastWrite, Writes, CurrentVal
<1>4. CASE leader # n
  <2>1. UNCHANGED <<leader, cur>>
    BY <1>4 DEF Kill
  <2>2. WasOk' <=> WasOk
    BY <2>1 DEF WasOk, OkText
  <2>3. MetaTypeOK'
    BY <1>1, <1>2, <2>1 DEF MetaInv, MetaTypeOK
  <2>4. LeaderAlive'
    BY <1>1, <1>4, <2>1 DEF MetaInv, MetaTypeOK, LeaderAlive
  <2>5. StageInv' /\ WaitInv' /\ Asks' /\ LoggedIsCommitted' /\ CommitInv'
    BY <1>1, <2>1, <2>2 DEF MetaInv, StageInv, WaitInv, Asks, Writes, OkText, ErrText,
                            LoggedIsCommitted, CommitInv
  <2>6. EpochInv' /\ ReachInv'
    BY <1>1, <1>3, <2>1, <2>2 DEF MetaInv, EpochInv, ReachInv, ReachablePutSucceeds
  <2>7. SteadyLeaderReads' /\ SteadyInv'
    BY <1>1, <1>3, <2>1, <2>2 DEF MetaInv, SteadyInv, SteadyLeaderReads
  <2> QED
    BY <2>3, <2>4, <2>5, <2>6, <2>7 DEF MetaInv
<1>5. CASE leader = n
  <2>1. leader' = NoNode
    BY <1>5 DEF Kill
  <2>2. /\ cur' = NoCommand \/ cur' \in Commands
        /\ cur' = NoCommand <=> cur = NoCommand
        /\ cur # NoCommand =>
             /\ cur'.op = cur.op /\ cur'.stage = cur.stage /\ cur'.wait = FALSE
             /\ cur'.elections = cur.elections /\ cur'.members = cur.members
             /\ cur'.stage = "write" => ToSet(cur'.resps) \subseteq {OkText, ErrText}
        /\ WasOk' <=> WasOk
    <3>1. CASE cur # NoCommand /\ cur.wait
      <4>1. Answered(ErrText) /\ ErrText \in Answers /\ MetaTypeOK
        BY <1>5, <3>1 DEF Kill, MetaInv, ErrText, Answers
      <4>2. cur.todo # <<>>
        BY <3>1 DEF MetaInv, StageInv
      <4>3. ErrText # OkText
        BY DEF ErrText, OkText
      <4>4. cur.stage = "write" => ToSet(cur.resps) \subseteq {OkText, ErrText}
        BY <3>1 DEF MetaInv, StageInv
      <4> QED
        BY <3>1, <4>1, <4>2, <4>3, <4>4, AnsweredFacts
    <3>2. CASE ~(cur # NoCommand /\ cur.wait)
      <4>1. cur' = cur
        BY <1>5, <3>2 DEF Kill
      <4>2. WasOk' <=> WasOk
        BY <4>1 DEF WasOk, OkText
      <4>3. cur # NoCommand => cur \in Commands /\ cur.wait = FALSE
        BY <3>2 DEF MetaInv, MetaTypeOK, Commands
      <4> QED
        BY <4>1, <4>2, <4>3 DEF MetaInv, StageInv, MetaTypeOK
    <3> QED
      BY <3>1, <3>2
  <2>3. MetaTypeOK'
    BY <1>1, <1>2, <2>1, <2>2 DEF MetaInv, MetaTypeOK
  <2>4. LeaderAlive'
    BY <1>1, <2>1 DEF MetaInv, LeaderAlive
  <2>5. StageInv'
    BY <2>2 DEF MetaInv, StageInv
  <2>6. WaitInv' /\ Asks' /\ LoggedIsCommitted' /\ CommitInv'
    BY <1>1, <2>1, <2>2 DEF MetaInv, WaitInv, Asks, LoggedIsCommitted, CommitInv, Writes
  <2>7. EpochInv'
    BY <1>1, <1>3, <2>2 DEF MetaInv, EpochInv
  <2>8. ReachInv' /\ SteadyLeaderReads' /\ SteadyInv'
    BY <2>1 DEF ReachInv, ReachablePutSucceeds, SteadyInv, SteadyLeaderReads
  <2> QED
    BY <2>3, <2>4, <2>5, <2>6, <2>7, <2>8 DEF MetaInv
<1> QED
  BY <1>4, <1>5

\* A leader that is no voter steps down; nobody waits for a write of it.
LEMMA StepDownStep == MetaInv /\ StepDown => MetaInv'
<1> SUFFICES ASSUME MetaInv, StepDown PROVE MetaInv'
  OBVIOUS
<1>1. /\ leader' = NoNode /\ pending = NoEntry
      /\ UNCHANGED <<hist, applied, alive, conf, nodes, pending, ids, cur, issued, last, elections, log>>
  BY DEF StepDown
<1>2. LastWrite' = LastWrite /\ (WasOk' <=> WasOk)
  BY <1>1 DEF LastWrite, Writes, WasOk, OkText
<1>3. MetaTypeOK'
  BY <1>1 DEF MetaInv, MetaTypeOK
<1>4. LeaderAlive' /\ StageInv' /\ Asks' /\ LoggedIsCommitted' /\ CommitInv'
  BY <1>1, <1>2 DEF MetaInv, LeaderAlive, StageInv, Asks, LoggedIsCommitted, CommitInv, Writes, OkText, ErrText
<1>5. WaitInv'
  BY <1>1 DEF MetaInv, WaitInv
<1>6. EpochInv'
  BY <1>1, <1>2 DEF MetaInv, EpochInv
<1>7. ReachInv' /\ SteadyLeaderReads' /\ SteadyInv'
  BY <1>1 DEF ReachInv, ReachablePutSucceeds, SteadyInv, SteadyLeaderReads
<1> QED
  BY <1>3, <1>4, <1>5, <1>6, <1>7 DEF MetaInv

\* A leader is elected: nothing is said about it before the next command.
LEMMA ElectStep ==
  ASSUME NEW n \in Node, NEW kept \in BOOLEAN PROVE MetaInv /\ Elect(n, kept) => MetaInv'
<1> SUFFICES ASSUME MetaInv, Elect(n, kept) PROVE MetaInv'
  OBVIOUS
<1> DEFINE w == [cmd |-> pending.cmd, val |-> pending.val]
           held == cur # NoCommand /\ cur.wait
<1>1. /\ alive[n] /\ leader' = n /\ pending' = NoEntry /\ elections' = elections + 1
      /\ UNCHANGED <<alive, ids, issued, last, log>>
  BY DEF Elect
<1>2. hist' = IF kept /\ pending.kind = "write" THEN Append(hist, w) ELSE hist
  BY DEF Elect
<1>3. pending.kind = "write" => pending \in WriteEntry /\ pending # NoEntry
  BY DEF MetaInv, MetaTypeOK, NoEntry, LearnerEntry
<1>4. pending.kind = "write" => w \in [cmd : Nat, val : Vals] /\ w.cmd = pending.cmd
  BY <1>3 DEF WriteEntry
<1> HIDE DEF w
<1>5. /\ hist' \in Seq([cmd : Nat, val : Vals]) /\ Len(hist') >= Len(hist) /\ Len(hist') \in Nat
      /\ Len(hist) \in Nat
      /\ \A i \in DOMAIN hist : i \in DOMAIN hist' /\ hist'[i] = hist[i]
      /\ kept /\ pending.kind = "write" => Len(hist') \in DOMAIN hist' /\ hist'[Len(hist')] = w
  <2>1. hist \in Seq([cmd : Nat, val : Vals])
    BY DEF MetaInv, MetaTypeOK
  <2>2. CASE kept /\ pending.kind = "write"
    <3>1. hist' = Append(hist, w) /\ w \in [cmd : Nat, val : Vals]
      BY <1>2, <1>4, <2>2
    <3> QED
      BY <2>1, <3>1
  <2>3. CASE ~(kept /\ pending.kind = "write")
    <3>1. hist' = hist
      BY <1>2, <2>3
    <3> QED
      BY <2>1, <2>3, <3>1
  <2> QED
    BY <2>2, <2>3
<1>6. applied' = applied \/ applied' = [applied EXCEPT ![leader] = Len(hist')]
  BY DEF Elect
<1>7. applied' \in [Node -> Nat] /\ \A m \in Node : applied'[m] <= Len(hist')
  <2>1. applied \in [Node -> Nat] /\ \A m \in Node : applied[m] <= Len(hist)
    BY DEF MetaInv, MetaTypeOK, LeaderAlive
  <2>2. Len(hist') \in Nat /\ Len(hist) \in Nat /\ Len(hist) <= Len(hist')
    BY <1>5
  <2> QED
    BY <1>6, <2>1, <2>2
<1>8. /\ cur' = NoCommand \/ cur' \in Commands
      /\ cur' = NoCommand <=> cur = NoCommand
      /\ cur # NoCommand =>
           /\ cur'.op = cur.op /\ cur'.stage = cur.stage /\ cur'.wait = FALSE
           /\ cur'.elections = cur.elections /\ cur'.members = cur.members
           /\ cur'.stage = "write" => ToSet(cur'.resps) \subseteq {OkText, ErrText}
      /\ WasOk' => WasOk \/ (kept /\ pending.kind = "write" /\ pending.cmd = issued)
  <2>1. CASE held
    <3> DEFINE r == CASE pending.kind = "write" -> IF kept THEN OkText ELSE ErrText
                      [] pending.kind = "members" ->
                           IF kept /\ Len(IF kept /\ pending.kind = "members" THEN pending.conf ELSE conf) = 1
                           THEN OkDict("") ELSE ErrDict
                      [] pending.kind = "learner" -> IF kept THEN OkDict("") ELSE ErrDict
                      [] OTHER -> OkDict("")
    <3>1. Answered(r)
      BY <2>1 DEF Elect
    <3>2. OkText # ErrText /\ {OkText, ErrText, OkDict(""), ErrDict} \subseteq Answers
      BY DEF OkText, ErrText, OkDict, ErrDict, Answers, Vals
    <3>9. OkDict("") # OkText /\ ErrDict # OkText
      BY DEF OkText, OkDict, ErrDict
    <3>3. /\ r \in {OkText, ErrText, OkDict(""), ErrDict}
          /\ pending.kind = "write" => r \in {OkText, ErrText}
          /\ r = OkText => pending.kind = "write" /\ kept
      BY <3>2, <3>9
    <3> HIDE DEF r
    <3>4. cur.todo # <<>> /\ MetaTypeOK /\ cur # NoCommand /\ r \in Answers
      BY <2>1, <3>2, <3>3 DEF MetaInv, StageInv
    <3>5. /\ cur' \in Commands /\ cur' # NoCommand
          /\ cur'.op = cur.op /\ cur'.stage = cur.stage /\ cur'.wait = FALSE
          /\ cur'.elections = cur.elections /\ cur'.members = cur.members
          /\ ToSet(cur'.resps) = ToSet(cur.resps) \cup {r}
          /\ r # OkText => (WasOk' <=> WasOk)
      BY <3>1, <3>4, AnsweredFacts
    <3>6. cur.stage = "write" => pending.kind = "write" /\ ToSet(cur.resps) \subseteq {OkText, ErrText}
      BY <2>1 DEF MetaInv, WaitInv, StageInv
    <3>7. pending.kind = "write" => pending.cmd = issued
      BY <2>1, <1>3 DEF MetaInv, WaitInv
    <3> QED
      BY <3>3, <3>4, <3>5, <3>6, <3>7
  <2>2. CASE ~held
    <3>1. cur' = cur
      BY <2>2 DEF Elect
    <3>2. WasOk' <=> WasOk
      BY <3>1 DEF WasOk, OkText
    <3>3. cur # NoCommand => cur \in Commands /\ cur.wait = FALSE
      BY <2>2 DEF MetaInv, MetaTypeOK, Commands
    <3> QED
      BY <3>1, <3>2, <3>3 DEF MetaInv, StageInv, MetaTypeOK
  <2> QED
    BY <2>1, <2>2
<1>9. LastWrite' = LastWrite
  BY <1>1 DEF LastWrite, Writes
<1>10. MetaTypeOK'
  BY <1>1, <1>5, <1>7, <1>8 DEF MetaInv, MetaTypeOK
<1>11. LeaderAlive' /\ Asks'
  BY <1>1, <1>7, <1>8 DEF MetaInv, LeaderAlive, Asks
<1>12. StageInv'
  BY <1>8 DEF MetaInv, StageInv
<1>19. WaitInv'
  BY <1>1, <1>8 DEF WaitInv
<1>13. CommitInv'
  <2> SUFFICES ASSUME WasOk' PROVE \E j \in DOMAIN hist' : hist'[j].cmd = issued
    BY <1>1 DEF CommitInv
  <2>1. CASE WasOk
    BY <1>5, <2>1 DEF MetaInv, CommitInv
  <2>2. CASE kept /\ pending.kind = "write" /\ pending.cmd = issued
    BY <1>4, <1>5, <2>2
  <2> QED
    BY <1>8, <2>1, <2>2
<1>14. LoggedIsCommitted'
  BY <1>1, <1>5 DEF MetaInv, LoggedIsCommitted, Writes
<1>15. EpochInv' /\ LastWrite.elections # elections'
  <2>1. elections \in Nat /\ elections' = elections + 1 /\ LastWrite.elections <= elections
    BY <1>1 DEF MetaInv, MetaTypeOK, EpochInv
  <2>2. LastWrite.elections \in Nat
    BY LastWriteEpoch DEF MetaInv, MetaTypeOK
  <2>3. cur # NoCommand => /\ cur.elections \in Nat /\ cur.elections <= elections
                           /\ LastWrite.elections <= cur.elections
    BY DEF MetaInv, MetaTypeOK, EpochInv, Commands
  <2>4. last # NoCommand => last.elections \in Nat /\ last.elections <= elections
    BY DEF MetaInv, MetaTypeOK, EpochInv, Outcome
  <2> QED
    BY <1>1, <1>8, <1>9, <2>1, <2>2, <2>3, <2>4 DEF EpochInv
<1>16. cur # NoCommand => cur'.elections # elections'
  <2>1. elections \in Nat /\ elections' = elections + 1
    BY <1>1 DEF MetaInv, MetaTypeOK
  <2>2. cur # NoCommand => cur.elections \in Nat /\ cur.elections <= elections
    BY DEF MetaInv, MetaTypeOK, EpochInv, Commands
  <2> QED
    BY <1>8, <2>1, <2>2
<1>17. ReachInv'
  <2>1. last # NoCommand => last.elections # elections'
    <3>1. elections \in Nat /\ elections' = elections + 1
      BY <1>1 DEF MetaInv, MetaTypeOK
    <3>2. last # NoCommand => last.elections \in Nat /\ last.elections <= elections
      BY DEF MetaInv, MetaTypeOK, EpochInv, Outcome
    <3> QED
      BY <3>1, <3>2
  <2>2. last = NoCommand => last.op # "put"
    BY DEF NoCommand
  <2>3. ReachablePutSucceeds'
    BY <1>1, <2>1, <2>2 DEF ReachablePutSucceeds
  <2> QED
    BY <1>8, <1>16, <2>3 DEF ReachInv
<1>18. SteadyInv'
  BY <1>8, <1>9, <1>15, <1>16 DEF SteadyInv, SteadyLeaderReads, WasOk
<1> QED
  BY <1>10, <1>11, <1>12, <1>13, <1>14, <1>15, <1>17, <1>18, <1>19 DEF MetaInv

\* What a request does at the node that is asked.
LEMMA RequestStep == MetaInv /\ Request => MetaInv'
<1> SUFFICES ASSUME MetaInv, Request PROVE MetaInv'
  OBVIOUS
<1>1. Asking /\ cur # NoCommand /\ cur \in Commands /\ cur.todo # <<>> /\ cur.todo \in Seq(Node)
  BY DEF Request, AskDead, AskRead, AskWrite, AskMembers, AskLearner, AskMetrics, Asking,
         MetaInv, MetaTypeOK, Commands
<1>2. Target \in Node
  BY <1>1 DEF Target
<1>3. ErrText \in Answers /\ ErrDict \in Answers
  BY DEF ErrText, ErrDict, Answers, Vals
<1>4. CASE AskDead
  <2>1. Target # leader
    BY <1>2, <1>4, MetaAssumption DEF AskDead, MetaInv, LeaderAlive
  <2> QED
    BY <1>1, <1>3, <1>4, <2>1, AnswerStep DEF AskDead
<1>5. CASE AskRead
  <2>1. ValueAt(Target) \in Vals
    <3>1. applied[Target] \in Nat /\ applied[Target] <= Len(hist) /\ hist \in Seq([cmd : Nat, val : Vals])
      BY <1>2 DEF MetaInv, MetaTypeOK, LeaderAlive
    <3> DEFINE k == applied[Target]
    <3>2. k # 0 => k \in 1..Len(hist)
      <4> HIDE DEF k
      <4>1. k \in Nat /\ k <= Len(hist) /\ Len(hist) \in Nat
        BY <3>1 DEF k
      <4> QED BY <4>1
    <3> HIDE DEF k
    <3>3. k # 0 => hist[k] \in [cmd : Nat, val : Vals]
      <4> DEFINE E == [cmd : Nat, val : Vals]
      <4>1. hist \in Seq(E)
        BY <3>1
      <4> HIDE DEF E
      <4>2. \A i \in 1..Len(hist) : hist[i] \in E
        BY <4>1
      <4> QED BY <3>2, <4>2, Zenon DEF E
    <3>4. k # 0 => hist[k].val \in Vals
      BY <3>3
    <3> QED
      BY <3>4 DEF ValueAt, Vals, k
  <2>2. OkDict(ValueAt(Target)) \in Answers
    BY <2>1 DEF OkDict, Answers
  <2> QED
    BY <1>1, <1>5, <2>2, AnswerStep DEF AskRead
<1>6. CASE AskMetrics
  <2>1. OkDict(Target) \in Answers
    BY <1>2 DEF OkDict, Answers
  <2> QED
    BY <1>1, <1>6, <2>1, AnswerStep DEF AskMetrics
<1>7. CASE AskWrite
  <2>1. CASE Target = leader
    <3> DEFINE e == [kind |-> "write", cmd |-> issued, val |-> cur.val]
    <3>1. e \in WriteEntry /\ e.cmd = issued /\ e.val = cur.val /\ e.kind = "write"
      BY <1>1 DEF WriteEntry, MetaInv, MetaTypeOK, Commands
    <3>2. Proposed(e)
      BY <1>7, <2>1 DEF AskWrite
    <3> HIDE DEF e
    <3> QED
      BY <1>1, <1>2, <1>7, <2>1, <3>1, <3>2, ProposeStep DEF AskWrite
  <2>2. CASE Target # leader
    BY <1>1, <1>3, <1>7, <2>2, AnswerStep DEF AskWrite, Refused
  <2> QED
    BY <2>1, <2>2
<1>8. CASE AskMembers
  <2>1. cur.stage = "members" /\ UNCHANGED <<ids, issued, last, elections, log>>
    BY <1>8 DEF AskMembers
  <2> DEFINE c == NextCoherent(ToSet(cur.members))
             e == [kind |-> "members", conf |-> c]
  <2>2. CASE Target = leader /\ Proposed(e)
    <3> HIDE DEF c
    <3>1. e = [kind |-> "members", conf |-> e.conf] /\ e.kind = "members"
      OBVIOUS
    <3> HIDE DEF e
    <3> QED
      BY <1>1, <1>2, <2>1, <2>2, <3>1, ProposeStep
  <2>3. CASE Refused(ErrDict)
    BY <1>1, <1>3, <2>1, <2>3, AnswerStep DEF Refused
  <2> QED
    BY <1>8, <2>2, <2>3 DEF AskMembers
<1>9. CASE AskLearner
  <2>1. cur.stage = "learner" /\ UNCHANGED <<ids, issued, last, elections, log>>
    BY <1>9 DEF AskLearner
  <2>2. CASE Target = leader
    <3> DEFINE e == [kind |-> "learner", node |-> cur.members[1]]
    <3>1. cur.members \in Seq(Node) /\ cur.members # <<>>
      BY <1>1, <2>1 DEF MetaInv, StageInv, Asks, Commands
    <3>2. cur.members[1] \in Node
      BY <3>1
    <3>3. e \in LearnerEntry /\ e.kind = "learner"
      BY <3>2 DEF LearnerEntry
    <3>4. Proposed(e)
      BY <1>9, <2>2 DEF AskLearner
    <3> HIDE DEF e
    <3> QED
      BY <1>1, <1>2, <2>1, <2>2, <3>3, <3>4, ProposeStep
  <2>3. CASE Target # leader
    BY <1>1, <1>3, <1>9, <2>1, <2>3, AnswerStep DEF AskLearner, Refused
  <2> QED
    BY <2>2, <2>3
<1> QED
  BY <1>4, <1>5, <1>6, <1>7, <1>8, <1>9 DEF Request

\* A command is issued, or the log is asked for.
LEMMA ProxyStep == MetaInv /\ Proxy => MetaInv'
<1> SUFFICES ASSUME MetaInv, Proxy PROVE MetaInv'
  OBVIOUS
<1>1. "" \in Vals /\ <<>> \in Seq(Node) /\ 0 \in Server /\ \A v \in Value : v \in Vals
  <2>1. 0 \in Server
    BY MetaAssumption
  <2>2. <<>> \in Seq(Node)
    OBVIOUS
  <2> QED BY <2>1, <2>2, Zenon DEF Vals
<1>2. ASSUME NEW s \in Server, NEW v \in Value, Put(s, v) PROVE MetaInv'
  BY <1>1, <1>2, IssueStep DEF Put, Ops, Stages
<1>3. ASSUME NEW s \in Server, Get(s) \/ List(s) PROVE MetaInv'
  BY <1>1, <1>3, IssueStep DEF Get, List, Ops, Stages
<1>4. ASSUME NEW s \in Server, Delete(s) PROVE MetaInv'
  BY <1>1, <1>4, IssueStep DEF Delete, Ops, Stages
<1>5. ASSUME Metrics PROVE MetaInv'
  BY <1>1, <1>5, IssueStep DEF Metrics, Ops, Stages
<1>6. ASSUME NEW n \in Learners, AddLearner(n) PROVE MetaInv'
  <2>1. n \in Node
    BY MetaAssumption
  <2>2. <<n>> \in Seq(Node) /\ <<n>> # <<>>
    BY <2>1
  <2> QED
    BY <1>1, <1>6, <2>2, IssueStep DEF AddLearner, Ops, Stages
<1>7. ASSUME NEW ms \in Members, ChangeMembership(ms) PROVE MetaInv'
  <2>1. ms \in Seq(Node) /\ ms # <<>>
    BY MetaAssumption
  <2> QED
    BY <1>1, <1>7, <2>1, IssueStep DEF ChangeMembership, Ops, Stages
<1>8. ASSUME GetLog PROVE MetaInv'
  <2>1. /\ cur = NoCommand /\ issued' = issued + 1 /\ last' = NoCommand
        /\ UNCHANGED <<cluster, ids, cur, elections, log>>
    BY <1>8 DEF GetLog
  <2>2. LastWrite' = LastWrite /\ CurrentVal' = CurrentVal /\ ~WasOk /\ ~WasOk'
    BY <2>1 DEF LastWrite, Writes, CurrentVal, WasOk, cluster
  <2> USE DEF cluster
  <2>3. MetaTypeOK'
    BY <2>1 DEF MetaInv, MetaTypeOK
  <2>4. Asks' /\ LeaderAlive' /\ StageInv' /\ WaitInv' /\ CommitInv' /\ LoggedIsCommitted'
    BY <2>1, <2>2 DEF MetaInv, Asks, LeaderAlive, StageInv, WaitInv, CommitInv, LoggedIsCommitted, Writes
  <2>5. EpochInv'
    BY <2>1, <2>2 DEF MetaInv, EpochInv
  <2>6. last'.op = "none"
    BY <2>1 DEF NoCommand
  <2>7. ReachInv'
    BY <2>1, <2>6 DEF ReachInv, ReachablePutSucceeds
  <2>8. SteadyInv'
    BY <2>1, <2>2, <2>6 DEF MetaInv, SteadyInv, SteadyLeaderReads
  <2> QED
    BY <2>3, <2>4, <2>5, <2>7, <2>8 DEF MetaInv
<1> QED
  BY <1>2, <1>3, <1>4, <1>5, <1>6, <1>7, <1>8 DEF Proxy

\* Every step of the proxy and of the cluster keeps the invariant.
LEMMA MetaNext == MetaInv /\ [Next]_vars => MetaInv'
<1> SUFFICES ASSUME MetaInv, [Next]_vars PROVE MetaInv'
  OBVIOUS
<1>1. CASE Proxy \/ Request \/ Return
  BY <1>1, ProxyStep, RequestStep, ReadReturnsStep, WriteReturnsStep, OtherReturnsStep DEF Return
<1>2. CASE Cluster
  BY <1>2, CommitWriteStep, CommitMembersStep, CommitLearnerStep, LearnerUpToDateStep, StepDownStep,
     ElectStep, CatchUpStep, KillStep, RecoverStep DEF Cluster, Commit, AnyElection
<1>3. CASE UNCHANGED vars
  <2>1. UNCHANGED <<hist, alive, leader, ids, issued, last, elections, log, cur, pending, applied>>
    BY <1>3 DEF vars, cluster
  <2>2. MetaTypeOK'
    BY <2>1 DEF MetaInv, MetaTypeOK
  <2>3. StageInv' /\ WaitInv' /\ Asks'
    BY <2>1 DEF MetaInv, StageInv, WaitInv, Asks, Writes, OkText, ErrText
  <2>4. \A n \in Node : applied'[n] <= Len(hist)
    BY <2>1 DEF MetaInv, LeaderAlive
  <2> QED
    BY <2>1, <2>2, <2>3, <2>4, QuietStep
<1> QED
  BY <1>1, <1>2, <1>3 DEF Next

\* write_log is told of no write that the raft cluster has not committed.
THEOREM LoggedWrites == Spec => []LoggedIsCommitted
<1>1. MetaInv => LoggedIsCommitted
  BY DEF MetaInv
<1> QED
  BY <1>1, MetaInit, MetaNext, PTL DEF Spec

\* _http_request lets the answer of the leader through, wherever in
\* current_ids it is and whatever the other nodes answer.
THEOREM ReachablePuts == Spec => []ReachablePutSucceeds
<1>1. MetaInv => ReachablePutSucceeds
  BY DEF MetaInv, ReachInv
<1> QED
  BY <1>1, MetaInit, MetaNext, PTL DEF Spec

\* GET and LIST that ask the leader first return the last acknowledged write
\* as long as that leader stays.
THEOREM SteadyReads == Spec => []SteadyLeaderReads
<1>1. MetaInv => SteadyLeaderReads
  BY DEF MetaInv, SteadyInv
<1> QED
  BY <1>1, MetaInit, MetaNext, PTL DEF Spec
----------------------------------------------------------------------------
(* Session.                                                                *)

\* NoSharedId alone is not inductive: get_id looks at the slots, so it needs
\* that every id a client holds is marked.
SharingInv == SessionTypeOK /\ HeldIsMarked /\ NoSharedId

\* Whatever clients and proxy do, the state is well-typed: get_id returns an
\* index of client_ids or None.
THEOREM SessionTypeCorrect == SessionSpec => []SessionTypeOK
<1>1. SessionInit => SessionTypeOK
  BY SessionAssumption DEF SessionInit, SessionTypeOK, Id
<1>2. SessionTypeOK /\ [SessionNext]_sessionVars => SessionTypeOK'
  <2> SUFFICES ASSUME SessionTypeOK, [SessionNext]_sessionVars PROVE SessionTypeOK'
    OBVIOUS
  <2> USE DEF SessionTypeOK
  <2>1. ASSUME NEW c \in Client, Launch(c) PROVE SessionTypeOK'
    BY <2>1 DEF Launch
  <2>2. ASSUME NEW c \in Client, NEW ok \in BOOLEAN, Authenticate(c, ok)
        PROVE  SessionTypeOK'
    BY <2>2 DEF Authenticate
  <2>3. ASSUME NEW c \in Client, GetId(c) PROVE SessionTypeOK'
    <3>1. CASE \A i \in Id : slots[i]
      BY <2>3, <3>1 DEF GetId
    <3>2. CASE ~ \A i \in Id : slots[i]
      BY <2>3, <3>2 DEF GetId
    <3> QED
      BY <3>1, <3>2
  <2>4. ASSUME NEW c \in Client, Exit(c) PROVE SessionTypeOK'
    BY <2>4 DEF Exit, Leave
  <2>5. ASSUME NEW c \in Client, CommandWithoutId(c) PROVE SessionTypeOK'
    BY <2>5 DEF CommandWithoutId, Leave
  <2>6. ASSUME NEW c \in Client, Interrupt(c) PROVE SessionTypeOK'
    BY <2>6 DEF Interrupt, Leave
  <2>7. CASE UNCHANGED sessionVars
    BY <2>7 DEF sessionVars
  <2> QED
    BY <2>1, <2>2, <2>3, <2>4, <2>5, <2>6, <2>7 DEF SessionNext
<1> QED
  BY <1>1, <1>2, PTL DEF SessionSpec

\* Clients that end by EXIT, by an error or by Ctrl-C: get_id and exit never
\* let two of them have the same id.
THEOREM NoSharing == SessionSpec => []NoSharedId
<1>1. SessionInit => SharingInv
  BY SessionAssumption DEF SessionInit, SharingInv, SessionTypeOK, HeldIsMarked, NoSharedId, Id
<1>2. SharingInv /\ SessionTypeOK' /\ [SessionNext]_sessionVars => SharingInv'
  <2> SUFFICES ASSUME SharingInv, SessionTypeOK', [SessionNext]_sessionVars
               PROVE  HeldIsMarked' /\ NoSharedId'
    BY DEF SharingInv
  <2> USE SessionAssumption DEF SharingInv, SessionTypeOK, HeldIsMarked, NoSharedId
  <2>1. ASSUME NEW c \in Client, Launch(c) PROVE HeldIsMarked' /\ NoSharedId'
    BY <2>1 DEF Launch
  <2>2. ASSUME NEW c \in Client, NEW ok \in BOOLEAN, Authenticate(c, ok)
        PROVE  HeldIsMarked' /\ NoSharedId'
    BY <2>2 DEF Authenticate
  <2>3. ASSUME NEW c \in Client, GetId(c) PROVE HeldIsMarked' /\ NoSharedId'
    <3>1. CASE \A i \in Id : slots[i]
      BY <2>3, <3>1 DEF GetId
    <3>2. CASE ~ \A i \in Id : slots[i]
      \* the id handed out was not marked, so nobody holds it
      <4>1. PICK i \in Id : /\ ~slots[i]
                            /\ slots' = [slots EXCEPT ![i] = TRUE]
                            /\ id' = [id EXCEPT ![c] = i]
        BY <2>3, <3>2 DEF GetId
      <4>2. \A d \in Client : id[d] # i
        BY <4>1 DEF Id
      <4>3. pc' = [pc EXCEPT ![c] = "loop"]
        BY <2>3 DEF GetId
      <4> QED
        BY <4>1, <4>2, <4>3
    <3> QED
      BY <3>1, <3>2
  <2>4. ASSUME NEW c \in Client, Exit(c) PROVE HeldIsMarked' /\ NoSharedId'
    <3>1. \A d \in Client : d # c /\ id[d] # NoId => slots'[id[d]]
      BY <2>4 DEF Exit
    <3> QED
      BY <2>4, <3>1 DEF Exit, Leave
  <2>5. ASSUME NEW c \in Client, CommandWithoutId(c) \/ Interrupt(c)
        PROVE  HeldIsMarked' /\ NoSharedId'
    BY <2>5 DEF CommandWithoutId, Interrupt, Leave
  <2>6. CASE UNCHANGED sessionVars
    BY <2>6 DEF sessionVars
  <2> QED
    BY <2>1, <2>2, <2>3, <2>4, <2>5, <2>6 DEF SessionNext
<1>3. SharingInv => NoSharedId
  BY DEF SharingInv
<1> QED
  BY <1>1, <1>2, <1>3, SessionTypeCorrect, PTL DEF SessionSpec
=============================================================================
