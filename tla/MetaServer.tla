---------------------------- MODULE MetaServer ----------------------------
(***************************************************************************)
(* The way of a client command through the meta server: ProxyServer        *)
(* (meta-server/proxy_server.py) turns it into calls of the client's       *)
(* Server (meta-server/node_server.py), and Server._http_request sends     *)
(* each call to every node in current_ids, one after the other, and keeps  *)
(* the first answer that is not "Err".                                     *)
(*                                                                         *)
(* The proxy is single-threaded: one command runs at a time, whoever sent  *)
(* it.  What interleaves with it is the raft cluster: nodes die, restart,  *)
(* are elected, lag behind.  The cluster is what the HTTP handlers of      *)
(* kv-store/src/network promise on top of openraft: `hist` is the log of   *)
(* committed writes, a node answers reads from the prefix it has applied,  *)
(* and at most one entry, `pending`, is proposed and not yet committed.    *)
(* One key is enough, the fan-out never looks at keys.                     *)
(***************************************************************************)
EXTENDS Naturals, Sequences, SequencesExt

CONSTANTS
  Node,         \* node ids, which index db_urls
  Server,       \* the servers of the proxy, 0 being servers[0]
  Value,        \* values a client may put, non-empty strings
  Members,      \* node_ids lists a client may ask CHANGE-MEMBERSHIP for
  NoNode,
  Learners,     \* node ids a client may ask ADD-LEARNER for
  Known,        \* nodes of the first membership: node 1, its voter, and learners
  LagThreshold, \* config.replication_lag_threshold
  MaxElections, \* bound: leaders elected after node 1
  MaxEvents     \* bound: commands issued and leaders elected

ASSUME MetaAssumption ==
  /\ 1 \in Node /\ 0 \in Server /\ NoNode \notin Node
  /\ Members \subseteq Seq(Node) \ {<<>>}
  /\ "" \notin Value /\ "Err" \notin Value
  /\ Learners \subseteq Node /\ 1 \in Known /\ Known \subseteq Node
  /\ LagThreshold \in Nat /\ MaxElections \in Nat /\ MaxEvents \in Nat

VARIABLES
  hist,       \* committed writes, [cmd, val]; val "" is a delete
  applied,    \* how much of hist a node's readable map holds
  alive, leader,
  conf,       \* committed voter sets: one, or two when joint
  nodes,      \* nodes the membership knows, learners included
  pending,    \* the proposed entry, or NoEntry
  ids,        \* current_ids of each Server
  cur,        \* the command in progress, or NoCommand
  issued,     \* commands issued so far
  last,       \* the last answer given to a client
  elections,  \* elections so far
  log         \* the operation log all Servers share

cluster == <<hist, applied, alive, leader, conf, nodes, pending>>
vars == <<cluster, ids, cur, issued, last, elections, log>>

NoEntry   == [kind |-> "none"]
NoCommand == [op |-> "none"]

\* Answers of a node: the JSON strings "Ok" and "Err", {"Ok": v}, {"Err": _}.
ErrText  == [t |-> "text", v |-> "Err"]
OkText   == [t |-> "text", v |-> "Ok"]
OkDict(v) == [t |-> "Ok", v |-> v]
ErrDict  == [t |-> "Err", v |-> ""]

Voters(c) == UNION ToSet(c)
Majority(S) == {Q \in SUBSET S : 2 * Cardinality(Q) > Cardinality(S)}
HasQuorum(c) ==
  \A i \in DOMAIN c : {n \in c[i] : alive[n]} \in Majority(c[i])

\* a configuration counts from the moment it is proposed
Effective == IF pending.kind = "members" THEN pending.conf ELSE conf

Init ==
  /\ hist = <<>> /\ applied = [n \in Node |-> 0]
  /\ alive = [n \in Node |-> TRUE] /\ leader = 1
  /\ conf = <<{1}>> /\ nodes = Known
  /\ pending = NoEntry
  /\ ids = [s \in Server |-> <<1>>]
  /\ cur = NoCommand /\ issued = 0
  /\ last = NoCommand
  /\ elections = 0
  /\ log = <<>>
----------------------------------------------------------------------------
(* The proxy's commands.                                                   *)

\* A mutant: only the first id is asked.
FanOutFirst(c, s, stage) ==
  [c EXCEPT !.stage = stage, !.todo = <<Head(ids[s])>>, !.resps = <<>>]

\* _http_request to the current_ids of the Server
FanOut(c, s, stage) == [c EXCEPT !.stage = stage, !.todo = ids[s], !.resps = <<>>]

Command(s, op, val, members) ==
  [op |-> op, srv |-> s, val |-> val, members |-> members,
   stage |-> "", todo |-> <<>>, resps |-> <<>>, wait |-> FALSE,
   elections |-> elections, reach |-> leader \in ToSet(ids[s])]

Issue(c, stage) ==
  /\ cur = NoCommand
  /\ issued + elections < MaxEvents /\ issued' = issued + 1
  /\ cur' = FanOut(c, c.srv, stage)
  /\ UNCHANGED <<cluster, ids, last, elections, log>>

Put(s, v) == Issue(Command(s, "put", v, <<>>), "read")
Get(s)    == Issue(Command(s, "get", "", <<>>), "read")
Delete(s) == Issue(Command(s, "delete", "", <<>>), "read")

\* With one key LIST returns what GET does, from the same nodes.
List(s) == Issue(Command(s, "get", "", <<>>), "read")

\* Whoever asks, the proxy calls servers[0].
ChangeMembership(ms) == Issue(Command(0, "members", "", ms), "members")
AddLearner(n)        == Issue(Command(0, "learner", "", <<n>>), "learner")
Metrics              == Issue(Command(0, "metrics", "", <<>>), "metrics")

\* get_log asks no node; nothing is said about the answer, which is log.
GetLog ==
  /\ cur = NoCommand
  /\ issued + elections < MaxEvents /\ issued' = issued + 1
  /\ last' = NoCommand
  /\ UNCHANGED <<cluster, ids, cur, elections, log>>
----------------------------------------------------------------------------
(* _http_request: one request per id of current_ids, in that order.        *)

Target == Head(cur.todo)
Asking == cur # NoCommand /\ ~cur.wait /\ cur.todo # <<>>

Answered(r) ==
  cur' = [cur EXCEPT !.todo = Tail(@), !.resps = Append(@, r), !.wait = FALSE]

\* A mutant: the request to a node that is down never returns.
AskDeadHangs == Asking /\ ~alive[Target] /\ UNCHANGED vars

\* A refused or broken connection, RequestException.
AskDead ==
  /\ Asking /\ ~alive[Target]
  /\ Answered(ErrText)
  /\ UNCHANGED <<cluster, ids, issued, last, elections, log>>

\* What reads at the node return: the map as far as it has been applied.
ValueAt(n) == IF applied[n] = 0 THEN "" ELSE hist[applied[n]].val

\* /read answers from the local map, whatever the node's role.
AskRead ==
  /\ Asking /\ alive[Target]
  /\ cur.stage \in {"read", "recheck"}
  /\ Answered(OkDict(ValueAt(Target)))
  /\ UNCHANGED <<cluster, ids, issued, last, elections, log>>

\* /metrics answers for the node itself, whatever its role.
AskMetrics ==
  /\ Asking /\ alive[Target] /\ cur.stage = "metrics"
  /\ Answered(OkDict(Target))
  /\ UNCHANGED <<cluster, ids, issued, last, elections, log>>

Proposed(entry) ==
  /\ pending' = entry
  /\ cur' = [cur EXCEPT !.wait = TRUE]
  /\ UNCHANGED <<hist, applied, alive, leader, conf, nodes>>

Refused(r) == Answered(r) /\ UNCHANGED cluster

\* A mutant: the handler answers without waiting for the commit.
AskWriteUnawaited ==
  /\ Asking /\ alive[Target] /\ cur.stage = "write"
  /\ IF Target = leader
     THEN /\ pending' = [kind |-> "write", cmd |-> issued, val |-> cur.val]
          /\ Answered(OkText)
          /\ UNCHANGED <<hist, applied, alive, leader, conf, nodes>>
     ELSE Refused(ErrText)
  /\ UNCHANGED <<ids, issued, last, elections, log>>

\* /write: client_write, which only the leader takes.
AskWrite ==
  /\ Asking /\ alive[Target] /\ cur.stage = "write"
  /\ IF Target = leader
     THEN Proposed([kind |-> "write", cmd |-> issued, val |-> cur.val])
     ELSE Refused(ErrText)
  /\ UNCHANGED <<ids, issued, last, elections, log>>

\* next_coherent: straight to the goal from a configuration that holds it,
\* through a joint one otherwise.
NextCoherent(goal) ==
  IF goal \in ToSet(conf) THEN <<goal>> ELSE <<Last(conf), goal>>

\* nodes of the membership without the voters it drops (retain is false)
NodesUnder(c) == nodes \ (Voters(conf) \ Voters(c))

\* /change-membership: the leader proposes the next coherent configuration,
\* all of whose voters must be known nodes; anyone else answers {"Err": _}.
AskMembers ==
  /\ Asking /\ alive[Target] /\ cur.stage = "members"
  /\ LET c == NextCoherent(ToSet(cur.members)) IN
     IF Target = leader /\ Voters(c) \subseteq NodesUnder(c)
     THEN Proposed([kind |-> "members", conf |-> c])
     ELSE Refused(ErrDict)
  /\ UNCHANGED <<ids, issued, last, elections, log>>

\* /add-learner: the leader proposes a membership with one more node.
AskLearner ==
  /\ Asking /\ alive[Target] /\ cur.stage = "learner"
  /\ IF Target = leader
     THEN Proposed([kind |-> "learner", node |-> cur.members[1]])
     ELSE Refused(ErrDict)
  /\ UNCHANGED <<ids, issued, last, elections, log>>

\* A mutant: the last answer that is not "Err".
CombineLast(rs) ==
  LET said == {i \in DOMAIN rs : rs[i] # ErrText}
  IN IF said = {} THEN ErrText ELSE rs[Max(said)]

\* The first answer that is not "Err"; "Err" when there is none.
Combine(rs) ==
  LET said == {i \in DOMAIN rs : rs[i] # ErrText}
  IN IF said = {} THEN ErrText ELSE rs[Min(said)]

\* Server.get: the value in {"Ok": value}, a bare string as it is; what an
\* unreachable cluster leaves is the string "Err".
GetValue(r) == IF r.t = "Err" THEN "" ELSE r.v
----------------------------------------------------------------------------
(* The calls return to the proxy.                                          *)

Reply(ok, got) ==
  /\ last' = [op |-> cur.op, srv |-> cur.srv, cmd |-> issued, ok |-> ok,
              got |-> got, elections |-> cur.elections, reach |-> cur.reach]
  /\ cur' = NoCommand

\* write_log
WriteLog ==
  log' = IF last'.ok THEN Append(log, [op |-> cur.op, srv |-> cur.srv, cmd |-> issued,
                                       val |-> cur.val, elections |-> cur.elections])
         ELSE log

Returned == cur # NoCommand /\ ~cur.wait /\ cur.todo = <<>>

\* The look at the key that put, get and delete begin with: put only takes
\* its wording from it, delete gives up on a missing key, and Server.delete
\* looks once more.
ReadReturns ==
  LET v == GetValue(Combine(cur.resps)) IN
  /\ Returned /\ cur.stage \in {"read", "recheck"}
  /\ \/ /\ cur.op = "get"
        /\ Reply(v # "", v)
     \/ /\ cur.op = "delete" /\ v = ""
        /\ Reply(FALSE, "")
     \/ /\ cur.op = "put" \/ (cur.op = "delete" /\ v # "")
        /\ cur' = FanOut(cur, cur.srv,
                         IF cur.op = "delete" /\ cur.stage = "read"
                         THEN "recheck" ELSE "write")
        /\ UNCHANGED last
  /\ UNCHANGED <<cluster, ids, issued, elections, log>>

WriteReturns ==
  /\ Returned /\ cur.stage = "write"
  /\ Reply(Combine(cur.resps) = OkText, "")
  /\ WriteLog
  /\ UNCHANGED <<cluster, ids, issued, elections>>

\* A report of whichever node answered first, or the bare "Err"; nothing is
\* said about it either.
MetricsReturn ==
  /\ Returned /\ cur.stage = "metrics"
  /\ last' = NoCommand /\ cur' = NoCommand
  /\ UNCHANGED <<cluster, ids, issued, elections, log>>

LearnerReturns ==
  /\ Returned /\ cur.stage = "learner"
  /\ Reply(Combine(cur.resps).t = "Ok", "")
  /\ WriteLog
  /\ UNCHANGED <<cluster, ids, issued, elections>>

\* current_ids of this Server follows a change that is answered {"Ok": _}.
MembersReturn ==
  /\ Returned /\ cur.stage = "members"
  /\ Reply(Combine(cur.resps).t = "Ok", "")
  /\ ids' = IF last'.ok THEN [ids EXCEPT ![cur.srv] = cur.members] ELSE ids
  /\ WriteLog
  /\ UNCHANGED <<cluster, issued, elections>>
----------------------------------------------------------------------------
(* The cluster.                                                            *)

\* The proposed write is committed and applied, which answers the request.
CommitWrite ==
  /\ pending.kind = "write" /\ leader # NoNode /\ HasQuorum(conf)
  /\ hist' = Append(hist, [cmd |-> pending.cmd, val |-> pending.val])
  /\ applied' = [applied EXCEPT ![leader] = Len(hist')]
  /\ pending' = NoEntry
  /\ Answered(OkText)
  /\ UNCHANGED <<alive, leader, conf, nodes, ids, issued, last, elections, log>>

\* So is a configuration; a joint one is then flattened.
CommitMembers ==
  /\ pending.kind = "members" /\ leader # NoNode /\ HasQuorum(pending.conf)
  /\ conf' = pending.conf /\ nodes' = NodesUnder(pending.conf)
  /\ applied' = [applied EXCEPT ![leader] = Len(hist)]
  /\ IF Len(conf') = 1
     THEN pending' = NoEntry /\ Answered(OkDict(""))
     ELSE pending' = [pending EXCEPT !.conf = <<Last(@)>>] /\ UNCHANGED cur
  /\ UNCHANGED <<hist, alive, leader, ids, issued, last, elections, log>>

\* add_learner goes on to wait, without a timeout, for its metrics to show
\* that the new node is up to date.
CommitLearner ==
  /\ pending.kind = "learner" /\ leader # NoNode /\ HasQuorum(conf)
  /\ nodes' = nodes \cup {pending.node}
  /\ applied' = [applied EXCEPT ![leader] = Len(hist)]
  /\ pending' = NoEntry
  /\ UNCHANGED <<hist, alive, leader, conf, ids, cur, issued, last, elections, log>>

\* check_replication_upto_date: a log no longer than the threshold counts as
\* up to date before the node has answered at all.
LearnerUpToDate ==
  /\ cur # NoCommand /\ cur.wait /\ cur.stage = "learner" /\ pending = NoEntry
  /\ \/ Len(hist) <= LagThreshold
     \/ alive[cur.members[1]]
     \/ cur.members[1] = leader
  /\ Answered(OkDict(""))
  /\ UNCHANGED <<cluster, ids, issued, last, elections, log>>

\* A leader that is no voter any more steps down on a later tick.
StepDown ==
  /\ leader # NoNode /\ leader \notin Voters(conf) /\ pending = NoEntry
  /\ leader' = NoNode
  /\ UNCHANGED <<hist, applied, alive, conf, nodes, pending, ids, cur, issued,
                 last, elections, log>>

\* Followers and learners apply what is committed, a restarted node too.
CatchUp(n) ==
  /\ alive[n] /\ n \in nodes /\ leader # NoNode /\ HasQuorum(conf)
  /\ applied[n] < Len(hist)
  /\ \E k \in (applied[n] + 1)..Len(hist) : applied' = [applied EXCEPT ![n] = k]
  /\ UNCHANGED <<hist, alive, leader, conf, nodes, pending, ids, cur, issued,
                 last, elections, log>>

\* A node process ends; its open request breaks off, its leadership with it.
Kill(n) ==
  /\ alive[n]
  /\ alive' = [alive EXCEPT ![n] = FALSE]
  /\ IF leader = n
     THEN /\ leader' = NoNode
          /\ IF cur # NoCommand /\ cur.wait THEN Answered(ErrText) ELSE UNCHANGED cur
     ELSE UNCHANGED <<leader, cur>>
  /\ UNCHANGED <<hist, applied, conf, nodes, pending, ids, issued, last, elections, log>>

\* A node starts again from its last snapshot, or with an empty map.
Recover(n) ==
  /\ ~alive[n]
  /\ alive' = [alive EXCEPT ![n] = TRUE]
  /\ \E k \in 0..applied[n] : applied' = [applied EXCEPT ![n] = k]
  /\ UNCHANGED <<hist, leader, conf, nodes, pending, ids, cur, issued, last,
                 elections, log>>

\* n is elected, and what was proposed before is kept, that is, committed by
\* the new leader, or lost.  A former leader that is alive answers a request
\* it still holds: "Ok" once it applies the write, otherwise that it is not
\* the leader; a change of members that got no further than the joint
\* configuration fails on its second step, and the wait for a new learner
\* ends with the leadership.
Elect(n, kept) ==
  LET member == pending.kind = "members"
      write  == pending.kind = "write"
      learner == pending.kind = "learner"
      c == IF kept /\ member THEN pending.conf ELSE conf
      held == cur # NoCommand /\ cur.wait
  IN
  /\ alive[n] /\ leader # n /\ n \in Voters(c) /\ HasQuorum(c)
  /\ elections < MaxElections /\ issued + elections < MaxEvents
  /\ elections' = elections + 1
  /\ kept => pending # NoEntry
  /\ leader' = n
  /\ pending' = NoEntry
  /\ conf' = c
  /\ nodes' = IF kept /\ learner THEN nodes \cup {pending.node} ELSE NodesUnder(c)
  /\ hist' = IF kept /\ write
             THEN Append(hist, [cmd |-> pending.cmd, val |-> pending.val]) ELSE hist
  /\ IF held
     THEN /\ Answered(CASE write -> IF kept THEN OkText ELSE ErrText
                        [] member -> IF kept /\ Len(c) = 1 THEN OkDict("") ELSE ErrDict
                        [] learner -> IF kept THEN OkDict("") ELSE ErrDict
                        [] OTHER -> OkDict(""))
          /\ applied' = IF kept THEN [applied EXCEPT ![leader] = Len(hist')] ELSE applied
     ELSE UNCHANGED <<cur, applied>>
  /\ UNCHANGED <<alive, ids, issued, last, log>>

Proxy ==
  \/ \E s \in Server : \/ \E v \in Value : Put(s, v)
                       \/ Get(s)
                       \/ Delete(s)
                       \/ List(s)
  \/ GetLog \/ Metrics
  \/ \E n \in Learners : AddLearner(n)
  \/ \E ms \in Members : ChangeMembership(ms)

Request == AskDead \/ AskRead \/ AskWrite \/ AskMembers \/ AskLearner \/ AskMetrics
Return  == ReadReturns \/ WriteReturns \/ MembersReturn \/ LearnerReturns \/ MetricsReturn
Commit  == CommitWrite \/ CommitMembers \/ CommitLearner \/ LearnerUpToDate
AnyElection == \E n \in Node, kept \in BOOLEAN : Elect(n, kept)

Cluster ==
  \/ Commit
  \/ StepDown
  \/ AnyElection
  \/ \E n \in Node : CatchUp(n) \/ Kill(n) \/ Recover(n)

Next == Proxy \/ Request \/ Return \/ Cluster

\* Requests and returns are steps of running threads; a leader with a quorum
\* commits, and a quorum without a leader elects one.  Nobody restarts nodes.
Fairness ==
  /\ WF_vars(Request) /\ WF_vars(Return) /\ WF_vars(Commit)
  /\ WF_vars(leader = NoNode /\ AnyElection)

Spec == Init /\ [][Next]_vars /\ Fairness
----------------------------------------------------------------------------
Writes == {"put", "delete"}

\* The operation log tells of no write that was not committed: no "Err",
\* broken connection or answer of a node that is not the leader was ever
\* taken for an Ok, whatever became of the leader that gave it.
LoggedIsCommitted ==
  \A i \in DOMAIN log : log[i].op \in Writes =>
    \E j \in DOMAIN hist : hist[j].cmd = log[i].cmd

\* A put whose server lists the leader among its current_ids fails only if
\* that leader goes: neither the refusals of the other nodes nor nodes that
\* are down hide the leader's answer.
ReachablePutSucceeds ==
  last.op = "put" /\ last.reach /\ leader # NoNode /\ elections = last.elections
    => last.ok

LastWrite ==
  LET ws == {i \in DOMAIN log : log[i].op \in Writes}
  IN IF ws = {} THEN [val |-> "", elections |-> 0] ELSE log[Max(ws)]

\* GET and LIST through a server whose first id is the leader return the last
\* acknowledged write as long as that leader stays: the first answer of the
\* fan-out is then the leader's.
SteadyLeaderReads ==
  /\ last.op = "get" /\ elections = LastWrite.elections
  /\ leader # NoNode /\ Head(ids[last.srv]) = leader
  => last.got = LastWrite.val

\* A command ends once enough nodes stay up: of the voters, during a change
\* of members of the new voters as well, and a node being added as a learner.
\* No request has a timeout: each answer comes from the node or from the
\* broken connection.
CommandEnds ==
  <>[](/\ HasQuorum(Effective)
       /\ cur # NoCommand /\ cur.op = "learner" => alive[cur.members[1]])
    => []<>(cur = NoCommand)
===========================================================================
