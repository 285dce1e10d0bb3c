------------------------------ MODULE Cluster ------------------------------
(***************************************************************************)
(* A cluster of openraft nodes that elect leaders, replicate and commit a  *)
(* log and serve linearizable reads, over a network that delays, loses,    *)
(* repeats and reorders requests and answers, on machines that crash.      *)
(*                                                                         *)
(* One node's engine and core are the record node[n]; its operations are   *)
(* those of engine/engine_impl.rs, engine/handler/ and core/raft_core.rs.  *)
(* Time is left out: a timeout or the end of a lease may come at any       *)
(* moment.  The membership is the one the cluster was initialized with.    *)
(*                                                                         *)
(* Votes are records [term, node, done], "done" being the committed flag,  *)
(* leader ids pairs <<term, node>> and log ids records [id, at].           *)
(***************************************************************************)
EXTENDS Memberships

CONSTANTS
    Node, Reader,
    Budgets,       \* bounds: counts of inits, elections, writes, crashes and reads,
                   \* the nodes that are initialized, that elect, that crash, and
                   \* those that have voted for the first of the initialized ones,
                   \* and whether a part of a log may arrive without the rest
    LeaderLoses    \* whether a node that restarts as leader may lose unsynced data

VARIABLES
    node,
    left,      \* what is left of the budget
    asked,     \* vote requests
    granted,   \* votes granted, by the vote and the node that granted it
    sent,      \* what leaders had to send: a request is a part of one of these
    acked,     \* log entries acknowledged to a leader, by its vote and the node
    read,      \* linearizable reads
    chosen     \* the log that leaders have committed

vars == <<node, left, asked, granted, sent, acked, read, chosen>>

----------------------------------------------------------------------------
(* Votes and log ids.                                                       *)

LeaderId(v) == <<v.term, v.node>>
IdLt(a, b) == a[1] < b[1] \/ (a[1] = b[1] /\ a[2] < b[2])
VoteLt(a, b) == \/ IdLt(LeaderId(a), LeaderId(b))
                \/ LeaderId(a) = LeaderId(b) /\ ~ a.done /\ b.done
NewVote(t, n) == [term |-> t, node |-> n, done |-> FALSE]
NoVote == NewVote(0, 0)
IsLeader(n, v) == v.node = n /\ v.done

NoLogId == [id |-> <<0, 0>>, at |-> 0]
LogLt(a, b) == IdLt(a.id, b.id) \/ (a.id = b.id /\ a.at < b.at)
MinLogId(a, b) == IF LogLt(a, b) THEN a ELSE b
EntryId(l, i) == IF i = 0 THEN NoLogId ELSE [id |-> l[i].id, at |-> i]
LastId(l) == EntryId(l, Len(l))

\* A log IO is identified by the vote it was accepted under and the last log id.
IOLt(a, b) == VoteLt(a.vote, b.vote) \/ (a.vote = b.vote /\ LogLt(a.last, b.last))
NoIO == [vote |-> NoVote, last |-> NoLogId]

\* The first entry is the membership; a leader's first one is blank.
InitialEntry == [id |-> <<0, 0>>, val |-> -1]
Blank(v) == [id |-> LeaderId(v), val |-> 0]

HasQuorum(ids) == IsQuorum(<<Node>>, ids)

ASSUME ClusterAssumption ==
    /\ IsFiniteSet(Node) /\ Node # {} /\ Node \subseteq Nat \ {0}
    /\ LeaderLoses \in BOOLEAN

ASSUME BudgetAssumption ==
    /\ Budgets \subseteq [started : SUBSET Node, voted : SUBSET Node, electors : SUBSET Node,
                          mortals : SUBSET Node, inits : Nat, elections : Nat, writes : Nat,
                          crashes : Nat, reads : Nat, parts : BOOLEAN]
    /\ \A b \in Budgets :
         b.voted # {} => 1 \in b.voted /\ b.voted \subseteq b.started /\ HasQuorum(b.voted)

----------------------------------------------------------------------------
(* Parts of handlers, as functions of a node's record s.                    *)

\* become_following: neither candidate nor leader any more.
BecomeFollowing(s) ==
    [s EXCEPT !.role = "follower", !.noop = 0]

\* accept_log_io
AcceptLogIO(s, io) == IF IOLt(s.accepted, io) THEN [s EXCEPT !.accepted = io] ELSE s

\* update_vote, for a vote that is not smaller than the node's own.  A greater
\* one is saved before anything else happens, which also syncs the log.
UpdateVote(n, s, v) ==
    LET saved == IF VoteLt(s.vote, v)
                 THEN [AcceptLogIO(s, [vote |-> v, last |-> NoLogId]) EXCEPT !.vote = v, !.disk = s.log]
                 ELSE s
    IN  IF v.node = n THEN saved ELSE BecomeFollowing(saved)

\* Mutant: only the index is looked at.
HasLogIdByIndex(s, lid) == lid.at <= Len(s.log)

\* has_log_id: what is committed is assumed to be there.
HasLogId(s, lid) ==
    lid.at <= s.committed \/ (lid.at <= Len(s.log) /\ s.log[lid.at].id = lid.id)

TruncateLogs(s, since) ==
    IF since <= Len(s.log) THEN [s EXCEPT !.log = SubSeq(@, 1, since - 1)] ELSE s

\* first_conflicting_index: the first entry of the request that is missing.
FirstConflicting(s, r) ==
    Min({i \in r.prev + 1 .. r.last : ~ HasLogId(s, EntryId(r.log, i))} \cup {r.last + 1})

\* FollowingHandler::append_entries: from the first entry that is missing, the
\* entries of the request replace the node's own.  The answer waits for the IO.
FollowAppend(s, r) ==
    LET s1 == AcceptLogIO(s, [vote |-> r.vote, last |-> EntryId(r.log, r.last)])
        since == FirstConflicting(s1, r)
    IN  IF since <= r.last
        THEN [s1 EXCEPT !.log = SubSeq(@, 1, since - 1) \o SubSeq(r.log, since, r.last)]
        ELSE s1

\* Engine::append_entries, when the vote is accepted.
AppendEntries(n, s, r) ==
    LET s1 == UpdateVote(n, s, r.vote)
    IN  IF r.prev > 0 /\ ~ HasLogId(s1, EntryId(r.log, r.prev))
        THEN TruncateLogs(s1, r.prev)
        ELSE FollowAppend(s1, r)

\* calculate_local_committed: an entry is committed here once it was accepted
\* from the leader that says so, or a later one.
LocalCommitted(s, cluster) ==
    IF s.accepted.vote.done /\ ~ VoteLt(s.accepted.vote, cluster.vote)
    THEN MinLogId(s.accepted.last, cluster.last) ELSE NoLogId

\* RaftState::update_committed
UpdateCommitted(s, io) ==
    LET cluster == IF IOLt(s.cluster, io) THEN io ELSE s.cluster
        local == LocalCommitted(s, cluster)
    IN  [s EXCEPT !.cluster = cluster,
                  !.committed = IF LogLt(EntryId(s.log, @), local) THEN local.at ELSE @]

\* The nodes known to have the leader's log up to i; an answer to an earlier leader
\* is ignored (does_leader_vote_match).
LeaderVoteMatches(s, b) == b.vote = s.vote
AckedUpto(s, i) == {a.from : a \in {b \in acked : LeaderVoteMatches(s, b) /\ b.upto >= i}}

\* try_commit_quorum_accepted: only an entry the leader proposed itself.
TryCommit(s, i) ==
    [s EXCEPT !.committed = i, !.cluster = [vote |-> s.vote, last |-> EntryId(s.log, i)]]

MayCommit(s, i) == s.log[i].id = LeaderId(s.vote) /\ HasQuorum(AckedUpto(s, i))

\* leader_append_entries.
LeaderAppend(s, entry) ==
    LET l == Append(s.log, entry)
    IN  AcceptLogIO([s EXCEPT !.log = l], [vote |-> s.vote, last |-> LastId(l)])

\* The leader's log and commit index, from which requests are made at any later
\* time; one that continues what was sent before replaces it.
Publish(s) ==
    LET old == {p \in sent : p.vote = s.vote /\ IsPrefix(p.log, s.log)}
    IN  sent' = (sent \ old) \cup
                {[vote |-> s.vote, log |-> s.log,
                  commit |-> Max({s.committed} \cup {p.commit : p \in old})]}

\* What a leader committed is chosen.
Choose(s) ==
    LET l == SubSeq(s.log, 1, s.committed)
    IN  chosen' = IF IsPrefix(l, chosen) THEN chosen ELSE l

\* The answer to the leader whose vote an IO was accepted under; of the answers
\* of a node to one leader, the last says it all.
Acknowledge(n, io) ==
    LET old == {b \in acked : b.vote = io.vote /\ b.from = n}
    IN  IF io.last = NoLogId \/ \E b \in old : b.upto >= io.last.at THEN acked
        ELSE (acked \ old) \cup {[vote |-> io.vote, from |-> n, upto |-> io.last.at]}

Set(n, s) == node' = [node EXCEPT ![n] = s]
Spend(what) == left[what] > 0 /\ left' = [left EXCEPT ![what] = @ - 1]

\* A leader after one of its steps.
Leads(n, s) == Set(n, s) /\ Publish(s) /\ Choose(s)

----------------------------------------------------------------------------
(* Elections.                                                               *)

IsInitialized(s) == s.log # <<>> \/ s.vote.term > 0

\* Engine::initialize: only a node without logs that has seen no vote.  The
\* vote it takes for this is not saved.
Initialize(n) ==
    /\ Spend("inits")
    /\ ~ IsInitialized(node[n])
    /\ Set(n, [node[n] EXCEPT !.vote = [NewVote(0, n) EXCEPT !.done = TRUE], !.log = <<InitialEntry>>])
    /\ UNCHANGED <<asked, granted, sent, acked, read, chosen>>

\* handle_tick_election, for a voter; the timeout may pass at any time.
MayElect(n) == node[n].role # "leader" /\ node[n].log # <<>>

\* spawn_parallel_vote_requests: the request may reach every node, late or never.
AskForVotes(v, last) == asked' = asked \cup {[vote |-> v, last |-> last]}

\* Engine::elect, after an election timeout or on demand.  Its own vote counts
\* once it is saved (run_command of SaveVote).
Elect(n) ==
    LET v == NewVote(node[n].vote.term + 1, n)
    IN  /\ Spend("elections")
        /\ n \in left.electors
        /\ MayElect(n)
        /\ Set(n, [UpdateVote(n, node[n], v) EXCEPT !.role = "candidate"])
        /\ AskForVotes(v, LastId(node[n].log))
        /\ granted' = granted \cup {[vote |-> v, from |-> n]}
        /\ UNCHANGED <<sent, acked, read, chosen>>

\* Mutant: the candidate's log is not compared.
HandleVoteRequestAnyLog(n) ==
    \E q \in asked :
        /\ q.vote.node # n
        /\ ~ VoteLt(q.vote, node[n].vote)
        /\ Set(n, UpdateVote(n, node[n], q.vote))
        /\ granted' = granted \cup {[vote |-> q.vote, from |-> n]}
        /\ UNCHANGED <<left, asked, sent, acked, read, chosen>>

\* handle_vote_req, when the vote is granted.  (A refusal because of a lease, a
\* longer log or a higher vote leaves the node as it is.)
HandleVoteRequest(n) ==
    \E q \in asked :
        /\ q.vote.node # n
        /\ ~ LogLt(q.last, LastId(node[n].log))
        /\ ~ VoteLt(q.vote, node[n].vote)
        /\ Set(n, UpdateVote(n, node[n], q.vote))
        /\ granted' = granted \cup {[vote |-> q.vote, from |-> n]}
        /\ UNCHANGED <<left, asked, sent, acked, read, chosen>>

\* establish_leader: the vote is committed and saved, then a blank entry
\* follows.
Establish(s) ==
    LET v == [s.vote EXCEPT !.done = TRUE]
        led == [s EXCEPT !.vote = v, !.disk = s.log, !.role = "leader",
                         !.accepted = [vote |-> v, last |-> LastId(s.log)],
                         !.noop = Len(s.log) + 1]
    IN  LeaderAppend(led, Blank(v))

\* does_candidate_vote_match: an answer to an earlier candidate is ignored.
CandidateVoteMatches(n, g) == g.vote = node[n].vote

\* Candidate: the nodes that have granted the vote.
GrantersOf(n) == {g.from : g \in {h \in granted : CandidateVoteMatches(n, h)}}

\* handle_vote_resp, of the answer that completes a quorum for the vote that is
\* still the candidate's.
HandleVoteGranted(n) ==
    /\ node[n].role = "candidate"
    /\ HasQuorum(GrantersOf(n))
    /\ Leads(n, Establish(node[n]))
    /\ UNCHANGED <<left, asked, granted, acked, read>>

\* An answer carries the vote of the node that gives it.
SeenVotes == {node[m].vote : m \in Node}

\* A refused candidate takes the uncommitted form of the higher vote.
HandleVoteRefused(n) ==
    \E h \in SeenVotes :
        LET v == [h EXCEPT !.done = FALSE]
        IN  /\ node[n].role = "candidate" /\ VoteLt(node[n].vote, v)
            /\ Set(n, UpdateVote(n, node[n], v))
            /\ UNCHANGED <<left, asked, granted, sent, acked, read, chosen>>

----------------------------------------------------------------------------
(* Replication.                                                             *)

\* The requests of a leader that differ in what they do to node n: its log, or a
\* part of it, from the first entry, which does what the same entries do after one
\* that n has, and a request after an entry that n does not have.
Requests(n) ==
    UNION {LET r(i, j) == [vote |-> p.vote, log |-> p.log, prev |-> i, last |-> j, commit |-> p.commit]
               ends == IF left.parts THEN 1 .. Len(p.log) ELSE {Len(p.log)}
           IN  {r(0, j) : j \in ends} \cup
               {r(i, i) : i \in {k \in 1 .. Len(p.log) : ~ HasLogId(node[n], EntryId(p.log, k))}} :
           p \in sent}

\* handle_append_entries_request.
HandleAppendEntries(n) ==
    \E r \in Requests(n) :
        LET s == IF VoteLt(r.vote, node[n].vote) THEN node[n] ELSE AppendEntries(n, node[n], r)
            new == UpdateCommitted(s, [vote |-> r.vote, last |-> EntryId(r.log, r.commit)])
        IN  /\ r.vote.node # n
            /\ Set(n, new)
            /\ UNCHANGED <<left, asked, granted, sent, acked, read, chosen>>

\* Mutant: the answer is sent before the log is synced.
FlushUnsynced(n) ==
    /\ acked' = Acknowledge(n, node[n].accepted)
    /\ UNCHANGED <<node, left, asked, granted, sent, read, chosen>>

\* A flush ends: the log is on disk, and the answer that waited for it is sent,
\* or the leader counts its own log.
Flush(n) ==
    /\ Set(n, [node[n] EXCEPT !.disk = node[n].log])
    /\ acked' = Acknowledge(n, node[n].accepted)
    /\ UNCHANGED <<left, asked, granted, sent, read, chosen>>

\* update_progress, of the answer that completes a quorum for entry i.
UpdateProgress(n) ==
    /\ node[n].role = "leader"
    /\ \E i \in node[n].committed + 1 .. Len(node[n].log) :
         /\ MayCommit(node[n], i)
         /\ Leads(n, TryCommit(node[n], i))
    /\ UNCHANGED <<left, asked, granted, acked, read>>

\* Notification::HigherVote, from a node that has seen another leader's vote.
HandleHigherVote(n) ==
    \E v \in SeenVotes :
        /\ node[n].role = "leader" /\ VoteLt(node[n].vote, v)
        /\ Set(n, UpdateVote(n, node[n], v))
        /\ UNCHANGED <<left, asked, granted, sent, acked, read, chosen>>

\* Entries of clients differ from each other.
ClientWrite(n) ==
    /\ Spend("writes")
    /\ node[n].role = "leader"
    /\ Leads(n, LeaderAppend(node[n], [id |-> LeaderId(node[n].vote), val |-> left["writes"]]))
    /\ UNCHANGED <<asked, granted, acked, read>>

----------------------------------------------------------------------------
(* Linearizable reads (handle_ensure_linearizable_read).                    *)

IdleRead == [pc |-> "idle", at |-> 0, vote |-> NoVote, upto |-> 0, ok |-> {}, floor |-> <<>>, saw |-> <<>>]

Larger(a, b) == IF a > b THEN a ELSE b

\* Mutant: a new leader trusts the commit index it starts with.
ReadLogIdCommitted(s) == s.committed

\* get_read_log_id: the commit index, and at least the leader's first entry.
ReadLogId(s) == Larger(s.noop, s.committed)

BeginRead(r, n) ==
    /\ Spend("reads")
    /\ node[n].role = "leader" /\ read[r].pc = "idle"
    /\ read' = [read EXCEPT ![r] = [IdleRead EXCEPT !.pc = "wait", !.at = n, !.vote = node[n].vote,
                                       !.upto = ReadLogId(node[n]), !.ok = {n}, !.floor = chosen]]
    /\ UNCHANGED <<node, asked, granted, sent, acked, chosen>>

\* An empty request confirms the leader unless the node has a higher vote.
ConfirmRead(r, m) ==
    /\ read[r].pc = "wait" /\ m \notin read[r].ok
    /\ IF VoteLt(read[r].vote, node[m].vote)
       THEN /\ read' = [read EXCEPT ![r].pc = "failed"]
            /\ UNCHANGED node
       ELSE /\ read' = [read EXCEPT ![r].ok = @ \cup {m}]
            /\ Set(m, UpdateVote(m, node[m], read[r].vote))
    /\ UNCHANGED <<left, asked, granted, sent, acked, chosen>>

\* The Linearizer waits until the entry is applied; what the caller then reads
\* is the state machine as it is.
EndRead(r) ==
    LET s == node[read[r].at]
    IN  /\ read[r].pc = "wait" /\ HasQuorum(read[r].ok)
        /\ s.committed >= read[r].upto
        /\ read' = [read EXCEPT ![r].pc = "done", ![r].saw = SubSeq(s.log, 1, s.committed)]
        /\ UNCHANGED <<node, left, asked, granted, sent, acked, chosen>>

----------------------------------------------------------------------------
(* Crash and restart.                                                       *)

\* What is kept: the vote, and the log as the process wrote it or, if the
\* machine fails too, as it was last synced.  Nothing says what was committed.
Restarted(s, log) ==
    [s EXCEPT !.vote = IF @.term = 0 THEN NoVote ELSE @,
              !.log = log, !.disk = log, !.committed = 0,
              !.accepted = [vote |-> IF s.vote.term = 0 THEN NoVote ELSE s.vote, last |-> NoLogId],
              !.cluster = NoIO, !.role = "follower", !.noop = 0]

\* by_last_leader: the entries that this leader has proposed.
OwnEntries(s) == {i \in 1 .. Len(s.log) : s.log[i].id = LeaderId(s.vote)}

\* become_leader at startup: the first entry of this leader is the blank one.
Resume(s) ==
    LET led == AcceptLogIO([s EXCEPT !.role = "leader"],
                           [vote |-> s.vote, last |-> LastId(s.log)])
    IN  IF OwnEntries(s) = {} THEN LeaderAppend([led EXCEPT !.noop = Len(s.log) + 1], Blank(s.vote))
        ELSE [led EXCEPT !.noop = Min(OwnEntries(s))]

Restart(n) ==
    LET owns == node[n].vote.term > 0 /\ IsLeader(n, node[n].vote)
    IN  /\ Spend("crashes") /\ n \in left.mortals
        /\ \E log \in {node[n].log} \cup (IF owns /\ ~ LeaderLoses THEN {} ELSE {node[n].disk}) :
             LET s == Restarted(node[n], log)
             IN  IF owns THEN Leads(n, Resume(s)) ELSE Set(n, s) /\ UNCHANGED <<sent, chosen>>
        /\ read' = [r \in Reader |-> IF read[r].at = n /\ read[r].pc = "wait"
                                     THEN [read[r] EXCEPT !.pc = "failed"] ELSE read[r]]
        /\ UNCHANGED <<asked, granted, acked>>

----------------------------------------------------------------------------
NewNode(l, v) ==
    [vote |-> v, log |-> l, disk |-> l, committed |-> 0, accepted |-> [NoIO EXCEPT !.vote = v],
     cluster |-> NoIO, role |-> "follower", noop |-> 0]

\* A cluster that was not initialized, or on some nodes, or that has just elected
\* its first leader.
FirstVote == NewVote(1, 1)
FirstLog(n) == IF n \in left.started THEN <<InitialEntry>> ELSE <<>>
FirstNode(n) == NewNode(FirstLog(n), IF n \in left.voted THEN FirstVote ELSE NoVote)

Init ==
    /\ left \in Budgets
    /\ IF left.voted = {}
       THEN /\ node = [n \in Node |-> FirstNode(n)]
            /\ asked = {} /\ granted = {} /\ sent = {}
       ELSE /\ node = [n \in Node |-> IF n = 1 THEN Establish(FirstNode(n)) ELSE FirstNode(n)]
            /\ asked = {[vote |-> FirstVote, last |-> LastId(FirstLog(1))]}
            /\ granted = {[vote |-> FirstVote, from |-> n] : n \in left.voted}
            /\ sent = {[vote |-> node[1].vote, log |-> node[1].log, commit |-> 0]}
    /\ acked = {}
    /\ read = [r \in Reader |-> IdleRead]
    /\ chosen = <<>>

Next ==
    \/ \E n \in Node :
         \/ Initialize(n) \/ Elect(n) \/ HandleVoteRequest(n) \/ HandleVoteGranted(n)
         \/ HandleVoteRefused(n) \/ HandleAppendEntries(n) \/ Flush(n) \/ UpdateProgress(n)
         \/ HandleHigherVote(n) \/ ClientWrite(n) \/ Restart(n)
    \/ \E r \in Reader : EndRead(r) \/ \E n \in Node : BeginRead(r, n) \/ ConfirmRead(r, n)

Spec == Init /\ [][Next]_vars

----------------------------------------------------------------------------
\* A node's role is that of its vote, what it commits it has, and a leader's first
\* entry is in its log.
TypeOK ==
    \A n \in Node :
        LET s == node[n]
        IN  /\ s.role \in {"follower", "candidate", "leader"}
            /\ s.role # "follower" => s.vote.node = n /\ (s.vote.done <=> s.role = "leader")
            /\ s.committed \in 0 .. Len(s.log)
            /\ s.role = "leader" => s.noop \in 1 .. Len(s.log) /\ s.log[s.noop].id = LeaderId(s.vote)

\* What a leader committed stays on the disks of a quorum, whatever crashes.
ChosenIsHeld == HasQuorum({n \in Node : IsPrefix(chosen, node[n].disk)})

\* The leader with the greatest vote has all that any leader ever committed.
LeaderIsComplete ==
    \A n \in Node :
        (node[n].role = "leader" /\ \A m \in Node : ~ VoteLt(node[n].vote, node[m].vote))
            => IsPrefix(chosen, node[n].log)

\* A log id names one entry and all the entries before it, in all logs.
LogsMatch ==
    \A m, n \in Node : \A i \in 1 .. Len(node[m].log) :
        (m # n /\ i <= Len(node[n].log) /\ node[m].log[i].id = node[n].log[i].id)
            => SubSeq(node[m].log, 1, i) = SubSeq(node[n].log, 1, i)

\* What an observer sees of the cluster: the committed part of each log, and
\* the reads.
Applied == [n \in Node |-> SubSeq(node[n].log, 1, node[n].committed)]
AbstractRead == [r \in Reader |-> [pc |-> read[r].pc, floor |-> read[r].floor, saw |-> read[r].saw]]
Log == INSTANCE ReplicatedLog WITH applied <- Applied, read <- AbstractRead

\* The cluster is one log that only grows, of which every node applies a
\* prefix, and a linearizable read (get_read_log_id, the heartbeat that
\* confirms the leader, the wait for apply) sees all that was committed when
\* it began, whatever elections and lost messages there are.  Crashes are as
\* harmless to the log, but not to reads: a leader that resumes has forgotten
\* what it committed, and its first entry may be older than that.
IsReplicatedLog == Log!Spec
=============================================================================
