------------------------------- MODULE Leader -------------------------------
(***************************************************************************)
(* The engine of one openraft leader, from its election to the step that   *)
(* ends it: what it has appended, what each node acknowledged              *)
(* (progress/vec_progress.rs), what it therefore commits                   *)
(* (replication_handler), the memberships it moves through                 *)
(* (leader_handler, raft/api/management.rs) and the clock its lease rests  *)
(* on (proposer/leader.rs).                                                *)
(*                                                                         *)
(* Log ids are indexes, 0 standing for None: the entries up to Inherited   *)
(* are of earlier leaders, the later ones of this leader, so that indexes  *)
(* are ordered as log ids.  Messages of an older replication session are   *)
(* ignored by the core and are not sent here.                              *)
(***************************************************************************)
EXTENDS Memberships

CONSTANTS
    Node,          \* node ids, integers
    Self,          \* the leader
    Inherited,     \* last log index when the leader is elected
    InitMembers,   \* possible [committed, effective] configs when it is elected
    Requests,      \* the membership changes clients ask for, with "retain"
    Client,
    MaxIndex,      \* bound on the log
    MaxTime        \* bound on the clock

VARIABLES
    log,         \* entries: a membership, or Normal
    mem,         \* MembershipState
    progress,    \* VecProgress of matching log ids
    clock,       \* VecProgress of the sending times of acknowledged heartbeats
    committed, applied,
    leading,     \* "candidate" until the quorum of votes, "leader", "gone"
    transfer,    \* Leader::transfer_to is set
    now,
    held,        \* the part of this leader's log that each node is known to hold
    client       \* calls of change_membership

vars == <<log, mem, progress, clock, committed, applied, leading, transfer, now, held, client>>

\* An entry without a membership.
Normal == [configs |-> <<>>, nodes |-> <<>>]
NoRequest == [change |-> [kind |-> "none", arg |-> {}], retain |-> FALSE]
LastIndex == Len(log)

ASSUME LeaderAssumption ==
    /\ Self \in Node /\ Inherited \in Nat \ {0}
    /\ \A i \in InitMembers :
         /\ IsMembership(i.committed) /\ IsMembership(i.effective)
         /\ i.effective # i.committed => Inherited > 1
         \* find_coherent made the one from the other.
         /\ ToSet(i.committed.configs) \cap ToSet(i.effective.configs) # {}
    /\ \A r \in Requests : IsRequest(r.change)

----------------------------------------------------------------------------
(* VecProgress.                                                             *)

InOrder(ids) ==
    [i \in 1 .. Cardinality(ids) |->
        CHOOSE x \in ids : Cardinality({y \in ids : y < x}) = i - 1]

\* new: voters in the order of their ids, then learners.
NewProgress(m) ==
    LET ids == InOrder(VoterIds(m.configs)) \o InOrder(LearnerIds(m))
    IN  [configs |-> m.configs, accepted |-> 0, voters |-> Cardinality(VoterIds(m.configs)),
         entries |-> [i \in DOMAIN ids |-> [id |-> ids[i], val |-> 0]]]

Tracked(p) == {p.entries[i].id : i \in DOMAIN p.entries}
IndexOf(p, id) == CHOOSE i \in DOMAIN p.entries : p.entries[i].id = id
ValueOf(p, id) == p.entries[IndexOf(p, id)].val

\* Where move_up leaves the element at i: behind the last one before it whose
\* value is not smaller.
MoveUpTo(entries, i) ==
    1 + Max({0} \cup {j \in 1 .. i - 1 : entries[j].val >= entries[i].val})

MoveUp(entries, i) == InsertAt(RemoveAt(entries, i), MoveUpTo(entries, i), entries[i])

\* From "from" downwards, the first value above "accepted" that the elements
\* up to it make a quorum for.
FindAccepted(p, entries, from) ==
    LET ids(i) == {entries[j].id : j \in 1 .. i}
        found == {i \in from .. p.voters :
                    /\ \A j \in from .. i : entries[j].val > p.accepted
                    /\ IsQuorum(p.configs, ids(i))}
    IN  IF found = {} THEN p.accepted ELSE entries[Min(found)].val

\* Mutant: one node's value is enough.
UpdateWithAnyNode(p, id, v) ==
    IF id \notin Tracked(p) THEN p
    ELSE LET set == [p.entries EXCEPT ![IndexOf(p, id)].val = v]
         IN  [p EXCEPT !.entries = set, !.accepted = IF v > p.accepted THEN v ELSE @]

\* update_with: a learner grants nothing, and only a voter whose value crosses
\* the accepted one is moved and makes it be computed again.
UpdateWith(p, id, v) ==
    IF id \notin Tracked(p) THEN p
    ELSE LET i == IndexOf(p, id)
             set == [p.entries EXCEPT ![i].val = v]
             crosses == /\ i <= p.voters
                        /\ p.entries[i].val <= p.accepted
                        /\ v > p.accepted
         IN  IF ~crosses THEN [p EXCEPT !.entries = set]
             ELSE LET moved == MoveUp(set, i)
                  IN  [p EXCEPT !.entries = moved,
                                !.accepted = FindAccepted(p, moved, MoveUpTo(set, i))]

\* increase_to: a smaller value is ignored.
IncreaseTo(p, id, v) ==
    IF id \in Tracked(p) /\ v > ValueOf(p, id) THEN UpdateWith(p, id, v) ELSE p

\* Mutant: what the old quorum set accepted is kept.
UpgradeKeepsAccepted(p, m) == [NewProgress(m) EXCEPT !.accepted = p.accepted]

\* upgrade_quorum_set: the values of the old progress are put in a new one.
UpgradeQuorumSet(p, m) ==
    LET put[i \in 0 .. Len(p.entries)] ==
            IF i = 0 THEN NewProgress(m)
            ELSE UpdateWith(put[i - 1], p.entries[i].id, p.entries[i].val)
    IN  put[Len(p.entries)]

----------------------------------------------------------------------------
(* The leader's handlers.                                                   *)

\* try_commit_quorum_accepted: only an entry of this leader is committed, and
\* the ones before it with it (update_local_committed).
TryCommit(granted, m) ==
    IF granted > Inherited /\ granted > committed
    THEN /\ committed' = granted
         /\ mem' = CommitMembership(m, granted)
    ELSE /\ committed' = committed
         /\ mem' = m

\* Leader::new: nothing is known of any node.
NewLeader ==
    /\ leading' = "leader"
    /\ progress' = NewProgress(mem.effective.m)
    /\ clock' = NewProgress(mem.effective.m)

\* establish_leader: a blank entry follows the inherited log.
EstablishLeader ==
    /\ leading = "candidate"
    /\ NewLeader
    /\ log' = Append(log, Normal)
    /\ UNCHANGED <<mem, committed, applied, transfer, now, held, client>>

\* rebuild_progresses, for the membership that is now effective.
RebuildProgresses(m) ==
    /\ progress' = UpgradeQuorumSet(progress, m)
    /\ clock' = UpgradeQuorumSet(clock, m)

\* append_membership: a membership takes effect when it is appended.
LeaderAppendMembership(m) ==
    /\ mem' = AppendMembership(mem, [at |-> LastIndex + 1, m |-> m])
    /\ RebuildProgresses(m)

\* leader_append_entries, of one entry.
LeaderAppend(entry) ==
    /\ log' = Append(log, entry)
    /\ IF entry = Normal
       THEN UNCHANGED <<mem, progress, clock>>
       ELSE LeaderAppendMembership(entry)

\* write_entry: refused while leadership is being transferred.
ClientWrite ==
    /\ leading = "leader" /\ ~transfer /\ LastIndex < MaxIndex
    /\ LeaderAppend(Normal)
    /\ UNCHANGED <<committed, applied, leading, transfer, now, held, client>>

\* Mutant: the last change need not be committed.
AcceptsUncommitted(req, m) == EnsureValid(m)

\* ChangeHandler::apply: the membership that follows, if the request is accepted.
Accepts(req, m) == EnsureCommitted(mem) /\ EnsureValid(m)

\* The core's ChangeMembership handler: the caller waits in "to" for the index
\* of the new membership, or its call fails.
ChangeMembership(c, req, to) ==
    LET m == Change(mem.effective.m, req.change, req.retain)
        fail == client' = [client EXCEPT ![c].pc = "failed"]
                /\ UNCHANGED <<log, mem, progress, clock>>
    IN  /\ IF Accepts(req, m) /\ leading = "leader" /\ ~transfer
           THEN /\ LastIndex < MaxIndex
                /\ LeaderAppend(m)
                /\ client' = [client EXCEPT ![c] = [pc |-> to, at |-> LastIndex + 1, req |-> req]]
           ELSE fail
        /\ UNCHANGED <<committed, applied, leading, transfer, now, held>>

\* change_membership of the management API: the first call enters the joint
\* config, or a uniform one.
FirstStep(c, req) ==
    /\ client[c].pc = "idle" /\ leading # "candidate"
    /\ ChangeMembership(c, req, "first")

\* Mutant: a joint config is taken for the end of the change.
FirstDoneAlways(c) ==
    /\ client[c].pc = "first" /\ applied >= client[c].at
    /\ client' = [client EXCEPT ![c].pc = "done"]
    /\ UNCHANGED <<log, mem, progress, clock, committed, applied, leading, transfer, now, held>>

\* An answer is sent once the entry is applied; a joint config is followed by
\* a change that adds no voter, which flattens it.
FirstDone(c) ==
    /\ client[c].pc = "first" /\ applied >= client[c].at
    /\ client' = [client EXCEPT ![c].pc =
                    IF Len(log[client[c].at].configs) = 1 THEN "done" ELSE "joint"]
    /\ UNCHANGED <<log, mem, progress, clock, committed, applied, leading, transfer, now, held>>

Flatten(req) == [change |-> [kind |-> "AddVoterIds", arg |-> {}], retain |-> req.retain]

SecondStep(c) ==
    /\ client[c].pc = "joint"
    /\ ChangeMembership(c, Flatten(client[c].req), "second")

SecondDone(c) ==
    /\ client[c].pc = "second" /\ applied >= client[c].at
    /\ client' = [client EXCEPT ![c].pc = "done"]
    /\ UNCHANGED <<log, mem, progress, clock, committed, applied, leading, transfer, now, held>>

\* TruncateLog at a deposed leader: the responders of the entries that its
\* successor replaces are drained with an error.  (What the successor does is
\* beyond this module, so the log stays as it was.)
CallFails(c) ==
    /\ leading = "gone" /\ client[c].pc \in {"first", "second"} /\ applied < client[c].at
    /\ client' = [client EXCEPT ![c].pc = "failed"]
    /\ UNCHANGED <<log, mem, progress, clock, committed, applied, leading, transfer, now, held>>

\* update_matching.
UpdateMatching(n, i) ==
    LET p == UpdateWith(progress, n, i)
    IN  /\ progress' = p
        /\ TryCommit(p.accepted, mem)

Holds(n, i) == held' = [held EXCEPT ![n] = IF i > @ THEN i ELSE @]

\* The leader's own log IO is flushed up to i (update_local_progress), which
\* counts for nothing when the leader is not tracked any more.
LocalIO ==
    /\ leading = "leader"
    /\ \E i \in 1 .. LastIndex :
         /\ Self \in Tracked(progress) /\ ValueOf(progress, Self) < i
         /\ UpdateMatching(Self, i)
         /\ Holds(Self, i)
    /\ UNCHANGED <<log, clock, applied, leading, transfer, now, client>>

\* A node acknowledged the log up to i in the present replication session.
ReplicationProgress(n) ==
    /\ leading = "leader" /\ n \in Tracked(progress) \ {Self}
    /\ \E i \in ValueOf(progress, n) + 1 .. LastIndex :
         /\ UpdateMatching(n, i)
         /\ Holds(n, i)
    /\ UNCHANGED <<log, clock, applied, leading, transfer, now, client>>

\* update_leader_clock, with the time the heartbeat was sent.
UpdateLeaderClock(n, t) == clock' = IncreaseTo(clock, n, t)

HeartbeatProgress(n) ==
    /\ leading = "leader" /\ n \in Tracked(clock) \ {Self}
    /\ \E t \in 1 .. now : t > ValueOf(clock, n) /\ UpdateLeaderClock(n, t)
    /\ UNCHANGED <<log, mem, progress, committed, applied, leading, transfer, now, held, client>>

\* last_quorum_acked_time: the leader's own clock is brought up to date first.
LastQuorumAckedTime ==
    /\ leading = "leader" /\ Self \in Tracked(clock)
    /\ ValueOf(clock, Self) < now
    /\ clock' = IncreaseTo(clock, Self, now)
    /\ UNCHANGED <<log, mem, progress, committed, applied, leading, transfer, now, held, client>>

PassTime ==
    /\ now < MaxTime
    /\ now' = now + 1
    /\ UNCHANGED <<log, mem, progress, clock, committed, applied, leading, transfer, held, client>>

Apply ==
    /\ applied < committed
    /\ applied' = committed
    /\ UNCHANGED <<log, mem, progress, clock, committed, leading, transfer, now, held, client>>

\* At a tick, once the last membership is applied, so that the caller of the
\* change has its answer.
LastMembershipApplied == applied >= mem.effective.at

\* leader_step_down: the committed membership no longer has the leader as a
\* voter.
StepDown ==
    /\ leading = "leader"
    /\ LastMembershipApplied /\ mem.effective.at <= committed
    /\ Self \notin VoterIds(mem.effective.m.configs)
    /\ leading' = "gone"
    /\ UNCHANGED <<log, mem, progress, clock, committed, applied, transfer, now, held, client>>

\* become_following: another node has a greater vote.
Deposed ==
    /\ leading = "leader" /\ leading' = "gone"
    /\ UNCHANGED <<log, mem, progress, clock, committed, applied, transfer, now, held, client>>

\* trigger_transfer_leader: nothing is proposed from here on.
TransferLeader ==
    /\ leading = "leader" /\ ~transfer
    /\ transfer' = TRUE
    /\ UNCHANGED <<log, mem, progress, clock, committed, applied, leading, now, held, client>>

----------------------------------------------------------------------------
\* The node that won an election: its log has all that is committed, and its
\* last membership may not be.  Other nodes may hold the committed entry; what
\* else they hold of the inherited log, the leader learns from their answers.
Init ==
    /\ \E i \in InitMembers :
         /\ log = [k \in 1 .. Inherited |-> IF k = 1 THEN i.committed
                                            ELSE IF k = Inherited /\ i.effective # i.committed
                                            THEN i.effective ELSE Normal]
         /\ mem = [committed |-> [at |-> 1, m |-> i.committed],
                   effective |-> IF i.effective = i.committed THEN [at |-> 1, m |-> i.committed]
                                 ELSE [at |-> Inherited, m |-> i.effective]]
         /\ held \in [Node -> {0, 1, Inherited}]
         /\ \A n \in Node : held[n] = Inherited <=> n = Self
         /\ IsQuorum(i.committed.configs, {n \in Node : held[n] >= 1})
         /\ progress = NewProgress(i.effective) /\ clock = progress
    /\ committed = 1 /\ applied = 1
    /\ leading = "candidate" /\ transfer = FALSE /\ now = 0
    /\ client = [c \in Client |-> [pc |-> "idle", at |-> 0, req |-> NoRequest]]

Next ==
    \/ EstablishLeader \/ ClientWrite
    \/ \E c \in Client : \/ \E r \in Requests : FirstStep(c, r)
                         \/ FirstDone(c) \/ SecondStep(c) \/ SecondDone(c) \/ CallFails(c)
    \/ \E n \in Node : ReplicationProgress(n) \/ HeartbeatProgress(n)
    \/ LocalIO \/ LastQuorumAckedTime \/ PassTime \/ Apply \/ StepDown \/ Deposed \/ TransferLeader

Spec == Init /\ [][Next]_vars

----------------------------------------------------------------------------
Membership(m) ==
    /\ Len(m.configs) \in 1 .. 2
    /\ EnsureValid(m)

\* Every membership in use is valid, every tracked node is a node of the
\* effective membership and the other way round.
TypeOK ==
    /\ Membership(mem.committed.m) /\ Membership(mem.effective.m)
    /\ mem.committed.at <= mem.effective.at
    /\ committed \in 0 .. LastIndex /\ applied \in 0 .. committed
    /\ Tracked(progress) = DOMAIN mem.effective.m.nodes /\ Tracked(clock) = Tracked(progress)
    /\ progress.configs = mem.effective.m.configs

Granting(p, v) ==
    {p.entries[i].id : i \in {j \in 1 .. p.voters : p.entries[j].val >= v}}

\* The accepted value of both progresses, which commits entries and extends
\* the lease, is reached by a quorum ("The max value that is accepted by a
\* quorum", vec_progress.rs).
QuorumHoldsAccepted ==
    \A p \in {progress, clock} : p.accepted > 0 => IsQuorum(p.configs, Granting(p, p.accepted))

\* Whatever the leader commits, in whatever membership it did so, no quorum of
\* a membership that another node may act in can be without it: neither of the
\* effective one nor of the last committed one.
NoQuorumWithoutCommitted ==
    \A em \in {mem.committed, mem.effective} :
        ~ IsQuorum(em.m.configs, {n \in Node : held[n] < committed})

\* MembershipState keeps two memberships because at most one membership entry
\* of the log is not committed.
OneUncommittedMembership ==
    /\ Cardinality({i \in 1 .. LastIndex : log[i] # Normal /\ i > committed}) <= 1
    /\ mem.committed.at <= committed

\* When every call of change_membership has ended and the last of them
\* succeeded, the cluster is not left in a joint config.
NotLeftJoint ==
    (/\ \A c \in Client : client[c].pc \in {"idle", "done", "failed"}
     /\ \E c \in Client : client[c].pc = "done" /\ client[c].at = mem.effective.at)
       => Len(mem.effective.m.configs) = 1

\* A change of the effective membership keeps quorums overlapping: every quorum
\* of the new one meets every quorum of the one before.
QuorumsOverlap ==
    [][mem'.effective # mem.effective =>
        \A q \in SUBSET Node :
            IsQuorum(mem.effective.m.configs, q) => ~ IsQuorum(mem'.effective.m.configs, Node \ q)]_vars
=============================================================================
