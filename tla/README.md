# A TLA+ model of the distributed key-value store

The repository is a key-value store in two halves. `kv-store/` is a Rust node: an HTTP API
(actix-web) on openraft, with a RocksDB log store, an in-memory map as state machine and
snapshots in RocksDB. `meta-server/` is a Python front end: clients log in at a proxy, the proxy
calls one `Server` per client, and a `Server` sends each call over HTTP to the nodes it believes
to be the cluster. openraft is vendored in `kv-store/openraft`; it is where most of the logic of
a node is, and it is modelled part by part.

## Inventory

| Component | State | Operations | Hard behaviour | Correct when |
|---|---|---|---|---|
| `RocksLogStore` (`store/log_store.rs`) | column families `meta` (vote, last purged id) and `logs` | `save_vote`, `append`, `truncate`, `purge`, `get_log_state` | writes are synced by `flush_wal(true)` later, in tasks; purge is two writes | what is acknowledged survives a power loss, the log found has no gap |
| `LogIdList` (`engine/log_id_list.rs`) | first log id of every leader, and the last one | extend, truncate, purge, get, binary search at start | changed ahead of the log and by different code on leader and follower | gives every index the id the log gives it |
| `StateMachineStore` (`store/mod.rs`) | map behind `Arc<RwLock>`, last applied id, membership; snapshot in `store` | `apply`, `build_snapshot`, `install_snapshot`, `new` | builder shares the map with the worker; snapshot writes race | exactly the chosen entries, in order; a snapshot is not lost |
| openraft follower (`RaftCore`, engine, `sm::Worker`) | `RaftState`, `IOState`, `MembershipState`, command queue, worker queue | AppendEntries, snapshots, notifications, routine actions, start | engine runs ahead of storage; commands wait; tasks interleave at awaits | storage follows the engine; nothing is stuck; its assertions hold |
| openraft cluster (elections, commit, reads) | vote, log, role per node | initialize, elect, vote and append requests, commit, `ensure_linearizable`, crash, restart | competing candidates, late and repeated messages, unsynced data | one log, never rewritten; reads see what was chosen before them |
| openraft leader's engine | `VecProgress`, memberships, lease clock | acknowledge, commit, change members, step down, transfer | joint steps, quorum changes under way, two clients changing members | committed means on a quorum of every membership in use |
| openraft replication (`replication/`, `progress/`) | progress entry, inflight, replication task, heartbeat worker, snapshot transmitter | send, answer, conflict, purge, new session | late, lost and stale answers; partial sends; purge under the reader | matching is true; nothing in flight is purged |
| Raft handle (`raft/`) | API channel, `core_state`, responders | the calls of the application, shutdown | bounded channel, cancelled callers, core or worker that stops, replaced entries | every call ends; success means the caller's own entry |
| watch channels, chunked snapshots | last value of each channel; one receiving stream | leader callbacks, add-learner wait, transfer, tick; chunks | only the last value is kept; two senders, one slot | callbacks pair up, waits end; a reported snapshot is held |
| HTTP API (`network/`) | none | `/write`, `/read`, `/read-all`, `/metrics`, `/add-learner`, `/change-membership`, raft RPCs | reads are local | |
| `Server` (`node_server.py`) | `current_ids`, operation log | `put`, `get`, `delete`, `list`, `get_log`, `metrics`, `add_learner`, `change_membership` | sequential fan-out while leaders change and nodes die; no timeouts | success means committed; the leader's answer is not hidden |
| `ProxyServer`, `Client` | `client_ids`, a client's id | login, commands, EXIT | clients vanish; proxy and client read lines differently | one client per id |

Interaction: client → proxy (XML-RPC, one thread) → `Server` (XML-RPC, one thread each) → nodes
(HTTP). In a node, HTTP handlers call the Raft handle, which sends messages to `RaftCore`; it owns
the engine, runs the engine's commands on the log store, sends the state machine's commands to a
worker task and the leader's to one replication task per peer; worker, builder, flush,
replication and heartbeat tasks send notifications back. The hazards of this are listed with
their lines in `PROJECT.json`.

## Modules

| Module | Models | Uses |
|---|---|---|
| `Storage` | the contents of the database and its reads and writes, as operators | |
| `LogStore` | the log store over a write-ahead log that may lose its unsynced end | `Storage` |
| `LogIdList`, `LogStoreIds` | the key log ids as operators; the list beside the log store | `Storage`; `LogStore` |
| `Node`, `MCNode` | one following node: engine, queues, worker, builder, database, restart | `Storage` |
| `Memberships` | membership configs, quorums, `ChangeMembers`, `MembershipState` | |
| `Leader` | the engine of one leader | `Memberships` |
| `Replication` | one leader and one follower: progress, tasks, wire | |
| `MCLeader` | instances of both | `Leader`, `Replication` |
| `Cluster`, `MCCluster` | a cluster of nodes: votes, logs, commits, reads | `Memberships` |
| `ReplicatedLog` | what a cluster promises; `Cluster` implements it | |
| `RaftApi`, `MCRaftApi` | calls on the Raft handle and the tasks that answer them | |
| `Watchers` | watch channels and the tasks that read them | |
| `SnapshotStream` | chunked snapshots | |
| `MCHandle` | instances of both | `Watchers`, `SnapshotStream` |
| `MetaServer`, `Session` | a command through proxy and server; logins and id slots | |
| `MCMetaServer` | instances of both | `MetaServer`, `Session` |
| `LogStoreProofs`, `NodeProofs`, `ClusterProofs`, `LeaderProofs`, `ReplicationProofs`, `RaftApiProofs`, `SnapshotStreamProofs`, `MetaServerProofs` | theorems on the module each is named for; the last also on `Session` | that module |

`MCLeader`, `MCHandle` and `MCMetaServer` check two modules in one run. The two share no state (or
only what each lets take any value), so a variable `focus` chooses at the start which of them a
behaviour exercises; the other does not move, and its initial state is fixed. A focus may also be a
part of a module that has its own bounds: `MCLeader` lets time pass only where it looks at the
lease, `MCHandle` lets logs grow only where a task waits for it.

**LogStore.** A database value has the fields `log`, `purged`, `vote` and `snap`. `survivors` is
the set of contents that some prefix of the write-ahead log leaves: a put adds the new contents
(a batch adds one per entry, `purge` adds the one between its two writes), `flush_wal(true)`
reduces the set to the current contents, `Crash` picks a member. All column families share the
log, so a sync by anyone syncs everything before it. `save_vote` is split at its await; flush
tasks of `append` are pending in `flushing` and end in any order. The guards are those of the
engine: votes grow, appends follow the last log id, truncation does not touch what the snapshot
covers, `PurgeLog` after an install holds back the commands behind it. `Start` is the clean-up in
`get_initial_state`. `LogStoreIds` adds `RaftState.log_ids`, changed in the same steps by the
methods of `LogIdList` and loaded by the search that `get_key_log_ids` does. `StaleTail` says
whether a follower may have a shorter log of a later, stale leader when it installs a snapshot.

**Node.** `rs` holds the fields of `RaftState` and `IOState` that the code branches on; `cmds` is
`EngineOutput`, `smq` the worker's queue, `notes` and `inflight` the notifications to come.
A message is handled in one step that leaves state and queued commands (`EngineAppend`,
`EngineInstall`); each command is then a step of its own, taken in order when its condition is
met; the apply that `next_progress_driven_command` finds is one too. Worker and builder interleave
with them; `ApplyOne` is one turn of the loop of `apply`, because the lock of the map is an await.
A flush report is a value in a watch channel, so one that is unread may be overwritten by that of
another flush task; RaftCore's own reports (`FromCore`) are not. Memberships are entries of the
log and follow it as `MembershipState` does. The cluster around the node is a setting:
`LeaderLog[t]`, the log of the leader of term `t`, and `Committed[t]`; `RaftAssumption` is log
matching and leader completeness, which `Cluster` shows. A leader may send any range of its log,
with any commit index, again and late.

**Cluster.** `node[n]` is the engine and core of a node. Messages are kept in sets, so each can be
lost, late, repeated or overtaken: vote requests in `asked`, votes in `granted`, what leaders had to
send in `sent`, acknowledgements in `acked`. `sent` holds one log per leader, since a leader's log
only grows and a request is any part of it: `Publish` replaces it by what continues it, and `acked`
keeps the last acknowledgement of a node to a leader. Of the parts a leader may send, `Requests`
keeps those that differ in what they do: entries from the first one on do what the same entries do
after one the node has, and a request after an entry the node lacks is refused and makes it
truncate. A vote or an entry is acknowledged when it is on disk (`Flush`); a crash loses what is
not. A node whose saved vote is committed resumes as leader, as `Engine::startup` does. Time is
left out: leases and timeouts end at any moment. `ensure_linearizable` is three steps: the read
log id, a quorum of heartbeats, the wait for apply.

**ReplicatedLog** has a log that only grows, a prefix of it per node and reads that return at
least what was chosen when they began. `IsReplicatedLog` maps the entries that leaders committed,
what each node applied and the reads of `Cluster` to it.

**Leader.** `VecProgress` keeps its vector, its order and its cached accepted value, updated as
`update_with` does; `RebuildProgresses` carries them over to a new quorum set. A client's change is
two writes, each answered when its entry is applied, with the other client, commits, a removed
leader, a transfer and heartbeats between them. `Deposed` is a higher vote.

**Replication.** The progress entry with its inflight id, the search for the matching log id with
`Stride`, the watch channels to the task, `StreamState`, the transmitter and the heartbeat worker,
each a process; `wire` and `notes` carry what is under way. A membership change ends a session and
starts another; the rest of the old one may still arrive. `panic` records a failed unwrap,
`unreachable!` or `debug_assert`.

**RaftApi.** A caller makes one call, may be cancelled at each await and ends with the answer of
whoever holds its sender. `core` runs, quits and stops; the first caller that finds it stopped
joins its task (`coreState`). Responders wait by log index while the node is deposed, truncated or
given a snapshot. Flush tasks report in any order (`syncing`, `Overwritten`). Queues whose order
decides nothing (responders, pending answers) are sets.

**Watchers, SnapshotStream.** RaftCore publishes before it waits for the next message; readers see
the last value only. Chunks of two sessions and calls that were given up reach one slot.

**MetaServer.** One command at a time, since the proxy has one thread. A command is a sequence of
fan-outs; each request to a node is a step, so nodes die, restart, lag and are elected between the
requests of one fan-out. The cluster is abstract: committed writes `hist`, the prefix each node has
applied, one proposed entry `pending`, the configuration. An election keeps the proposed entry or
drops it; a former leader that is alive answers the waiting request accordingly. An election may
pick any live voter; one with an incomplete log cannot win in reality, but for what the fan-out
sees, the applied prefix, it stands for one that has the log and has not applied it. A restarted
node applies from some earlier prefix on, which is what `Start` of `Node` does. `ADD-LEARNER`
blocks as `add_learner` with `blocking = true` does.

**Session.** Every call to the proxy is atomic; what interleaves are the calls of several clients,
and Ctrl-C.

## Runs that pass

| Run | Shows | Bounds, and why they are enough | Distinct states |
|---|---|---|---|
| `LogStore` | acknowledged entries and votes survive, no gap, repair at start; the key log ids are those of the log | 3 indexes, 2 terms, batches of 2: a batch cut by a crash, a conflict, an install beyond the log; the search over all logs of 5 entries and 5 leaders | 98,522 |
| `Node` | only chosen entries are applied, without gap; keys, memberships and openraft's `validate`; the queue drains, commits are applied, builds end | 2 leaders whose logs part; a snapshot built after every entry and nothing kept, of 2 entries or with the last one uncommitted, so that there is a log behind the snapshot; or 3 entries and snapshots of the leader with writes, or with memberships: truncation, overwrite, build, install, purge, restart all happen, builds and installs in settings of their own (where they meet, `NodeOverwrite` ends several of the invariants) | 246,323 |
| `Leader` | committed is on a quorum, memberships overlap, no change is left half done; the matching of a follower is true and nothing in flight is purged | 3 nodes, the memberships the start script goes through and a joint one left by an earlier leader, 2 clients, a higher vote; the clock of the lease moves in behaviours of their own; for replication 4 entries, payload 1, a follower with an empty or a conflicting log, budgets of heartbeats and faults | 1,825,157 |
| `Cluster` | Raft's safety, and the refinement of `ReplicatedLog` | 3 nodes, five budgets: two initialized nodes and two elections; or a leader, and an election with a crash, a write, logs that arrive in parts, or a read | 831,548 |
| `RaftApi` | every call ends, none is forgotten, success means the caller's entry | 2 callers, all pairs of kinds that meet in a queue or end what the other waits for, one pair at a node that is no leader yet; a channel of one message | 481,260 |
| `Handle` | callbacks follow the leader, waits end; chunked snapshots | 2 terms, 2 IOs in flight; 2 sessions of 3 chunks, one fault, one late call | 495,542 |
| `MetaServer` | what is logged as written is committed, a reachable leader answers puts and reads, every command ends; no shared ids | 3 nodes, 2 servers, 3 events of which one election, any number of deaths; 3 clients for 2 ids | 721,488 |

Deadlock is checked in `LogStore` and `Node`. In the others the budget of elections,
calls or commands may be spent, after which nothing is left to do.

Fairness is weak, and only of what the runtime or a timer drives. `Node`: each task that can run is
polled and a sync ends; nothing of messages, crashes or restarts. `RaftApi`: a caller whose answer
is there proceeds, RaftCore takes its messages, the worker its commands. `Watchers`: the tasks, the
disk and the timers. `SnapshotStream`: a sender goes on and a live call is answered.
`MetaServer`: a request that can be answered is, a leader with a quorum commits, a quorum without
leader elects; nobody has to restart a node, so `CommandEnds` is conditional on a quorum that
stays. `CallsEnd` does not demand that a quorum answers, so writes are covered once RaftCore has
stopped; it excepts a call whose flush report was lost (`LostFlush`).

## Runs that show a disagreement

| Run | What the code does |
|---|---|
| `NodeOverwrite` | a builder that ends late replaces an installed snapshot, whose log is then purged |
| `NodeMembership` | an installed snapshot beyond a shorter log leaves the log's uncommitted membership in effect |
| `ClusterPowerLoss` | a leader that loses unsynced entries in a power loss resumes its leadership and gives their ids to others |
| `LeaderDisjoint` | on the way from one voter to the two other nodes, `VecProgress` accepts a value that the one voter has not flushed, and it is committed |
| `LostFlush` | two flush tasks end out of order, the earlier report overwrites the later one, and the engine waits for an IO that is done |

`PROJECT.json` quotes the line each contradicts. `CommittedIsApplied` is stated for behaviours
without the overwrite of `NodeOverwrite`, since after it the entries are gone.

## What is proved

TLAPS checks these theorems for every value of the constants. All of them are invariants or step
simulations of the same `Spec` the runs check, by induction: an inductive invariant holds at the
start, each action keeps it, and it implies the property. None of the properties is inductive
alone; what follows says what each needs.

**Cluster** (`ClusterProofs`; any set of nodes, any budgets, parts of logs included). Assumption:
`~ LeaderLoses`, a leader that restarts finds the log it wrote; `ClusterPowerLoss` shows that
`LogsMatch` fails without it. `LogsMatch` (`Matching`), `ChosenIsHeld` (`Held`), `LeaderIsComplete`
(`Complete`) and the role and commit index of a node (`ClusterTypeCorrect`) follow from `SafeInv`
(`Safety`), which says:
- `NodeInv`, `AskedInv`, `GrantedInv`, `SentInv`: a vote is known to the node it names before anyone
  else has it, and a committed one has a quorum of voters, so each is that of one leader with one
  log that grows;
- `LogInv`, `AcceptedInv`: each entry of a log, with all before it, is in the log of the leader whose
  id it carries; what a node accepted from a leader is what that leader has;
- `AckedInv`, `GrantInv`, `CompleteInv`: an entry is *choosable* under a vote while a quorum has
  acknowledged it or can still do so. Who acknowledged a choosable entry holds it on disk and grants
  later votes only to logs as good, so every later leader has it;
- `ChosenInv`, `CommitInv`: what is chosen, and what a node takes for committed, is justified by a
  choosable entry, and so are all entries before it.

The notion of choosable is needed because `acked` says what a node had acknowledged, and a node that
has since seen a greater vote may have replaced it.

`Linearizable` is the refinement: `Spec => IsReplicatedLog`, so `Cluster` implements
`ReplicatedLog`, linearizable reads included. Its second assumption is that a budget with reads has
no crashes: a leader that resumes may answer an old state (see the known cases). The invariant for
reads (`ReadSafe`, `ReadVotes`) says that a leader knows what was chosen under its own vote, and that
a read either took a log id at or beyond what was chosen when it began, or a quorum already has
votes above the reader's and will not confirm it.

**LogStore** (`LogStoreProofs`; with and without `StaleTail`; assumption: the bounds are naturals).
The store is type correct (`TypeCorrect`), acknowledged entries and votes survive (`Durability`,
`VoteDurability`), every log a power loss leaves is gapless and covered by its snapshot
(`CrashConsistency`), start repairs a cut install (`StartRepairs`). `IndInv` says of *every*
survivor that it is `Sound`: gapless above `purged`, an interval with a last index, terms ascending,
purged at most up to the snapshot, entries at and above the snapshot's index not older than it.
Survivors are needed because a crash may pick any of them; the interval because `DeleteFrom`,
`DeleteUpto` and an append at the last key keep it; the terms because `get_initial_state` compares
log ids, term first.

**Node** (`NodeProofs`; any number of leaders, any logs and payloads, any number of messages,
commands, builds, deaths and restarts). Assumptions: `RaftAssumption`, the history of leaders that
a setting stands for is one Raft allows (log matching and leader completeness, which `Matching` and
`Complete` show of `Cluster`), `KeepAssumption`, the number of logs kept is a natural number, and
`SnapshotsSeparate`: a behaviour in which the leader sends snapshots has none built here. The run
`NodeOverwrite` shows why: a builder that ends after an install replaces the newer snapshot, and
the entries between the two are purged. What is applied and what has been read are chosen entries
(`AppliesChosen`), in sequence with what is still queued (`AppliesInSequence`), no key of a running
node is behind what was applied (`ReplayCatchesUp`), and log IOs are submitted in order
(`SubmissionOrder`). The difficulty is that a decision is taken on the state of the engine and
carried out on the disk after everything queued before it. `NodeInv` (`NodeInvariant`) therefore
follows both queues. It names a state of the disk after each command of
the engine (`Running`): the first is what the database holds, the last is what the engine believes
(`Accepted`), and each command takes one to the next (`Link`). Each such log is `Solid`: above the
snapshot it has no hole, and an entry it shares with a leader comes with all entries before it. A
truncation that has not run yet is above everything sent to the state machine (`Due`), and whatever
would hold it up too long is not in front of it (`Unblocked`). `Chain` does the same for the worker:
a command takes the last applied index from one number to the next, and the entries of an `Apply`
are in the database and are the chosen ones until they have been read (`Carries`). `Durable` is what
remains when the process dies, and what `get_initial_state` starts from. `NodeInv` says nothing of
the map of keys; `KeyInv`, inductive together with it, does: the map of the running state machine,
of the snapshot in the database and of each snapshot still queued is, key by key, one the chosen
log has at or after its log id (`Ahead`), which applying the next chosen entry keeps for put and
delete.

**Leader** (`LeaderProofs`; any nodes, clients and requests, batches included). Assumption
(`LeaderAssumption`): the first memberships and the requests are memberships and changes in the
code's sense, of finite sets; a membership that is not committed yet is not the first entry of the
log, and shares a voter set with the one before, as whatever `find_coherent` gives does. Any two quorums of consecutive memberships meet (`QuorumsMeet`), because `find_coherent`
gives them a voter set in common (`ChangeIs`); at most one membership is not committed
(`OneUncommitted`); no call that succeeded leaves a joint config (`ChangeEndsUniform`). `LeaderInv`
(`LeaderInvariant`) adds that the memberships a leader remembers are entries of its log, that the
effective one is the only one that may not be committed, and that a caller at its second step waits
for a uniform membership (`FlattenIs`). It also needs the type of the progress, through `move_up`
and a rebuilt quorum set: a value that is accepted is a number, so that the commit index grows.

`AcceptedByQuorum` and `CommittedStays` say that a quorum has what each `VecProgress` accepts, and
that no quorum of a membership in use is without what is committed. Both are about behaviours with
`[]SmallQuorums`: every effective config has up to three voters, one of which makes a quorum with
any other (`PairsSuffice`). That is so of every config of two voters, of the uniform one of three,
and of the joint one of a single voter with three, either way round: what the start script goes
through, and all that the run `Leader` reaches. It is not so of the joint configs of three voters that
need all of them or two given ones, nor of larger clusters, and for these the properties do not
hold: see `LeaderDisjoint` and the known cases. The vector is *not* sorted above the accepted value, as its comment says, so the proof
rests on what is true of it: a value above the accepted one is never at a central voter that is not
first, nor behind one that is (`CentreFirst`), since a central voter and any other one would have
been accepted. The search therefore finds two voters that are enough or passes a third one whose
value counts (`MovedAccepted`). A rebuilt quorum set puts the values one by one in a new progress,
where each of them is new (`UpgradeAccepts`). `AccInv` adds that each value is one its node holds
(`HeldInv`), that the two memberships overlap (`PairInv`), and that a quorum of one of them holds
what is committed (`CommittedHeld`); then no quorum of either can be without it.

**Replication** (`ReplicationProofs`; any logs, payload size, stride, budgets of faults, heartbeats,
membership changes and calls of `allow_next_revert`, with and without partial answers and
`allow_log_reversion`). Assumption: `ReplicationAssumption`, the leader's log is at least as long as
what was purged of it, the payload and the stride are not zero and the follower's log contains what
it shares with the leader. What the leader counts as replicated the follower holds
(`ProgressIsTrue`), no unwrap, `unreachable!` or `debug_assert` fails (`NeverPanics`), both as long
as the follower keeps its data; and what is being sent is not purged, whatever the follower lost
(`SendsWhatIsKept`). `RepInv` (`ReplicationInvariant`) has two parts. `FlowInv` says where the one
thing in flight is: as data in the channel, at the task, on the wire, at the transmitter, or
reported by the notifications that bear the session and an inflight id (`Mine`). What is still to be
sent or reported lies at or after what has been (`Reach`, `Reports`), so that each answer falls into
the range in flight when it is taken; an error or a conflict is the last report. While a session is
joined, everything under way belongs to an earlier one. `KnownInv` says that whatever *claims* that
the follower has an entry is true of it: the progress entry, the task, answers and notifications of
any age (`HeldOK`). A refused request therefore starts after all of these (`RefusedOK`), which is why
a late conflict never takes the progress back, and what is in flight starts at or after what is known
to match (`ProgressOK`). A commit index is sent with id 0, after the task's own matching log id,
which may be ahead of the progress: `Told` says that the notifications queued before it close the
gap, so its answer changes nothing.

**RaftApi** (`RaftApiProofs`; any callers, plans, channel size and bounds). An `Ok` is the answer to
the caller's own applied entry (`Answers`), and no caller waits for a sender that nobody holds
(`Senders`). `ApiSafe` (`ApiInvariant`) says where a sender may be and what is known of the entry
under its index: a responder above the commit index belongs to the entry that is there now, because
whatever replaces entries drains their responders; one in a command of the worker belongs to an
entry at or below the commit index, which stays; the commands of the worker ascend.

**SnapshotStream** (`SnapshotStreamProofs`; any number of sessions, chunks, snapshots and faults). A
snapshot that a leader takes for installed is held (`Installed`). The strengthening is `CallsOK`: an
`ok` to the last chunk was given when the follower had committed the snapshot of that transmitter,
also if the call is late and its transmitter long gone.

**MetaServer** (`MetaServerProofs`; any nodes, servers, values and numbers of elections and events).
What is logged as written is committed (`LoggedWrites`), a put that can reach its leader succeeds
(`ReachablePuts`), and the first node's answer is the last acknowledged write while its leader
stays (`SteadyReads`). `MetaInv` adds what a fan-out has behind it and before it: whose answer is
among the responses (`CommitInv`), that a proposed entry of a live leader is the one the command in
progress waits for (`WaitInv`), that the leader is still to be asked or has answered `Ok`
(`ReachInv`), and that a leader not replaced since the last acknowledged write has applied it
(`SteadyInv`).

**Session** (`MetaServerProofs`; any clients and ids). Type correctness and `NoSharedId` (`NoSharing`);
the strengthening is `HeldIsMarked`: the id a client holds is marked at the proxy.

Only model-checked: the invariants of `LogIdList`; `EffectiveIsLast` and `RaftStateValid` of `Node`;
and all liveness (`QueueDrains`, `CommittedIsApplied`, `BuildEnds`, `CallsEnd`, `CommandEnds`, `WatchFollows`, `NoWaitSticks`,
`TransmitEnds`), which is outside the reach of the prover used, as are ENABLED and what the search
of `LogIdList`, a recursive operator, computes.

## Known cases outside the passing runs

- `StaleTail`: a shorter log of a later, stale leader under an installed snapshot fails the
  `debug_assert` of `LogIdList::purge`.
- `Sendable` (`Node`): a snapshot behind the log of the same leader fails the `assert` of
  `IOProgress::submit`; one that overtakes a queued `UpdateIOProgress` reaches the `unwrap` of
  `SaveCommittedAndApply`.
- `LeaderLoses` (`Cluster`): see `ClusterPowerLoss`.
- Linearizable reads after a restart of the leader. A leader that finds its own committed vote
  leads again at once. What it had committed it has forgotten: `RocksLogStore` does not implement
  `save_committed`, and the default of `read_committed` (`storage/v2/raft_log_storage.rs:83`)
  answers `None`. `get_read_log_id` (`leader_handler/mod.rs:109`) then falls back on the first
  entry of its leadership, which is older than entries it had committed and answered before: the
  read is confirmed by a quorum and misses them. `docs/protocol/read.md:3` says that reads are
  "guaranteed to be linearizable", while the comment at `raft_log_storage.rs:70` leaves it to the
  application not to serve reads after a restart. `RestartedReads` of `MCCluster` is the budget that shows it in
  `IsReplicatedLog`; the passing run has no budget with both a crash and a read. The application
  reads its local map, so no client of it meets this.
- `VecProgress` with four or more voters may accept a value no quorum has (a→1, b→2, a→3, c→3
  gives 3). With three it does not while the config is uniform, the size this application runs, but
  it may in a joint config, which CHANGE-MEMBERSHIP enters: `LeaderDisjoint` shows one that needs all
  three; with [{1, 2}, {1, 2, 3}], 3→1, 1→1, 1→5, 2→2 gives 5, which node 1 alone has.
- A follower that lost its data with `allow_log_reversion` off, where the `debug_assert` is meant
  to fail; a deposed leader whose responders a snapshot covers (`raft_core.rs:831`, `:847`).
- A snapshot's data may be newer than its log id; `NoKeyBehind` is why this is harmless for put
  and delete: replaying the log repairs every key.
- Reads are local, and `current_ids` is kept per server: a get may be stale, and a put fails at a
  server whose list does not hold the leader. `SteadyLeaderReads` and `ReachablePutSucceeds` say
  when neither happens.
- A follower's `{"Err"}` dict hides the leader's success of ADD-LEARNER and CHANGE-MEMBERSHIP; a
  GET whose requests all fail shows the text `Err` as a value.
- `EXIT NOW`, on which the proxy frees the id and the client goes on: two clients may share an id.

## Not modelled

Lease reads (clocks); single-progress watch getters; the layout of METRICS; JSON and the encoding
of keys; errors of RocksDB in `Node` (`RaftApi` has storage errors); ids outside the three nodes;
writers that bypass the proxy; a restart of the proxy; configuration parsing, error types,
runtimes, histograms, other crates, tests and docs of openraft; the mock `test_flask.py` and the
shell scripts.

## What is left to prove

1. `EffectiveIsLast` and `RaftStateValid` of `Node`: `NodeInv` with the memberships added to
   `Durable` and `Link`, and with the notifications in `inflight`.
2. `IdsMatchLog` and `KeysAreCanonical`, after the search moves out of `LogIdList` so that no
   RECURSIVE operator is reached.
