---------------------------- MODULE Memberships ----------------------------
(***************************************************************************)
(* Membership configurations of openraft and the quorums they define       *)
(* (membership/membership.rs, quorum/*.rs, change_members.rs), and the two *)
(* memberships a node remembers (raft_state/membership_state/).            *)
(*                                                                         *)
(* A membership is a record: "configs" is the sequence of voter sets, one  *)
(* set when uniform and two when joint, and "nodes" maps every voter and   *)
(* learner to its address.  BTreeMaps are functions, BTreeSets are sets.   *)
(***************************************************************************)
EXTENDS Integers, Sequences, FiniteSets, SequencesExt, TLC

\* Majority of one voter set: is_quorum counts two for each id of the set it
\* meets and compares with the size of the set.
IsMajority(c, ids) == 2 * Cardinality(c \cap ids) > Cardinality(c)

\* A quorum of a joint config is a quorum of each of its sets.
IsQuorum(configs, ids) == \A i \in DOMAIN configs : IsMajority(configs[i], ids)

\* Voters are the ids of any set of the joint config; the other nodes are
\* learners.
VoterIds(configs) == UNION ToSet(configs)
LearnerIds(m) == DOMAIN m.nodes \ VoterIds(m.configs)

\* Two joint configs are coherent if they share a set.
IsCoherentWith(configs, c) == c \in ToSet(configs)

\* Mutant: straight to the goal.
FindCoherentDirect(configs, goal) == <<goal>>

\* The config to go through on the way from a joint config to "goal".
FindCoherent(configs, goal) ==
    IF IsCoherentWith(configs, goal) \/ configs = <<>>
    THEN <<goal>>
    ELSE <<Last(configs), goal>>

\* Nodes already present keep their address.
ExtendNodes(old, new) ==
    [n \in DOMAIN old \cup DOMAIN new |-> IF n \in DOMAIN old THEN old[n] ELSE new[n]]

DropNodes(nodes, ids) == [n \in DOMAIN nodes \ ids |-> nodes[n]]

\* The next membership towards "goal".  Voters that are in no set any more are
\* forgotten unless "retain" keeps them as learners.
NextCoherent(m, goal, retain) ==
    LET configs == FindCoherent(m.configs, goal)
        gone == VoterIds(m.configs) \ VoterIds(configs)
    IN  [configs |-> configs,
         nodes |-> IF retain THEN m.nodes ELSE DropNodes(m.nodes, gone)]

\* No empty voter set, and every voter has a node.
EnsureValid(m) ==
    /\ \A i \in DOMAIN m.configs : m.configs[i] # {}
    /\ VoterIds(m.configs) \subseteq DOMAIN m.nodes

\* A membership is uniform or joint, of finitely many nodes.
IsMembership(m) ==
    /\ m = [configs |-> m.configs, nodes |-> m.nodes]
    /\ m.configs \in Seq(SUBSET Nat) /\ Len(m.configs) \in 1 .. 2
    /\ \A i \in DOMAIN m.configs : IsFiniteSet(m.configs[i])
    /\ DOMAIN m.nodes \in SUBSET Nat /\ IsFiniteSet(DOMAIN m.nodes)

\* The last set of a joint config is the one the cluster is moving to.
LastConfig(m) == IF m.configs = <<>> THEN {} ELSE Last(m.configs)

\* A change carries a set of ids, or a map from ids to nodes.
IsChange(change) ==
    /\ change.kind \in {"AddVoterIds", "RemoveVoters", "ReplaceAllVoters", "RemoveNodes",
                        "AddVoters", "AddNodes", "SetNodes", "ReplaceAllNodes"}
    /\ LET ids == IF change.kind \in {"AddVoters", "AddNodes", "SetNodes", "ReplaceAllNodes"}
                  THEN DOMAIN change.arg ELSE change.arg
       IN  ids \in SUBSET Nat /\ IsFiniteSet(ids)

\* A request is one change, or a batch of them.
IsRequest(change) ==
    IF change.kind = "Batch"
    THEN Len(change.arg) \in Nat /\ \A i \in 1 .. Len(change.arg) : IsChange(change.arg[i])
    ELSE IsChange(change)

\* The membership one change of a request asks for.
ApplyChange(m, change) ==
    LET k == change.kind
        a == change.arg
        voters(s) == [m EXCEPT !.configs = <<s>>]
        nodes(f) == [m EXCEPT !.nodes = f]
    IN  CASE k = "AddVoterIds"      -> voters(LastConfig(m) \cup a)
          [] k = "AddVoters"        -> [configs |-> <<LastConfig(m) \cup DOMAIN a>>,
                                        nodes |-> ExtendNodes(m.nodes, a)]
          [] k = "RemoveVoters"     -> voters(LastConfig(m) \ a)
          [] k = "ReplaceAllVoters" -> voters(a)
          [] k = "AddNodes"         -> nodes(ExtendNodes(m.nodes, a))
          [] k = "SetNodes"         -> nodes(ExtendNodes(a, m.nodes))
          [] k = "RemoveNodes"      -> nodes(DropNodes(m.nodes, a))
          [] k = "ReplaceAllNodes"  -> nodes(a)

\* compute_target_membership: a batch applies its changes in their order.
ComputeTarget(m, change) ==
    IF change.kind = "Batch"
    THEN LET after[i \in 0 .. Len(change.arg)] ==
                 IF i = 0 THEN m ELSE ApplyChange(after[i - 1], change.arg[i])
         IN  after[Len(change.arg)]
    ELSE ApplyChange(m, change)

\* Membership::change: the target's voters are the goal, its nodes replace the
\* present ones.
Change(m, change, retain) ==
    LET target == ComputeTarget(m, change)
    IN  NextCoherent([m EXCEPT !.nodes = target.nodes], Last(target.configs), retain)

----------------------------------------------------------------------------
(* MembershipState: [committed, effective], each [at: log index, m].  Log   *)
(* ids of one leader's view are ordered as their indexes.                   *)

\* commit: the effective membership is committed once the log is, up to it.
CommitMembership(mem, committed) ==
    IF committed >= mem.effective.at THEN [mem EXCEPT !.committed = mem.effective] ELSE mem

\* append: the membership that was effective must have been committed.
AppendMembership(mem, em) == [committed |-> mem.effective, effective |-> em]

\* ensure_committed: a change is refused while the last one is not committed.
EnsureCommitted(mem) == mem.effective.at = mem.committed.at
=============================================================================
