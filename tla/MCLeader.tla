------------------------------ MODULE MCLeader ------------------------------
(***************************************************************************)
(* A leader: how it brings a follower up to date (Replication), and what   *)
(* its engine makes of what all of them acknowledge (Leader).  The two     *)
(* meet in the matching log ids only, of which Leader lets any come, so a  *)
(* behaviour exercises one of them.                                        *)
(***************************************************************************)
EXTENDS Leader, Replication

VARIABLE focus

ClientSymmetry == Permutations(Client)
----------------------------------------------------------------------------
(* Replication: a follower with an empty or a conflicting log.             *)

Logs == {[match |-> 0, last |-> 0], [match |-> 1, last |-> 3]}

Budget(changes, beats, faults, wipes, allows, reversion) ==
  [changes |-> changes, beats |-> beats, faults |-> faults, wipes |-> wipes, allows |-> allows,
   reversion |-> reversion]

\* A new session with a heartbeat or a fault; both of these in one session, to a
\* conflicting log; a follower that loses its data, where the config allows
\* that; a permission that is not needed.
Both   == Budget(0, 1, 1, 0, 0, FALSE)
Bounds == {Both, Budget(1, 1, 0, 0, 0, FALSE), Budget(1, 0, 1, 0, 0, FALSE),
           Budget(1, 0, 0, 1, 0, TRUE), Budget(1, 0, 0, 0, 1, FALSE)}
----------------------------------------------------------------------------
(* The clusters of three nodes that the start script builds: one voter and *)
(* two learners before CHANGE-MEMBERSHIP, three voters after it, and the   *)
(* joint config in between that an earlier leader may have left.           *)

Addr(S) == [n \in S |-> "addr"]
Uniform(v, l) == [configs |-> <<v>>, nodes |-> Addr(v \cup l)]
JointOf(a, b, l) == [configs |-> <<a, b>>, nodes |-> Addr(a \cup b \cup l)]
Stable(m) == [committed |-> m, effective |-> m]
Req(k, a, r) == [change |-> [kind |-> k, arg |-> a], retain |-> r]

Members3 ==
  {Stable(Uniform({1}, {2, 3})),
   Stable(Uniform({1, 2, 3}, {})),
   [committed |-> Uniform({1}, {2, 3}), effective |-> JointOf({1}, {1, 2, 3}, {})]}

Requests3 == {Req("ReplaceAllVoters", {1, 2, 3}, TRUE),
              Req("Batch", <<[kind |-> "RemoveVoters", arg |-> {1, 3}],
                             [kind |-> "AddVoters", arg |-> Addr({2})]>>, FALSE)}

\* The only voter makes way for the two others, through a config that needs all
\* three of them.
RequestsDisjoint == {Req("ReplaceAllVoters", {2, 3}, FALSE)}
----------------------------------------------------------------------------
\* What a behaviour does not exercise starts in one way only.  Time, which the
\* lease needs, passes where the log gets no more than the leader's first entry
\* and another one, and the leader stays and does not hand over.
LeaderInit ==
  /\ Init /\ ReplicationInit
  /\ focus \in {"replication", "engine", "lease"}
  /\ left = Both => follower.match = 1
  /\ focus # "replication" => left = Both
  /\ focus # "engine" => \A n \in Node : held[n] > 0
  /\ focus = "lease" => mem.effective = mem.committed
  /\ focus = "replication" => mem.effective.m = Uniform({1, 2, 3}, {})

LeaderNext ==
  /\ UNCHANGED focus
  /\ \/ focus = "replication" /\ ReplicationNext /\ UNCHANGED vars
     \/ focus = "engine" /\ Next /\ UNCHANGED <<now, repVars>>
     \/ /\ focus = "lease" /\ Next
        /\ Len(log') <= Inherited + 2 /\ leading' # "gone" /\ UNCHANGED <<transfer, repVars>>

LeaderSpec == LeaderInit /\ [][LeaderNext]_<<vars, repVars, focus>>
=============================================================================
