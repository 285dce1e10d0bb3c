----------------------------- MODULE MCCluster -----------------------------
(***************************************************************************)
(* Bounds for Cluster: each budget is an instance of its own, aimed at one *)
(* of the things that can go wrong together.                               *)
(***************************************************************************)
EXTENDS Cluster

Budget(started, voted, electors, mortals, counts) ==
    [started |-> started, voted |-> voted, electors |-> electors, mortals |-> mortals,
     inits |-> counts[1], elections |-> counts[2], writes |-> counts[3],
     crashes |-> counts[4], reads |-> counts[5], parts |-> FALSE]

Bounds ==
    {\* two nodes are initialized, and two elections compete
     Budget({}, {}, {1, 2}, {}, <<2, 2, 0, 0, 0>>),
     \* a second election, and a crash of the first leader or of a follower
     Budget(Node, {1, 2}, {2}, {1, 3}, <<0, 1, 0, 1, 0>>),
     \* a second election, and a write to either leader
     Budget(Node, {1, 2}, {2}, {}, <<0, 1, 1, 0, 0>>),
     \* a second election, and logs that arrive in parts
     [Budget(Node, {1, 2}, {2}, {}, <<0, 1, 0, 0, 0>>) EXCEPT !.parts = TRUE],
     \* a second election, and a read from either leader, for both of which all vote
     Budget(Node, Node, {2}, {}, <<0, 1, 0, 0, 1>>)}

\* The machine of the leader fails once, between two writes.
PowerLoss == {Budget(Node, {1, 2}, {}, {1}, <<0, 0, 2, 1, 0>>)}

\* A write, a restart of the leader, and a read: IsReplicatedLog does not hold.
RestartedReads == {Budget(Node, {1, 2}, {}, {1}, <<0, 0, 1, 1, 1>>)}
=============================================================================
