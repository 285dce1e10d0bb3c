----------------------------- MODULE MCRaftApi -----------------------------
(* Two callers: every pair in which the calls can meet in a queue, or one  *)
(* ends what the other waits for.                                          *)
EXTENDS RaftApi, TLC

CONSTANTS c1, c2
Calling(a, b, as) == [calls |-> (c1 :> a) @@ (c2 :> b), role |-> as]
Plan(a, b) == Calling(a, b, "leader")
Writers == {Plan("write", k) : k \in {"writeFf", "change", "init", "transfer", "sm"}}
Others  == {Plan("rpc", k) : k \in {"rpc", "state", "external", "trigger", "elect"}}
Workers == {Plan("shutdown", k) : k \in {"snapshot", "sm", "rpc"}}
             \cup {Plan("snapshot", "smFf")}
Requests == {Plan("rpc", "rpc")}
\* A node that is not the leader when it is asked, and may become it.
Followers == {Calling("write", "transfer", "follower")}
Pairs == Writers \cup Others \cup Workers \cup Followers
============================================================================
