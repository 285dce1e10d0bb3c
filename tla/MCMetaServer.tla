--------------------------- MODULE MCMetaServer ---------------------------
(***************************************************************************)
(* Node 1, which leads, learner 2 and node 3 yet to be added; two servers, *)
(* and the cluster grown, or moved off node 1; three clients for two ids.  *)
(* Logging in and running commands share no state but the id, so a         *)
(* behaviour exercises one of them.                                        *)
(***************************************************************************)
EXTENDS MetaServer, Session

VARIABLE focus

Nodes == 1..3
Servers == {0, 1}
Memberships == {<<1, 2>>, <<2>>, <<1, 2, 3>>}

MetaInit == Init /\ SessionInit /\ focus \in {"login", "commands"}

MetaNext ==
  /\ UNCHANGED focus
  /\ \/ focus = "login" /\ SessionNext /\ UNCHANGED vars
     \/ focus = "commands" /\ Next /\ UNCHANGED sessionVars

MetaSpec == MetaInit /\ [][MetaNext]_<<vars, sessionVars, focus>> /\ Fairness
===========================================================================
