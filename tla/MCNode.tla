------------------------------- MODULE MCNode -------------------------------
(***************************************************************************)
(* Instances of Node: two leaders whose logs part after the first entry,   *)
(* and payloads that set, overwrite and remove a key and change members.   *)
(***************************************************************************)
EXTENDS Node, TLC

CONSTANTS a, x, y

Put(k, v) == [k |-> "Put", key |-> k, val |-> v]
Del(k)    == [k |-> "Del", key |-> k]
Blank     == [k |-> "Blank"]
Member    == [k |-> "Membership"]

\* The leader of term 1 leaves an entry behind that term 2 replaces.
Two == [logs |-> << <<1, 1>>, <<1, 2, 2>> >>, committed |-> <<1, 3>>]

\* The membership left behind is replaced by another one.
Members(last) == << <<Put(a, x), Member>>, <<Blank, Member, last>> >>

\* The last entry is not committed: there is a log behind every snapshot.
Trailed == [Two EXCEPT !.committed = <<1, 2>>]

\* Snapshots are built on this node, of all of the log or of the part that is
\* committed, or come from the leader with writes or with a membership.
Building   == {[logs |-> << <<1, 1>>, <<1, 2>> >>, committed |-> <<1, i>>,
                ops |-> << <<Put(a, x), Member>>, <<Blank, Put(a, y)>> >>,
                threshold |-> 1, installs |-> "none"] : i \in 1..2}
Writes     == << <<Put(a, x), Put(a, y)>>, <<Blank, Del(a), Member>> >>
Installing == {Trailed @@ [ops |-> ops, threshold |-> 9, installs |-> "fresh"] :
                 ops \in {Writes, Members(Del(a))}}
Separate == Building \cup Installing

\* Both at the same time.
Mixed == {Two @@ [ops |-> Members(Put(a, y)), threshold |-> 1, installs |-> "fresh"]}

\* The membership left behind is replaced by a write.
Replaced == {Two @@ [ops |-> << <<Put(a, x), Member>>, <<Blank, Blank, Del(a)>> >>,
                     threshold |-> 9, installs |-> "fresh"]}
=============================================================================
