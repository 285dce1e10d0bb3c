------------------------- MODULE ReplicationProofs -------------------------
(***************************************************************************)
(* What a leader knows of a follower is true, and the range in flight can  *)
(* be read, for any log, budget and payload size, and any delay, loss or   *)
(* repetition of requests and answers.                                     *)
(*                                                                         *)
(* A progress entry has one thing in flight at a time.  The invariant says *)
(* where it is: in the channel, at the task, on the wire, or reported by   *)
(* the notifications; and that what is still to be reported lies at or     *)
(* after what has been.                                                    *)
(***************************************************************************)
EXTENDS Replication, SequenceTheorems, TLAPS

Index == 0..lead.last

Inflights == {NoInflight} \cup [kind : {"snapshot"}, id : Nat]
               \cup {i \in [kind : {"logs"}, prev : Nat, last : Nat, id : Nat] :
                       i.prev < i.last /\ i.last <= lead.last}

Live(kind) == {r \in wire : r.kind = kind /\ r.live}

\* Notifications about what is in flight: of this session, with an id.
Mine(n) == n.session = session /\ n.id # 0
----------------------------------------------------------------------------
(* The types.                                                              *)

LeadOK ==
  /\ lead \in [last : Nat, committed : Nat, snap : Nat, purgeUpto : Nat, purged : Nat]
  /\ lead.purged <= lead.purgeUpto /\ lead.purgeUpto <= lead.snap
  /\ lead.snap <= lead.committed /\ lead.committed <= lead.last

EntryOK ==
  /\ entry \in [matching : Nat, inflight : Inflights, searchingEnd : Int, allow : BOOLEAN]
  /\ entry.matching \in Index /\ entry.searchingEnd \in -1 .. lead.last

FollowerOK ==
  /\ follower \in [match : Nat, last : Nat, committed : Nat, higher : BOOLEAN, wiped : BOOLEAN]
  /\ follower.committed <= follower.match /\ follower.match <= follower.last

TaskTypeOK ==
  /\ task \in [pc : {"idle", "read", "wait", "answered"}, id : Nat,
               rest : [prev : Nat, last : Int], last : Nat,
               answer : [kind : {"none", "matching", "conflict", "higher"}, log : Nat],
               committed : Nat, remote : Nat, session : Nat]
  /\ task.remote \in Index /\ task.last \in Index /\ task.answer.log \in Index
  /\ task.session <= session

ChanOK == chan \in [data : Inflights, news : BOOLEAN]

HeartbeatOK ==
  /\ hb \in [pc : {"idle", "wait", "answered"}, matching : Nat, session : Nat,
             answer : {"none", "matching", "conflict", "higher"}]
  /\ hb.matching \in Index /\ hb.session <= session

SnapperOK ==
  /\ snapper \in [pc : {"idle", "wait", "answered"}, id : Nat, log : Nat, session : Nat,
                  answer : {"none", "matching", "conflict", "higher"}]
  /\ snapper.log \in Index /\ snapper.session <= session

WireOK ==
  wire \subseteq {r \in [kind : {"append", "heartbeat", "snapshot"}, prev : Nat, last : Nat,
                         commit : Nat, live : BOOLEAN] :
                    /\ r.prev <= r.last /\ r.last <= lead.last
                    /\ r.kind # "append" => r.prev = r.last}

NotesOK ==
  /\ notes \in Seq([kind : {"matching", "conflict", "error", "higher"}, log : Nat,
                    id : Nat, session : Nat])
  /\ \A i \in 1..Len(notes) : /\ notes[i].log \in Index /\ notes[i].session <= session
                              /\ notes[i].kind = "error" => notes[i].id # 0

Types ==
  /\ LeadOK /\ EntryOK /\ FollowerOK /\ TaskTypeOK /\ ChanOK /\ HeartbeatOK /\ SnapperOK
  /\ WireOK /\ NotesOK
  /\ nextId \in Nat /\ session \in Nat /\ core \in {"run", "join", "gone"}
----------------------------------------------------------------------------
(* Where a request is, and who waits for it.                               *)

\* What the task has not sent yet starts at or after what it sent.
RestAfter(log) == task.rest # NoRange => /\ log <= task.rest.prev
                                         /\ task.rest.prev < task.rest.last
                                         /\ task.rest.last = task.last

\* Everything the task may still send or report is at or after log.
Reach(log) ==
  /\ task.pc = "read" => log <= task.rest.prev
  /\ \A r \in Live("append") : log <= r.prev
  /\ task.pc = "answered" /\ task.answer.kind = "matching" => log <= task.answer.log

\* The task is one of: idle; about to send the rest of its range; waiting for
\* the answer to the request on the wire; looking at the answer.  With id 0 it
\* tells the commit index, after the last entry known to match.
TaskOK ==
  /\ task.pc = "idle" => task.id = 0
  /\ task.pc = "read" => /\ task.rest.last = task.last /\ task.rest.prev <= task.last
                         /\ task.id # 0 => task.rest.prev < task.last
                         /\ task.id = 0 => task.rest.prev = task.last
  /\ \A r \in Live("append") :
       /\ task.pc = "wait" /\ RestAfter(r.last)
       /\ task.rest = NoRange => r.last = task.last
  /\ task.pc = "wait" => Live("append") # {}
  /\ \A r, s \in Live("append") : r = s
  /\ task.pc = "answered" =>
       /\ task.answer.kind # "none"
       /\ task.answer.kind = "matching" => RestAfter(task.answer.log) /\ task.answer.log <= task.last
  /\ task.id = 0 /\ task.pc # "idle" =>
       /\ task.last = task.remote
       /\ task.pc # "read" => task.rest = NoRange
       /\ \A r \in Live("append") : r.prev = task.remote
       /\ task.pc = "answered" /\ task.answer.kind = "matching" => task.answer.log = task.remote
  /\ task.id # 0 => Reach(lead.purged)

HbOK ==
  /\ \A r \in Live("heartbeat") : hb.pc = "wait" /\ r.prev = hb.matching
  /\ \A r, s \in Live("heartbeat") : r = s
  /\ hb.pc = "answered" => hb.answer # "none"

SnapOK ==
  /\ \A r \in Live("snapshot") : snapper.pc = "wait" /\ r.last = snapper.log
  /\ \A r, s \in Live("snapshot") : r = s
  /\ snapper.pc = "answered" => snapper.answer \in {"matching", "higher"}
  /\ snapper.log <= lead.snap
----------------------------------------------------------------------------
(* What is in flight.                                                      *)

\* The notifications about the range in flight: those before the last one say
\* how far the follower got, in order.
Reports(inf) ==
  /\ \A i \in 1..Len(notes) : Mine(notes[i]) =>
       /\ notes[i].id = inf.id
       /\ notes[i].kind = "matching" => inf.prev <= notes[i].log /\ notes[i].log <= inf.last
  /\ \A i, j \in 1..Len(notes) : Mine(notes[i]) /\ Mine(notes[j]) /\ i < j =>
       /\ notes[i].kind = "matching" /\ notes[i].log < inf.last
       /\ notes[j].kind = "matching" => notes[i].log <= notes[j].log

NoneMine == \A i \in 1..Len(notes) : ~ Mine(notes[i])

FlightOK ==
  LET inf == entry.inflight
  IN /\ inf.kind = "none" => /\ chan.data = NoInflight /\ task.id = 0 /\ snapper.pc = "idle"
                             /\ NoneMine
     /\ inf.kind = "logs" =>
          /\ snapper.pc = "idle" /\ inf.id # 0
          /\ inf.prev >= lead.purged
          /\ Reports(inf)
          /\ chan.data # NoInflight => chan.data = inf /\ task.id = 0 /\ NoneMine
          /\ task.id # 0 =>
               /\ task.id = inf.id /\ task.last = inf.last /\ Reach(inf.prev)
               /\ \A i \in 1..Len(notes) : Mine(notes[i]) =>
                    notes[i].kind = "matching" /\ notes[i].log < inf.last /\ Reach(notes[i].log)
     /\ inf.kind = "snapshot" =>
          /\ chan.data = NoInflight /\ task.id = 0 /\ inf.id # 0
          /\ \A i \in 1..Len(notes) : Mine(notes[i]) =>
               notes[i].id = inf.id /\ notes[i].kind = "matching" /\ snapper.pc = "idle"
          /\ \A i, j \in 1..Len(notes) : Mine(notes[i]) /\ Mine(notes[j]) => i = j
          /\ snapper.pc # "idle" => snapper.id = inf.id /\ snapper.session = session

RunOK  == task.session = session /\ FlightOK
JoinOK == /\ entry.inflight = NoInflight /\ task.session < session
          /\ snapper.pc = "idle" /\ hb.pc = "idle"
          /\ \A i \in 1..Len(notes) : notes[i].session < session

FlowInv ==
  /\ Types /\ TaskOK /\ HbOK /\ SnapOK
  /\ core = "run" => RunOK
  /\ core = "join" => JoinOK
----------------------------------------------------------------------------
(* What is known of a follower that keeps its data.                        *)

\* RaftCore knows that the follower has log once it took the first k
\* notifications.
Told(log, k) ==
  \/ log <= entry.matching
  \/ \E i \in 1..k : Mine(notes[i]) /\ notes[i].kind = "matching" /\ log <= notes[i].log

\* What is said to match does.
HeldOK ==
  /\ entry.matching <= follower.match /\ task.remote <= follower.match
  /\ \A i \in 1..Len(notes) : notes[i].kind = "matching" => notes[i].log <= follower.match
  /\ task.pc = "answered" /\ task.answer.kind = "matching" => task.answer.log <= follower.match
  /\ snapper.pc = "answered" /\ snapper.answer = "matching" => snapper.log <= follower.match
  /\ hb.pc # "idle" => hb.matching <= follower.match

\* A refused request starts after everything that is known to match.
RefusedOK ==
  /\ hb.pc = "answered" => hb.answer # "conflict"
  /\ task.pc = "answered" /\ task.answer.kind = "conflict" =>
       /\ task.id # 0
       /\ core = "run" => /\ entry.matching < task.answer.log
                          /\ \A i \in 1..Len(notes) : Mine(notes[i]) => notes[i].log < task.answer.log
  /\ core # "gone" =>
       \A j \in 1..Len(notes) : notes[j].session = session /\ notes[j].kind = "conflict" =>
       /\ notes[j].id # 0 /\ entry.matching < notes[j].log
       /\ \A i \in 1..(j - 1) : Mine(notes[i]) => notes[i].log < notes[j].log

\* What is in flight starts at or after what is known to match.
ProgressOK ==
  /\ entry.matching <= entry.searchingEnd
  /\ core = "run" =>
       /\ entry.inflight.kind = "logs" => entry.matching <= entry.inflight.prev
       /\ entry.inflight.kind = "snapshot" =>
            /\ snapper.pc # "idle" => entry.matching <= snapper.log
            /\ \A i \in 1..Len(notes) : Mine(notes[i]) => entry.matching <= notes[i].log
       /\ Told(task.remote, Len(notes))
       /\ \A i \in 1..Len(notes) :
            notes[i].session = session /\ notes[i].id = 0 /\ notes[i].kind = "matching" =>
              Told(notes[i].log, i - 1)

KnownInv == ~ follower.wiped => HeldOK /\ RefusedOK /\ ProgressOK /\ ~ panic

RepInv == FlowInv /\ KnownInv
----------------------------------------------------------------------------
(* Sequences of notifications and sets of requests.                        *)

NoteSet == [kind : {"matching", "conflict", "error", "higher"}, log : Nat, id : Nat, session : Nat]

\* A notification is queued.
LEMMA Queued ==
  ASSUME NotesOK, NEW n \in NoteSet, notes' = Append(notes, n)
  PROVE  /\ notes' \in Seq(NoteSet) /\ Len(notes) \in Nat /\ Len(notes') = Len(notes) + 1
         /\ notes'[Len(notes) + 1] = n
         /\ \A i \in 1..Len(notes) : notes'[i] = notes[i]
  BY DEF NotesOK, NoteSet

\* The first notification is taken.
LEMMA Taken ==
  ASSUME NotesOK, notes # <<>>, notes' = Tail(notes)
  PROVE  /\ notes' \in Seq(NoteSet) /\ Len(notes) \in Nat \ {0} /\ Len(notes') = Len(notes) - 1
         /\ Head(notes) = notes[1] /\ Head(notes) \in NoteSet
         /\ \A i \in 1..Len(notes') : notes'[i] = notes[i + 1]
<1>1. notes \in Seq(NoteSet)
  BY DEF NotesOK, NoteSet
<1> QED BY <1>1

\* Requests nobody waits for any more.
LEMMA Lately ==
  ASSUME WireOK, NEW kinds, NEW kind
  PROVE  /\ {r \in Late(wire, kinds) : r.kind = kind /\ r.live} = IF kind \in kinds THEN {} ELSE Live(kind)
         /\ \A r \in Late(wire, kinds) : \E s \in wire : r \in {s, [s EXCEPT !.live = FALSE]}
<1>1. \A r \in Late(wire, kinds) : \E s \in wire :
        r = IF s.kind \in kinds THEN [s EXCEPT !.live = FALSE] ELSE s
  BY DEF Late
<1>2. \A s \in wire : s.kind \notin kinds => s \in Late(wire, kinds)
  BY DEF Late
<1>3. \A s \in wire : [s EXCEPT !.live = FALSE].kind = s.kind /\ ~ [s EXCEPT !.live = FALSE].live
  BY DEF WireOK
<1> QED BY <1>1, <1>2, <1>3 DEF Live

\* The wire after a sender gave up.
LEMMA LatelyOK ==
  ASSUME WireOK, NEW kinds
  PROVE  Late(wire, kinds) \subseteq {r \in [kind : {"append", "heartbeat", "snapshot"}, prev : Nat, last : Nat,
                                             commit : Nat, live : BOOLEAN] :
                                        /\ r.prev <= r.last /\ r.last <= lead.last
                                        /\ r.kind # "append" => r.prev = r.last}
  BY DEF Late, WireOK

\* calc_mid goes forward from the last entry known to match.
LEMMA Mid ==
  ASSUME NEW from \in Int, NEW end \in Int
  PROVE  CalcMid(from, end) \in Int /\ (from <= end => from <= CalcMid(from, end))
<1> DEFINE q == (end - from) \div Stride
           h == Stride \div 2
<1>1. Stride \in Nat \ {0}
  BY ReplicationAssumption
<1>2. q \in Int /\ (from <= end => q >= 0)
  BY <1>1
<1>3. h \in Nat
  BY <1>1
<1> HIDE DEF q, h
<1>4. q * h \in Int /\ (q >= 0 => q * h >= 0)
  BY <1>2, <1>3
<1>5. CalcMid(from, end) = from + q * h
  BY DEF CalcMid, q, h
<1> QED BY <1>2, <1>4, <1>5
----------------------------------------------------------------------------
(* What does not change.                                                   *)

\* The types as the log and the sessions grow.
LEMMA TypesLast ==
  ASSUME Types, LeadOK', lead.last <= lead'.last, session' \in Nat, session <= session'
  PROVE  /\ UNCHANGED entry => EntryOK'
         /\ UNCHANGED follower => FollowerOK'
         /\ UNCHANGED task => TaskTypeOK'
         /\ UNCHANGED chan => ChanOK'
         /\ UNCHANGED hb => HeartbeatOK'
         /\ UNCHANGED snapper => SnapperOK'
         /\ UNCHANGED wire => WireOK'
         /\ UNCHANGED notes => NotesOK'
         /\ Inflights \subseteq Inflights' /\ Index \subseteq Index'
<1>1. lead.last \in Nat /\ lead'.last \in Nat /\ session \in Nat
  BY DEF Types, LeadOK
<1>2. Inflights \subseteq Inflights' /\ Index \subseteq Index'
  BY <1>1 DEF Inflights, Index, NoInflight
<1>3. UNCHANGED entry => EntryOK'
  BY <1>1, <1>2 DEF Types, EntryOK
<1>4. UNCHANGED follower => FollowerOK'
  BY DEF Types, FollowerOK
<1>5. UNCHANGED task => TaskTypeOK'
  BY <1>1, <1>2 DEF Types, TaskTypeOK
<1>6. UNCHANGED chan => ChanOK'
  BY <1>2 DEF Types, ChanOK
<1>7. UNCHANGED hb => HeartbeatOK'
  BY <1>1, <1>2 DEF Types, HeartbeatOK
<1>8. UNCHANGED snapper => SnapperOK'
  BY <1>1, <1>2 DEF Types, SnapperOK
<1>9. UNCHANGED wire => WireOK'
  BY <1>1 DEF Types, WireOK
<1>10. UNCHANGED notes => NotesOK'
  <2> SUFFICES ASSUME UNCHANGED notes PROVE NotesOK'
    OBVIOUS
  <2>1. notes' \in Seq(NoteSet) /\ Len(notes') = Len(notes) /\ NotesOK
    BY DEF Types, NotesOK, NoteSet
  <2>2. \A i \in 1..Len(notes) : /\ notes[i].log \in Index' /\ notes[i].session <= session
                                 /\ notes[i].kind = "error" => notes[i].id # 0
    BY <2>1, <1>2 DEF NotesOK
  <2>3. \A i \in 1..Len(notes) : notes[i] \in NoteSet
    BY <2>1
  <2>4. \A i \in 1..Len(notes) : notes[i].session <= session'
    BY <2>2, <2>3, <1>1 DEF NoteSet
  <2> QED BY <2>1, <2>2, <2>4 DEF NotesOK, NoteSet
<1> QED BY <1>2, <1>3, <1>4, <1>5, <1>6, <1>7, <1>8, <1>9, <1>10

\* The task where it does not move.
LEMMA TaskLasts ==
  ASSUME TaskOK, UNCHANGED task, Live("append")' = Live("append"),
         task.id # 0 => Reach(lead'.purged)
  PROVE  TaskOK' /\ \A x : Reach(x) => Reach(x)'
<1>1. \A x : Reach(x) => Reach(x)'
  BY DEF Reach
<1>2. task.id # 0 => Reach(lead.purged)'
  BY <1>1
<1>3. \A x : RestAfter(x)' <=> RestAfter(x)
  BY DEF RestAfter
<1> QED BY <1>1, <1>2, <1>3 DEF TaskOK

\* What try_purge_log does.
LEMMA Purged ==
  ASSUME NEW l, NEW e,
         l \in [last : Nat, committed : Nat, snap : Nat, purgeUpto : Nat, purged : Nat],
         l.purged <= l.purgeUpto, l.purgeUpto <= l.snap, l.snap <= l.committed, l.committed <= l.last,
         e.inflight \in Inflights
  PROVE  LET m == TryPurgeLog(l, e)
         IN /\ m \in [last : Nat, committed : Nat, snap : Nat, purgeUpto : Nat, purged : Nat]
            /\ m.last = l.last /\ m.committed = l.committed /\ m.snap = l.snap
            /\ m.purgeUpto = l.purgeUpto /\ m.purged <= m.purgeUpto /\ l.purged <= m.purged
            /\ e.inflight.kind = "logs" /\ l.purged <= e.inflight.prev => m.purged <= e.inflight.prev
<1>1. e.inflight.kind = "logs" => e.inflight.prev \in Nat
  BY DEF Inflights, NoInflight
<1> QED BY <1>1 DEF TryPurgeLog, IsLogRangeInflight

\* What is at or after a is at or after all before a.
LEMMA ReachDown ==
  ASSUME Types, NEW a \in Nat, NEW b \in Nat, b <= a, Reach(a)
  PROVE  Reach(b)
<1>1. task.rest.prev \in Nat /\ task.answer.log \in Nat /\ \A r \in wire : r.prev \in Nat
  BY DEF Types, TaskTypeOK, WireOK
<1> QED BY <1>1 DEF Reach, Live

\* What a notification is made of.
LEMMA NoteTypes ==
  ASSUME NotesOK
  PROVE  /\ notes \in Seq(NoteSet) /\ Len(notes) \in Nat
         /\ \A i \in 1..Len(notes) :
              /\ notes[i] \in NoteSet /\ notes[i].session \in Nat /\ notes[i].log \in Nat
              /\ notes[i].id \in Nat /\ notes[i].kind \in {"matching", "conflict", "error", "higher"}
<1>1. notes \in Seq(NoteSet)
  BY DEF NotesOK, NoteSet
<1>2. \A n \in NoteSet : /\ n.session \in Nat /\ n.log \in Nat /\ n.id \in Nat
                         /\ n.kind \in {"matching", "conflict", "error", "higher"}
  BY DEF NoteSet
<1>3. \A i \in 1..Len(notes) : notes[i] \in NoteSet
  BY <1>1
<1> QED BY <1>1, <1>2, <1>3

\* Where nothing that carries the range in flight moves.
LEMMA FlightMoves ==
  ASSUME Types, FlightOK, UNCHANGED session, chan'.data = chan.data, task'.id = task.id,
         task.id # 0 => task'.last = task.last /\ \A x \in Nat : Reach(x) => Reach(x)',
         snapper'.pc = "idle" <=> snapper.pc = "idle",
         snapper'.pc # "idle" => snapper'.id = snapper.id /\ snapper'.session = snapper.session,
         \A i \in 1..Len(notes') : Mine(notes'[i]) => i \in 1..Len(notes) /\ notes'[i] = notes[i],
         entry'.inflight = entry.inflight,
         entry.inflight.kind = "logs" => entry.inflight.prev >= lead'.purged
  PROVE  FlightOK'
<1>1. task.id # 0 => \A x \in Nat : Reach(x) => Reach(x)'
  OBVIOUS
<1>a. entry.inflight.kind = "logs" => entry.inflight.prev \in Nat
  BY DEF Types, EntryOK, Inflights, NoInflight
<1>b. \A i \in 1..Len(notes) : notes[i].log \in Nat
  BY NoteTypes DEF Types
<1>2. \A n : Mine(n) <=> Mine(n)'
  BY DEF Mine
<1>3. \A x : Reports(x) => Reports(x)'
  BY <1>2 DEF Reports
<1>4. NoneMine => NoneMine'
  BY <1>2 DEF NoneMine
<1>5. entry.inflight.kind = "none" => FlightOK'
  BY <1>4 DEF FlightOK, NoInflight
<1>6. entry.inflight.kind = "logs" => FlightOK'
  <2> SUFFICES ASSUME entry.inflight.kind = "logs" PROVE FlightOK'
    OBVIOUS
  <2>1. task'.id # 0 => Reach(entry.inflight.prev)'
    <3>1. PICK p \in Nat : p = entry.inflight.prev
      BY <1>a
    <3>2. task'.id # 0 => Reach(p)'
      BY <3>1, <1>1 DEF FlightOK
    <3> QED BY <3>1, <3>2 DEF Reach
  <2>2. task'.id # 0 => \A i \in 1..Len(notes') : Mine(notes'[i]) =>
                           notes'[i].kind = "matching" /\ notes'[i].log < entry.inflight.last /\ Reach(notes[i].log)'
    BY <1>1, <1>b DEF FlightOK, Reach
  <2> QED BY <2>1, <2>2, <1>2, <1>3, <1>4 DEF FlightOK, NoInflight
<1>7. entry.inflight.kind = "snapshot" => FlightOK'
  BY <1>2 DEF FlightOK, NoInflight
<1> QED BY <1>5, <1>6, <1>7 DEF FlightOK

\* What is in flight stays where it is when nothing that carries it moves.
LEMMA FlightLasts ==
  ASSUME Types, FlightOK, UNCHANGED <<task, session>>, chan'.data = chan.data,
         snapper'.pc = "idle" <=> snapper.pc = "idle",
         snapper'.pc # "idle" => snapper'.id = snapper.id /\ snapper'.session = snapper.session,
         \A i \in 1..Len(notes') : Mine(notes'[i]) => i \in 1..Len(notes) /\ notes'[i] = notes[i],
         entry'.inflight = entry.inflight, Live("append")' = Live("append"),
         entry.inflight.kind = "logs" => entry.inflight.prev >= lead'.purged
  PROVE  FlightOK'
<1>1. \A x \in Nat : Reach(x) => Reach(x)'
  BY DEF Reach
<1> QED BY <1>1, FlightMoves

\* A purge leaves what is in flight, and what the task still sends.
LEMMA PurgeKeeps ==
  ASSUME FlowInv, core = "run", NEW p \in Nat,
         entry.inflight.kind = "logs" => p <= entry.inflight.prev
  PROVE  task.id # 0 => Reach(p)
<1>1. task.id # 0 => entry.inflight.kind = "logs" /\ Reach(entry.inflight.prev)
  <2>1. entry.inflight \in Inflights /\ FlightOK
    BY DEF FlowInv, RunOK, Types, EntryOK
  <2>2. entry.inflight.kind \in {"none", "logs", "snapshot"}
    BY <2>1 DEF Inflights, NoInflight
  <2> QED BY <2>1, <2>2 DEF FlightOK
<1>2. entry.inflight.kind = "logs" => entry.inflight.prev \in Nat
  BY DEF FlowInv, Types, EntryOK, Inflights, NoInflight
<1> QED BY <1>1, <1>2, ReachDown DEF FlowInv
----------------------------------------------------------------------------
(* Every step keeps what is in flight where the invariant says it is.      *)

\* Writes, commits, snapshots and purges of the leader, and what happens to the
\* follower by itself: none touches what is in flight.
LEMMA EngineFlows ==
  ASSUME FlowInv,
         \/ WriteEntry \/ Commit \/ BuildSnapshot \/ TriggerPurgeLog \/ AllowNextRevert
         \/ FollowerVotes \/ Wipe
  PROVE  FlowInv'
<1> USE DEF Spend
<1>1. /\ UNCHANGED <<nextId, core, session, task, hb, snapper, wire, notes>>
      /\ core # "gone"
  BY DEF WriteEntry, Commit, BuildSnapshot, TriggerPurgeLog, AllowNextRevert, FollowerVotes, Wipe
<1>2. Types
  BY DEF FlowInv
<1>3. /\ LeadOK' /\ lead.last <= lead'.last /\ lead.snap <= lead'.snap
      /\ \/ lead'.purged = lead.purged
         \/ /\ core = "run"
            /\ entry.inflight.kind = "logs" => lead'.purged <= entry.inflight.prev
  <2>1. CASE WriteEntry
    BY <2>1, <1>2 DEF WriteEntry, Types, LeadOK
  <2>2. CASE Commit
    BY <2>2, <1>2 DEF Commit, Types, LeadOK
  <2>3. CASE BuildSnapshot
    BY <2>3, <1>2 DEF BuildSnapshot, Types, LeadOK
  <2>4. CASE TriggerPurgeLog
    <3> DEFINE l == [lead EXCEPT !.purgeUpto = lead.snap]
    <3>1. /\ l \in [last : Nat, committed : Nat, snap : Nat, purgeUpto : Nat, purged : Nat]
          /\ l.purged = lead.purged /\ l.last = lead.last /\ l.committed = lead.committed
          /\ l.snap = lead.snap /\ l.purgeUpto = lead.snap
          /\ l.purged <= l.purgeUpto /\ l.purgeUpto <= l.snap /\ l.snap <= l.committed
          /\ l.committed <= l.last
      BY <1>2 DEF Types, LeadOK
    <3>2. entry.inflight \in Inflights /\ (entry.inflight.kind = "logs" => lead.purged <= entry.inflight.prev)
      <4>1. core = "run" /\ FlightOK
        BY <2>4 DEF TriggerPurgeLog, FlowInv, RunOK
      <4>2. entry.inflight.kind = "logs" => entry.inflight.prev >= lead.purged
        BY <4>1 DEF FlightOK
      <4>3. entry.inflight \in Inflights /\ lead.purged \in Nat
        BY <1>2 DEF Types, EntryOK, LeadOK
      <4>4. entry.inflight.kind = "logs" => entry.inflight.prev \in Nat
        BY <4>3 DEF Inflights, NoInflight
      <4> QED BY <4>2, <4>3, <4>4
    <3>3. lead' = TryPurgeLog(l, entry) /\ core = "run"
      BY <2>4 DEF TriggerPurgeLog
    <3> HIDE DEF l
    <3> QED BY <3>1, <3>2, <3>3, Purged, <1>2 DEF LeadOK, Types
  <2>5. CASE AllowNextRevert \/ FollowerVotes \/ Wipe
    BY <2>5, <1>2 DEF AllowNextRevert, FollowerVotes, Wipe, Types, LeadOK
  <2> QED BY <2>1, <2>2, <2>3, <2>4, <2>5
<1>4. entry'.inflight = entry.inflight /\ EntryOK'
  <2>1. CASE AllowNextRevert
    BY <2>1, <1>2 DEF AllowNextRevert, Types, EntryOK, LeadOK, Inflights, Index
  <2>2. CASE ~ AllowNextRevert
    <3>1. UNCHANGED entry
      BY <2>2 DEF WriteEntry, Commit, BuildSnapshot, TriggerPurgeLog, FollowerVotes, Wipe
    <3> QED BY <3>1, <1>1, <1>2, <1>3, TypesLast DEF Types
  <2> QED BY <2>1, <2>2
<1>5. FollowerOK'
  <2>1. FollowerOK
    BY <1>2 DEF Types
  <2>2. \/ UNCHANGED follower
        \/ follower' = [follower EXCEPT !.higher = TRUE]
        \/ follower' = [follower EXCEPT !.match = 0, !.last = 0, !.committed = 0, !.wiped = TRUE]
    BY DEF WriteEntry, Commit, BuildSnapshot, TriggerPurgeLog, AllowNextRevert, FollowerVotes, Wipe
  <2>3. follower' = [follower EXCEPT !.higher = TRUE] => FollowerOK'
    BY <2>1 DEF FollowerOK
  <2>4. follower' = [follower EXCEPT !.match = 0, !.last = 0, !.committed = 0, !.wiped = TRUE] => FollowerOK'
    <3> SUFFICES ASSUME follower' = [follower EXCEPT !.match = 0, !.last = 0, !.committed = 0, !.wiped = TRUE]
                 PROVE  FollowerOK'
      OBVIOUS
    <3>1. follower' \in [match : Nat, last : Nat, committed : Nat, higher : BOOLEAN, wiped : BOOLEAN]
      BY <2>1 DEF FollowerOK
    <3>2. follower'.match = 0 /\ follower'.last = 0 /\ follower'.committed = 0
      BY <2>1 DEF FollowerOK
    <3> QED BY <3>1, <3>2 DEF FollowerOK
  <2> QED BY <2>1, <2>2, <2>3, <2>4 DEF FollowerOK
<1>6. chan'.data = chan.data /\ ChanOK'
  <2>1. chan' = chan \/ chan' = [chan EXCEPT !.news = TRUE]
    BY DEF WriteEntry, Commit, BuildSnapshot, TriggerPurgeLog, AllowNextRevert, FollowerVotes, Wipe
  <2>2. Inflights \subseteq Inflights'
    BY <1>1, <1>2, <1>3, TypesLast DEF Types
  <2> QED BY <2>1, <2>2, <1>2 DEF Types, ChanOK
<1>7. Types'
  <2>1. TaskTypeOK' /\ HeartbeatOK' /\ SnapperOK' /\ WireOK' /\ NotesOK'
    BY <1>1, <1>2, <1>3, TypesLast DEF Types
  <2> QED BY <2>1, <1>1, <1>2, <1>3, <1>4, <1>5, <1>6 DEF Types
<1>8. \A kind : Live(kind)' = Live(kind)
  BY <1>1 DEF Live
<1>9. task.id # 0 => Reach(lead'.purged)
  <2>1. lead'.purged \in Nat /\ lead'.purged = lead.purged => (task.id # 0 => Reach(lead'.purged))
    BY DEF FlowInv, TaskOK
  <2> QED BY <2>1, <1>3, PurgeKeeps DEF LeadOK
<1>10. TaskOK'
  BY <1>1, <1>8, <1>9, TaskLasts DEF FlowInv
<1>11. HbOK' /\ SnapOK'
  BY <1>1, <1>8, <1>2, <1>3, <1>7 DEF FlowInv, HbOK, SnapOK, Types, LeadOK, SnapperOK
<1>12. core = "run" => RunOK'
  <2> SUFFICES ASSUME core = "run" PROVE RunOK'
    OBVIOUS
  <2>1. entry.inflight.kind = "logs" => entry.inflight.prev >= lead'.purged
    <3>1. entry.inflight.kind = "logs" => entry.inflight.prev \in Nat
      BY <1>2 DEF Types, EntryOK, Inflights, NoInflight
    <3>2. lead'.purged \in Nat /\ FlightOK
      BY <1>3 DEF LeadOK, FlowInv, RunOK
    <3> QED BY <3>1, <3>2, <1>3 DEF FlightOK
  <2> QED BY <2>1, <1>1, <1>4, <1>6, <1>8, FlightLasts DEF FlowInv, RunOK
<1>13. core = "join" => JoinOK'
  BY <1>1, <1>4 DEF FlowInv, JoinOK
<1> QED BY <1>1, <1>7, <1>10, <1>11, <1>12, <1>13 DEF FlowInv

\* Requests and notifications of others leave those in flight alone.
LEMMA OthersQueued ==
  ASSUME NotesOK, UNCHANGED session,
         notes' = notes \/ \E n \in NoteSet : ~ Mine(n) /\ notes' = Append(notes, n)
  PROVE  \A i \in 1..Len(notes') : Mine(notes'[i]) => i \in 1..Len(notes) /\ notes'[i] = notes[i]
<1>1. CASE notes' = notes
  BY <1>1
<1>2. ASSUME NEW n \in NoteSet, ~ Mine(n), notes' = Append(notes, n)
      PROVE  \A i \in 1..Len(notes') : Mine(notes'[i]) => i \in 1..Len(notes) /\ notes'[i] = notes[i]
  BY <1>2, Queued
<1> QED BY <1>1, <1>2

\* A request is put on the wire.
LEMMA Sent ==
  ASSUME NEW r, r.live, wire' = wire \cup {r}, NEW kind
  PROVE  Live(kind)' = Live(kind) \cup IF r.kind = kind THEN {r} ELSE {}
  BY DEF Live

\* A notification of the present kinds.
LEMMA NoteQueued ==
  ASSUME Types, UNCHANGED <<lead, session>>, NEW n \in NoteSet,
         n.log \in Index, n.session <= session, n.kind = "error" => n.id # 0, notes' = Append(notes, n)
  PROVE  NotesOK'
<1>1. /\ notes' \in Seq(NoteSet) /\ Len(notes) \in Nat /\ Len(notes') = Len(notes) + 1
      /\ notes'[Len(notes) + 1] = n
      /\ \A i \in 1..Len(notes) : notes'[i] = notes[i]
  BY Queued DEF Types
<1>2. ASSUME NEW i \in 1..Len(notes')
      PROVE  /\ notes'[i].log \in Index /\ notes'[i].session <= session
             /\ notes'[i].kind = "error" => notes'[i].id # 0
  <2>1. CASE i = Len(notes) + 1
    BY <2>1, <1>1
  <2>2. CASE i # Len(notes) + 1
    <3>1. i \in 1..Len(notes)
      BY <2>2, <1>1
    <3> QED BY <3>1, <1>1 DEF Types, NotesOK
  <2> QED BY <2>1, <2>2
<1> QED BY <1>1, <1>2 DEF NotesOK, NoteSet, Index

\* The heartbeat worker: its notifications have no inflight id.
LEMMA BeatFlows ==
  ASSUME FlowInv, BroadcastHeartbeat \/ HeartbeatDone \/ HeartbeatTimeout
  PROVE  FlowInv'
<1> USE DEF Spend
<1>1. /\ UNCHANGED <<lead, entry, nextId, core, session, chan, task, snapper, follower>>
      /\ core # "gone" /\ Types
  BY DEF BroadcastHeartbeat, HeartbeatDone, HeartbeatTimeout, FlowInv
<1>2. /\ entry.matching \in Index /\ lead.last \in Nat /\ session \in Nat /\ lead.committed \in Nat
      /\ entry.matching \in Nat /\ hb.matching \in Nat /\ hb.matching \in Index /\ hb.session \in Nat
      /\ hb.session <= session
  BY <1>1 DEF Types, EntryOK, LeadOK, HeartbeatOK
<1>3. HeartbeatOK'
  <2>1. HeartbeatOK
    BY <1>1 DEF Types
  <2>2. CASE BroadcastHeartbeat
    <3>1. /\ hb' \in [pc : {"idle", "wait", "answered"}, matching : Nat, session : Nat,
                      answer : {"none", "matching", "conflict", "higher"}]
          /\ hb'.matching = entry.matching /\ hb'.session = session
      BY <2>1, <2>2, <1>2 DEF BroadcastHeartbeat, HeartbeatOK
    <3> QED BY <3>1, <1>1, <1>2 DEF HeartbeatOK, Index
  <2>3. CASE ~ BroadcastHeartbeat
    <3>1. hb' = IdleHeartbeat
      BY <2>3 DEF HeartbeatDone, HeartbeatTimeout
    <3> QED BY <3>1, <1>1, <1>2 DEF HeartbeatOK, IdleHeartbeat, Index
  <2> QED BY <2>2, <2>3
<1>4. WireOK'
  <2>1. CASE BroadcastHeartbeat
    <3>1. wire' = wire \cup {HeartbeatRequest(entry.matching)}
      BY <2>1 DEF BroadcastHeartbeat
    <3>2. /\ HeartbeatRequest(entry.matching) \in
               [kind : {"append", "heartbeat", "snapshot"}, prev : Nat, last : Nat, commit : Nat, live : BOOLEAN]
          /\ HeartbeatRequest(entry.matching).prev = entry.matching
          /\ HeartbeatRequest(entry.matching).last = entry.matching
      BY <1>2 DEF HeartbeatRequest
    <3>3. WireOK /\ entry.matching <= lead.last
      BY <1>1, <1>2 DEF Types, Index
    <3> QED BY <3>1, <3>2, <3>3, <1>1, <1>2 DEF WireOK
  <2>2. CASE HeartbeatDone
    BY <2>2, <1>1 DEF HeartbeatDone, Types, WireOK
  <2>3. CASE HeartbeatTimeout
    BY <2>3, <1>1, LatelyOK DEF HeartbeatTimeout, Types, WireOK
  <2> QED BY <2>1, <2>2, <2>3
<1>5. /\ NotesOK'
      /\ notes' = notes \/ \E n \in NoteSet : ~ Mine(n) /\ notes' = Append(notes, n)
      /\ core = "join" => notes' = notes
  <2>1. CASE UNCHANGED notes
    <3>1. NotesOK'
      BY <2>1, <1>1, <1>2, TypesLast DEF Types, LeadOK
    <3> QED BY <2>1, <3>1
  <2>2. CASE HeartbeatDone /\ hb.answer # "matching"
    <3> DEFINE n == Note(hb.answer, hb.matching, 0, hb.session)
    <3>1. notes' = Append(notes, n) /\ hb.pc = "answered"
      BY <2>2 DEF HeartbeatDone
    <3>2. hb.answer \in {"conflict", "higher"}
      BY <2>2, <3>1, <1>1 DEF FlowInv, HbOK, Types, HeartbeatOK
    <3>3. n \in NoteSet /\ n.log = hb.matching /\ n.session = hb.session /\ n.id = 0 /\ n.kind # "error"
      BY <3>2, <1>2 DEF Note, NoteSet
    <3>4. core # "join"
      BY <3>1 DEF FlowInv, JoinOK
    <3>5. ~ Mine(n)
      BY <3>3 DEF Mine
    <3> HIDE DEF n
    <3> QED BY <3>1, <3>3, <3>4, <3>5, <1>1, <1>2, NoteQueued
  <2> QED BY <2>1, <2>2 DEF BroadcastHeartbeat, HeartbeatDone, HeartbeatTimeout
<1>6. \A kind : kind # "heartbeat" => Live(kind)' = Live(kind)
  <2>1. CASE BroadcastHeartbeat
    <3> DEFINE r == HeartbeatRequest(entry.matching)
    <3>1. wire' = wire \cup {r} /\ r.live /\ r.kind = "heartbeat"
      BY <2>1 DEF BroadcastHeartbeat, HeartbeatRequest
    <3> HIDE DEF r
    <3>2. ASSUME NEW kind, kind # "heartbeat" PROVE Live(kind)' = Live(kind)
      <4>1. Live(kind)' = Live(kind) \cup IF r.kind = kind THEN {r} ELSE {}
        BY <3>1, Sent
      <4> QED BY <4>1, <3>1, <3>2
    <3> QED BY <3>2
  <2>2. CASE HeartbeatDone
    BY <2>2 DEF HeartbeatDone, Live
  <2>3. CASE HeartbeatTimeout
    <3>1. wire' = Late(wire, {"heartbeat"}) /\ WireOK
      BY <2>3, <1>1 DEF HeartbeatTimeout, Types
    <3>2. ASSUME NEW kind, kind # "heartbeat"
          PROVE  {r \in Late(wire, {"heartbeat"}) : r.kind = kind /\ r.live} = Live(kind)
      BY <3>1, <3>2, Lately
    <3> QED BY <3>1, <3>2 DEF Live
  <2> QED BY <2>1, <2>2, <2>3
<1>7. HbOK'
  <2>1. CASE BroadcastHeartbeat
    <3> DEFINE r == HeartbeatRequest(entry.matching)
    <3>1. wire' = wire \cup {r} /\ r.live /\ r.kind = "heartbeat" /\ r.prev = entry.matching
      BY <2>1 DEF BroadcastHeartbeat, HeartbeatRequest
    <3>2. hb'.pc = "wait" /\ hb'.matching = entry.matching /\ hb.pc = "idle"
      BY <2>1, <1>1 DEF BroadcastHeartbeat, Types, HeartbeatOK
    <3>3. Live("heartbeat") = {}
      BY <3>2 DEF FlowInv, HbOK
    <3> HIDE DEF r
    <3>4. Live("heartbeat")' = {r}
      BY <3>1, <3>3, Sent
    <3> QED BY <3>1, <3>2, <3>4 DEF HbOK
  <2>2. CASE HeartbeatDone
    <3>1. Live("heartbeat") = {} /\ Live("heartbeat")' = Live("heartbeat")
      BY <2>2 DEF HeartbeatDone, FlowInv, HbOK, Live
    <3> QED BY <2>2, <3>1 DEF HeartbeatDone, HbOK, IdleHeartbeat
  <2>3. CASE HeartbeatTimeout
    <3>1. wire' = Late(wire, {"heartbeat"}) /\ WireOK
      BY <2>3, <1>1 DEF HeartbeatTimeout, Types
    <3>2. {r \in Late(wire, {"heartbeat"}) : r.kind = "heartbeat" /\ r.live} = {}
      BY <3>1, Lately
    <3>3. Live("heartbeat")' = {}
      BY <3>1, <3>2 DEF Live
    <3> QED BY <2>3, <3>3 DEF HeartbeatTimeout, HbOK, IdleHeartbeat
  <2> QED BY <2>1, <2>2, <2>3
<1>8. SnapOK'
  BY <1>1, <1>6 DEF FlowInv, SnapOK
<1>9. TaskOK'
  BY <1>1, <1>6, TaskLasts DEF FlowInv, TaskOK
<1>10. Types'
  <2>1. EntryOK' /\ FollowerOK' /\ TaskTypeOK' /\ ChanOK' /\ SnapperOK' /\ LeadOK'
    BY <1>1, <1>2, TypesLast DEF Types, LeadOK
  <2> QED BY <2>1, <1>1, <1>3, <1>4, <1>5 DEF Types
<1>11. core = "run" => RunOK'
  <2> SUFFICES ASSUME core = "run" PROVE RunOK'
    OBVIOUS
  <2>1. RunOK
    BY DEF FlowInv
  <2>2. entry.inflight.kind = "logs" => entry.inflight.prev >= lead'.purged
    BY <1>1, <2>1 DEF RunOK, FlightOK
  <2>3. \A i \in 1..Len(notes') : Mine(notes'[i]) => i \in 1..Len(notes) /\ notes'[i] = notes[i]
    BY <1>1, <1>5, OthersQueued DEF Types
  <2>4. FlightOK'
    BY <2>1, <2>2, <2>3, <1>1, <1>6, FlightLasts DEF RunOK
  <2> QED BY <2>1, <2>4, <1>1 DEF RunOK
<1>12. core = "join" => JoinOK'
  <2>1. core = "join" => hb.pc = "idle"
    BY DEF FlowInv, JoinOK
  <2> QED BY <2>1, <1>1, <1>5 DEF FlowInv, JoinOK, BroadcastHeartbeat, HeartbeatDone, HeartbeatTimeout
<1> QED BY <1>1, <1>7, <1>8, <1>9, <1>10, <1>11, <1>12 DEF FlowInv

\* The transmitter: it reports once, and is idle then.
LEMMA SnapshotFlows ==
  ASSUME FlowInv, SnapshotSent \/ SnapshotRetry
  PROVE  FlowInv'
<1> USE DEF Spend
<1>1. /\ UNCHANGED <<lead, entry, nextId, core, session, chan, task, hb, follower>>
      /\ core = "run" /\ Types /\ RunOK /\ snapper.pc # "idle"
  BY DEF SnapshotSent, SnapshotRetry, FlowInv, JoinOK, Types
<1>2. /\ lead.last \in Nat /\ session \in Nat /\ lead.snap \in Nat /\ lead.snap \in Index
      /\ snapper.log \in Nat /\ snapper.log \in Index /\ snapper.id \in Nat /\ snapper.session \in Nat
      /\ snapper.session <= session
  BY <1>1 DEF Types, LeadOK, SnapperOK, Index
<1>3. entry.inflight.kind = "snapshot" /\ snapper.id = entry.inflight.id /\ snapper.session = session
      /\ snapper.id # 0 /\ NoneMine /\ chan.data = NoInflight /\ task.id = 0
  <2>1. entry.inflight.kind \in {"none", "logs", "snapshot"} /\ FlightOK
    BY <1>1 DEF Types, EntryOK, Inflights, NoInflight, RunOK
  <2> QED BY <2>1, <1>1 DEF FlightOK, NoneMine
<1>4. SnapperOK'
  <2>1. SnapperOK
    BY <1>1 DEF Types
  <2>2. CASE SnapshotSent
    BY <2>2, <1>1, <1>2 DEF SnapshotSent, SnapperOK, IdleTransmitter, Index
  <2>3. CASE SnapshotRetry
    <3>1. /\ snapper' \in [pc : {"idle", "wait", "answered"}, id : Nat, log : Nat, session : Nat,
                           answer : {"none", "matching", "conflict", "higher"}]
          /\ snapper'.log = lead.snap /\ snapper'.session = snapper.session
      BY <2>1, <2>3, <1>2 DEF SnapshotRetry, SnapperOK
    <3> QED BY <3>1, <1>1, <1>2 DEF SnapperOK, Index
  <2> QED BY <2>2, <2>3
<1>5. /\ SnapshotRequest(lead.snap) \in
           [kind : {"append", "heartbeat", "snapshot"}, prev : Nat, last : Nat, commit : Nat, live : BOOLEAN]
      /\ SnapshotRequest(lead.snap).prev = lead.snap /\ SnapshotRequest(lead.snap).last = lead.snap
      /\ SnapshotRequest(lead.snap).live /\ SnapshotRequest(lead.snap).kind = "snapshot"
  BY <1>2 DEF SnapshotRequest
<1>6. WireOK'
  <2>1. CASE SnapshotSent
    BY <2>1, <1>1 DEF SnapshotSent, Types, WireOK
  <2>2. CASE SnapshotRetry
    <3>1. wire' = Late(wire, {"snapshot"}) \cup {SnapshotRequest(lead.snap)} /\ WireOK
      BY <2>2, <1>1 DEF SnapshotRetry, Types
    <3>2. lead.snap <= lead.last
      BY <1>2 DEF Index
    <3> QED BY <3>1, <3>2, <1>1, <1>2, <1>5, LatelyOK DEF WireOK
  <2> QED BY <2>1, <2>2
<1>7. ASSUME SnapshotSent
      PROVE  \E n \in NoteSet : /\ notes' = Append(notes, n) /\ n.log \in Index /\ n.session <= session
                                /\ n.kind # "error"
                                /\ Mine(n) => n.id = snapper.id /\ n.kind = "matching"
  <2> DEFINE n == IF snapper.answer = "higher" THEN Note("higher", 0, 0, snapper.session)
                  ELSE Note("matching", snapper.log, snapper.id, snapper.session)
  <2>1. notes' = Append(notes, n)
    BY <1>7 DEF SnapshotSent
  <2>2. CASE snapper.answer = "higher"
    BY <2>1, <2>2, <1>2 DEF Note, NoteSet, Mine, Index
  <2>3. CASE snapper.answer # "higher"
    BY <2>1, <2>3, <1>2 DEF Note, NoteSet, Mine, Index
  <2> QED BY <2>2, <2>3
<1>8. NotesOK'
  <2>1. CASE SnapshotSent
    BY <2>1, <1>1, <1>7, NoteQueued
  <2>2. CASE SnapshotRetry
    BY <2>2, <1>1, <1>2, TypesLast DEF SnapshotRetry, Types, LeadOK
  <2> QED BY <2>1, <2>2
<1>9. Live("append")' = Live("append") /\ Live("heartbeat")' = Live("heartbeat")
  <2>1. CASE SnapshotSent
    BY <2>1 DEF SnapshotSent, Live
  <2>2. CASE SnapshotRetry
    <3>1. wire' = Late(wire, {"snapshot"}) \cup {SnapshotRequest(lead.snap)} /\ WireOK
      BY <2>2, <1>1 DEF SnapshotRetry, Types
    <3>2. /\ {r \in Late(wire, {"snapshot"}) : r.kind = "append" /\ r.live} = Live("append")
          /\ {r \in Late(wire, {"snapshot"}) : r.kind = "heartbeat" /\ r.live} = Live("heartbeat")
      BY <3>1, Lately
    <3> QED BY <3>1, <3>2, <1>5 DEF Live
  <2> QED BY <2>1, <2>2
<1>10. SnapOK'
  <2>1. CASE SnapshotSent
    <3>1. Live("snapshot")' = {}
      BY <2>1 DEF SnapshotSent, FlowInv, SnapOK, Live
    <3> QED BY <2>1, <3>1, <1>1, <1>2 DEF SnapshotSent, SnapOK, IdleTransmitter
  <2>2. CASE SnapshotRetry
    <3>1. wire' = Late(wire, {"snapshot"}) \cup {SnapshotRequest(lead.snap)} /\ WireOK
      BY <2>2, <1>1 DEF SnapshotRetry, Types
    <3>2. {r \in Late(wire, {"snapshot"}) : r.kind = "snapshot" /\ r.live} = {}
      BY <3>1, Lately
    <3>3. Live("snapshot")' = {SnapshotRequest(lead.snap)}
      BY <3>1, <3>2, <1>5 DEF Live
    <3>4. snapper'.pc = "wait" /\ snapper'.log = lead.snap
      BY <2>2, <1>1 DEF SnapshotRetry, Types, SnapperOK
    <3> QED BY <3>3, <3>4, <1>1, <1>2, <1>5 DEF SnapOK
  <2> QED BY <2>1, <2>2
<1>11. TaskOK'
  BY <1>1, <1>9, TaskLasts DEF FlowInv, TaskOK
<1>12. HbOK'
  BY <1>1, <1>9 DEF FlowInv, HbOK
<1>13. Types'
  <2>1. EntryOK' /\ FollowerOK' /\ TaskTypeOK' /\ ChanOK' /\ HeartbeatOK' /\ LeadOK'
    BY <1>1, <1>2, TypesLast DEF Types, LeadOK
  <2> QED BY <2>1, <1>1, <1>4, <1>6, <1>8 DEF Types
<1>14. FlightOK'
  <2>1. CASE SnapshotSent
    <3>1. PICK n \in NoteSet : /\ notes' = Append(notes, n)
                               /\ Mine(n) => n.id = snapper.id /\ n.kind = "matching"
      BY <2>1, <1>7
    <3>2. /\ Len(notes) \in Nat /\ Len(notes') = Len(notes) + 1
          /\ notes'[Len(notes) + 1] = n
          /\ \A i \in 1..Len(notes) : notes'[i] = notes[i]
      BY <3>1, <1>1, Queued DEF Types
    <3>4. \A i \in 1..Len(notes') : Mine(notes'[i]) =>
            i = Len(notes) + 1 /\ notes'[i].id = snapper.id /\ notes'[i].kind = "matching"
      <4> SUFFICES ASSUME NEW i \in 1..Len(notes'), Mine(notes'[i])
                   PROVE  i = Len(notes) + 1 /\ notes'[i].id = snapper.id /\ notes'[i].kind = "matching"
        OBVIOUS
      <4>1. i = Len(notes) + 1
        BY <3>2, <1>3 DEF NoneMine
      <4> QED BY <4>1, <3>1, <3>2
    <3>5. snapper'.pc = "idle"
      BY <2>1 DEF SnapshotSent, IdleTransmitter
    <3>6. \A x : Mine(x)' <=> Mine(x)
      BY <1>1 DEF Mine
    <3> QED BY <3>4, <3>5, <3>6, <1>1, <1>3 DEF FlightOK
  <2>2. CASE SnapshotRetry
    <3>1. snapper'.pc = "wait" /\ snapper'.id = snapper.id /\ snapper'.session = snapper.session
          /\ notes' = notes
      BY <2>2, <1>1 DEF SnapshotRetry, Types, SnapperOK
    <3> QED BY <3>1, <1>1, <1>3, <1>9, FlightLasts DEF RunOK
  <2> QED BY <2>1, <2>2
<1> QED BY <1>1, <1>10, <1>11, <1>12, <1>13, <1>14 DEF FlowInv, RunOK

\* A round of the task begins.
LEMMA Started ==
  ASSUME TaskTypeOK, NEW id \in Nat, NEW prev \in Nat, NEW last \in Nat, NEW committed \in Nat,
         StartStream(id, prev, last, committed)
  PROVE  /\ task' \in [pc : {"idle", "read", "wait", "answered"}, id : Nat,
                       rest : [prev : Nat, last : Int], last : Nat,
                       answer : [kind : {"none", "matching", "conflict", "higher"}, log : Nat],
                       committed : Nat, remote : Nat, session : Nat]
         /\ task'.pc = "read" /\ task'.id = id /\ task'.rest = [prev |-> prev, last |-> last]
         /\ task'.last = last /\ task'.answer = task.answer /\ task'.remote = task.remote
         /\ task'.session = task.session
<1> DEFINE R == [prev |-> prev, last |-> last]
<1>1. R \in [prev : Nat, last : Int]
  OBVIOUS
<1>2. task' = [task EXCEPT !.pc = "read", !.id = id, !.rest = R, !.last = last, !.committed = committed]
  BY DEF StartStream
<1> HIDE DEF R
<1>3. task' \in [pc : {"idle", "read", "wait", "answered"}, id : Nat,
                 rest : [prev : Nat, last : Int], last : Nat,
                 answer : [kind : {"none", "matching", "conflict", "higher"}, log : Nat],
                 committed : Nat, remote : Nat, session : Nat]
  BY <1>1, <1>2 DEF TaskTypeOK
<1>4. /\ task'.pc = "read" /\ task'.id = id /\ task'.rest = R
      /\ task'.last = last /\ task'.answer = task.answer /\ task'.remote = task.remote
      /\ task'.session = task.session
  BY <1>2 DEF TaskTypeOK
<1> QED BY <1>3, <1>4 DEF R

\* rebuild_replication_streams: what was in flight is of an earlier session.
LEMMA RebuildFlows ==
  ASSUME FlowInv, RebuildReplicationStreams
  PROVE  FlowInv'
<1> USE DEF Spend
<1>1. /\ UNCHANGED <<nextId, chan, task, notes, follower>>
      /\ lead' = [lead EXCEPT !.last = @ + 1] /\ session' = session + 1
      /\ entry' = [entry EXCEPT !.inflight = NoInflight]
      /\ core = "run" /\ core' = "join" /\ hb' = IdleHeartbeat /\ snapper' = IdleTransmitter
      /\ wire' = Late(wire, {"heartbeat", "snapshot"})
      /\ Types /\ task.session = session
  BY DEF RebuildReplicationStreams, FlowInv, RunOK
<1>2. LeadOK' /\ lead'.last = lead.last + 1 /\ lead'.purged = lead.purged /\ lead'.snap = lead.snap
      /\ lead.last \in Nat /\ lead.snap \in Nat
  BY <1>1 DEF Types, LeadOK
<1>3. session \in Nat /\ session' \in Nat /\ session <= session' /\ lead.last <= lead'.last
  BY <1>1, <1>2 DEF Types
<1>4. /\ TaskTypeOK' /\ ChanOK' /\ NotesOK' /\ FollowerOK'
      /\ Inflights \subseteq Inflights' /\ Index \subseteq Index'
  BY <1>1, <1>2, <1>3, TypesLast
<1>5. EntryOK'
  <2>1. EntryOK
    BY <1>1 DEF Types
  <2>2. /\ entry' \in [matching : Nat, inflight : Inflights', searchingEnd : Int, allow : BOOLEAN]
        /\ entry'.matching = entry.matching /\ entry'.searchingEnd = entry.searchingEnd
    BY <2>1, <1>1, <1>4 DEF EntryOK, Inflights
  <2>3. entry.searchingEnd \in -1 .. lead'.last
    BY <2>1, <1>2 DEF EntryOK
  <2> QED BY <2>1, <2>2, <2>3, <1>4 DEF EntryOK
<1>6. HeartbeatOK' /\ SnapperOK'
  BY <1>1, <1>2, <1>3 DEF HeartbeatOK, SnapperOK, IdleHeartbeat, IdleTransmitter, Index
<1>7. WireOK'
  <2>1. \A r \in wire' : r.last \in Nat /\ r.last <= lead.last
    BY <1>1, LatelyOK DEF Types
  <2>2. \A r \in wire' : r.last <= lead'.last
    BY <2>1, <1>2
  <2> QED BY <2>2, <1>1, LatelyOK DEF WireOK, Types
<1>8. /\ Live("append")' = Live("append")
      /\ Live("heartbeat")' = {} /\ Live("snapshot")' = {}
  <2>1. /\ {r \in Late(wire, {"heartbeat", "snapshot"}) : r.kind = "append" /\ r.live} = Live("append")
        /\ {r \in Late(wire, {"heartbeat", "snapshot"}) : r.kind = "heartbeat" /\ r.live} = {}
        /\ {r \in Late(wire, {"heartbeat", "snapshot"}) : r.kind = "snapshot" /\ r.live} = {}
    BY <1>1, Lately DEF Types
  <2> QED BY <2>1, <1>1 DEF Live
<1>9. Types'
  BY <1>1, <1>2, <1>3, <1>4, <1>5, <1>6, <1>7 DEF Types
<1>10. TaskOK'
  BY <1>1, <1>2, <1>8, TaskLasts DEF FlowInv, TaskOK
<1>11. HbOK' /\ SnapOK'
  BY <1>1, <1>2, <1>8 DEF HbOK, SnapOK, IdleHeartbeat, IdleTransmitter
<1>12. JoinOK'
  <2>1. entry'.inflight = NoInflight
    BY <1>1 DEF Types, EntryOK
  <2>2. \A i \in 1..Len(notes) : notes[i].session < session'
    <3>1. \A i \in 1..Len(notes) : notes[i].session <= session
      BY <1>1 DEF Types, NotesOK
    <3>2. \A i \in 1..Len(notes) : notes[i].session \in Nat
      BY <1>1, NoteTypes DEF Types
    <3> QED BY <3>1, <3>2, <1>1, <1>3
  <2> QED BY <2>1, <2>2, <1>1, <1>3 DEF JoinOK, IdleTransmitter, IdleHeartbeat
<1> QED BY <1>1, <1>9, <1>10, <1>11, <1>12 DEF FlowInv

\* A new task, and channels that are empty.
LEMMA SpawnFlows ==
  ASSUME FlowInv, SpawnReplicationStream
  PROVE  FlowInv'
<1>1. /\ UNCHANGED <<lead, entry, nextId, session, hb, snapper, wire, notes, follower>>
      /\ task.pc = "idle" /\ task' = NewTask(session, entry.matching, lead.committed)
      /\ chan' = NewChannels /\ core = "join" /\ core' = "run" /\ Types /\ JoinOK
  BY DEF SpawnReplicationStream, TaskJoined, FlowInv
<1>2. /\ entry.matching \in Nat /\ entry.matching \in Index /\ lead.committed \in Nat /\ session \in Nat
      /\ lead.last \in Nat
  BY <1>1 DEF Types, EntryOK, LeadOK
<1>3. LeadOK' /\ EntryOK' /\ FollowerOK' /\ HeartbeatOK' /\ SnapperOK' /\ WireOK' /\ NotesOK'
  BY <1>1, <1>2, TypesLast DEF Types, LeadOK
<1>4. /\ task'.pc = "idle" /\ task'.id = 0 /\ task'.session = session /\ task'.remote = entry.matching
      /\ task'.last = 0 /\ task'.answer.log = 0
  BY <1>1 DEF NewTask, NoAnswer
<1>5. TaskTypeOK'
  <2>1. task' \in [pc : {"idle", "read", "wait", "answered"}, id : Nat,
                   rest : [prev : Nat, last : Int], last : Nat,
                   answer : [kind : {"none", "matching", "conflict", "higher"}, log : Nat],
                   committed : Nat, remote : Nat, session : Nat]
    BY <1>1, <1>2 DEF NewTask, NoRange, NoAnswer
  <2> QED BY <2>1, <1>1, <1>2, <1>4 DEF TaskTypeOK, Index
<1>6. ChanOK'
  BY <1>1 DEF ChanOK, NewChannels, Inflights
<1>7. Types'
  BY <1>1, <1>3, <1>5, <1>6 DEF Types
<1>8. Live("append")' = {}
  BY <1>1 DEF FlowInv, TaskOK, Live
<1>9. TaskOK'
  BY <1>4, <1>8 DEF TaskOK
<1>10. HbOK' /\ SnapOK'
  BY <1>1 DEF FlowInv, HbOK, SnapOK, Live
<1>11. NoneMine'
  <2>2. \A i \in 1..Len(notes) : notes[i].session \in Nat /\ notes[i].session < session
    BY <1>1, NoteTypes DEF JoinOK, Types
  <2> QED BY <2>2, <1>1, <1>2 DEF NoneMine, Mine
<1>12. FlightOK'
  BY <1>1, <1>4, <1>11 DEF FlightOK, JoinOK, NewChannels, NoInflight
<1> QED BY <1>1, <1>4, <1>7, <1>9, <1>10, <1>12 DEF FlowInv, RunOK

\* What is in flight is known where its range is in the channel or at the task.
LEMMA InChannel ==
  ASSUME FlowInv, core = "run", chan.data # NoInflight \/ task.id # 0
  PROVE  /\ entry.inflight.kind = "logs" /\ entry.inflight.prev \in Nat /\ entry.inflight.last \in Nat
         /\ entry.inflight.id \in Nat \ {0} /\ entry.inflight.prev < entry.inflight.last
         /\ entry.inflight.last <= lead.last
<1>1. entry.inflight \in Inflights /\ FlightOK
  BY DEF FlowInv, Types, EntryOK, RunOK
<1>2. entry.inflight.kind = "logs"
  BY <1>1 DEF FlightOK, Inflights, NoInflight
<1> QED BY <1>1, <1>2 DEF Inflights, NoInflight, FlightOK

\* The range in flight goes from the channel to the task.
LEMMA RecvDataFlows ==
  ASSUME FlowInv, RecvData
  PROVE  FlowInv'
<1> DEFINE inf == entry.inflight
<1>1. /\ UNCHANGED <<lead, entry, nextId, core, session, hb, snapper, wire, notes, follower>>
      /\ core = "run" /\ task.pc = "idle" /\ chan.data # NoInflight
      /\ chan' = [chan EXCEPT !.data = NoInflight] /\ Types /\ RunOK /\ FlightOK
  BY DEF RecvData, FlowInv, RunOK
<1>2. /\ inf.kind = "logs" /\ inf.prev \in Nat /\ inf.last \in Nat /\ inf.id \in Nat \ {0}
      /\ inf.prev < inf.last /\ inf.last <= lead.last
  BY <1>1, InChannel
<1>3. chan.data = inf /\ NoneMine /\ snapper.pc = "idle" /\ inf.prev >= lead.purged /\ Reports(inf)
  BY <1>1, <1>2 DEF FlightOK
<1>4. StartStream(inf.id, inf.prev, inf.last, task.committed) /\ task.committed \in Nat /\ TaskTypeOK
  BY <1>1, <1>3 DEF RecvData, Types, TaskTypeOK
<1> HIDE DEF inf
<1>5. /\ task' \in [pc : {"idle", "read", "wait", "answered"}, id : Nat,
                    rest : [prev : Nat, last : Int], last : Nat,
                    answer : [kind : {"none", "matching", "conflict", "higher"}, log : Nat],
                    committed : Nat, remote : Nat, session : Nat]
      /\ task'.pc = "read" /\ task'.id = inf.id /\ task'.rest = [prev |-> inf.prev, last |-> inf.last]
      /\ task'.last = inf.last /\ task'.answer = task.answer /\ task'.remote = task.remote
      /\ task'.session = task.session
  BY <1>2, <1>4, Started
<1>6. TaskTypeOK'
  BY <1>1, <1>2, <1>5 DEF Types, TaskTypeOK, Index
<1>7. ChanOK' /\ chan'.data = NoInflight
  BY <1>1 DEF Types, ChanOK, Inflights
<1>8. Types'
  <2>1. LeadOK' /\ EntryOK' /\ FollowerOK' /\ HeartbeatOK' /\ SnapperOK' /\ WireOK' /\ NotesOK'
    BY <1>1, TypesLast DEF Types, LeadOK
  <2> QED BY <2>1, <1>1, <1>6, <1>7 DEF Types
<1>9. Live("append")' = {}
  BY <1>1 DEF FlowInv, TaskOK, Live
<1>10. /\ Reach(lead.purged)' /\ Reach(inf.prev)'
  <2>1. lead.purged \in Nat /\ lead'.purged = lead.purged
    BY <1>1 DEF Types, LeadOK
  <2>2. entry'.inflight = inf
    BY <1>1 DEF inf
  <2> QED BY <2>1, <2>2, <1>1, <1>2, <1>3, <1>5, <1>9 DEF Reach, inf
<1>11. TaskOK'
  BY <1>1, <1>2, <1>5, <1>9, <1>10 DEF TaskOK
<1>12. HbOK' /\ SnapOK'
  BY <1>1 DEF FlowInv, HbOK, SnapOK, Live
<1>13. FlightOK'
  <2>1. entry'.inflight = inf /\ Reports(inf)' /\ NoneMine'
    BY <1>1, <1>3 DEF inf, Reports, NoneMine, Mine
  <2> QED BY <2>1, <1>1, <1>2, <1>3, <1>5, <1>7, <1>10 DEF FlightOK, NoneMine, inf
<1> QED BY <1>1, <1>5, <1>8, <1>11, <1>12, <1>13 DEF FlowInv, RunOK

\* A commit index is told with id 0 while the range, if any, is in the channel.
LEMMA RecvCommittedFlows ==
  ASSUME FlowInv, RecvCommitted
  PROVE  FlowInv'
<1>1. /\ UNCHANGED <<lead, entry, nextId, core, session, hb, snapper, wire, notes, follower>>
      /\ core # "gone" /\ task.pc = "idle" /\ task.id = 0
      /\ StartStream(0, task.remote, task.remote, lead.committed)
      /\ chan' = [chan EXCEPT !.news = FALSE] /\ Types /\ TaskTypeOK
  BY DEF RecvCommitted, FlowInv, TaskOK, Types
<1>2. task.remote \in Nat /\ task.remote \in Index /\ lead.committed \in Nat
  BY <1>1 DEF Types, TaskTypeOK, LeadOK
<1>3. /\ task' \in [pc : {"idle", "read", "wait", "answered"}, id : Nat,
                    rest : [prev : Nat, last : Int], last : Nat,
                    answer : [kind : {"none", "matching", "conflict", "higher"}, log : Nat],
                    committed : Nat, remote : Nat, session : Nat]
      /\ task'.pc = "read" /\ task'.id = 0 /\ task'.rest = [prev |-> task.remote, last |-> task.remote]
      /\ task'.last = task.remote /\ task'.answer = task.answer /\ task'.remote = task.remote
      /\ task'.session = task.session
  BY <1>1, <1>2, Started
<1>4. TaskTypeOK'
  BY <1>1, <1>2, <1>3 DEF Types, TaskTypeOK, Index
<1>5. ChanOK' /\ chan'.data = chan.data
  BY <1>1 DEF Types, ChanOK, Inflights
<1>6. Types'
  <2>1. LeadOK' /\ EntryOK' /\ FollowerOK' /\ HeartbeatOK' /\ SnapperOK' /\ WireOK' /\ NotesOK'
    BY <1>1, TypesLast DEF Types, LeadOK
  <2> QED BY <2>1, <1>1, <1>4, <1>5 DEF Types
<1>7. Live("append")' = {}
  BY <1>1 DEF FlowInv, TaskOK, Live
<1>8. TaskOK'
  BY <1>1, <1>2, <1>3, <1>7 DEF TaskOK
<1>9. HbOK' /\ SnapOK'
  BY <1>1 DEF FlowInv, HbOK, SnapOK, Live
<1>10. core = "run" => RunOK'
  <2> SUFFICES ASSUME core = "run" PROVE RunOK'
    OBVIOUS
  <2>1. RunOK /\ FlightOK
    BY DEF FlowInv, RunOK
  <2>2. entry.inflight.kind = "logs" => entry.inflight.prev >= lead'.purged
    BY <1>1, <2>1 DEF FlightOK
  <2>3. FlightOK'
    BY <2>1, <2>2, <1>1, <1>3, <1>5, FlightMoves
  <2> QED BY <2>1, <2>3, <1>1, <1>3 DEF RunOK
<1>11. core = "join" => JoinOK'
  BY <1>1, <1>3 DEF FlowInv, JoinOK
<1> QED BY <1>1, <1>6, <1>8, <1>9, <1>10, <1>11 DEF FlowInv

\* A part of the range goes on the wire, the rest stays with the task.
LEMMA NextRequestFlows ==
  ASSUME FlowInv, NextRequest
  PROVE  FlowInv'
<1> DEFINE sent == ReadLogEntries(task.rest)
           r == AppendRequest(sent, task.committed)
           rest == UpdateLogIdRange(task.rest, sent)
<1>1. /\ UNCHANGED <<lead, entry, nextId, core, session, chan, hb, snapper, notes, follower>>
      /\ core # "gone" /\ task.pc = "read" /\ wire' = wire \cup {r}
      /\ task' = [task EXCEPT !.pc = "wait", !.rest = rest]
      /\ Types /\ TaskTypeOK /\ TaskOK
  BY DEF NextRequest, FlowInv, Types
<1>2. /\ task.rest.prev \in Nat /\ task.last \in Nat /\ task.rest.last = task.last
      /\ task.rest.prev <= task.last /\ task.last <= lead.last /\ lead.last \in Nat
      /\ task.committed \in Nat /\ task.rest \in [prev : Nat, last : Int]
      /\ task.id = 0 => task.rest.prev = task.last
  BY <1>1 DEF TaskTypeOK, TaskOK, Index, LeadOK, Types
<1>3. /\ sent.prev = task.rest.prev /\ sent.last \in Nat
      /\ sent.prev <= sent.last /\ sent.last <= task.last
      /\ task.id = 0 => sent.last = task.last
  BY <1>2, ReplicationAssumption DEF ReadLogEntries, Smaller
<1>4. /\ rest \in [prev : Nat, last : Int]
      /\ rest # NoRange => rest.prev = sent.last /\ rest.last = task.last /\ sent.last < task.last
      /\ rest = NoRange => sent.last = task.last
  <2>1. CASE sent.last = task.rest.last
    BY <2>1, <1>2 DEF UpdateLogIdRange, NoRange
  <2>2. CASE sent.last # task.rest.last
    <3>1. rest = [task.rest EXCEPT !.prev = sent.last]
      BY <2>2 DEF UpdateLogIdRange
    <3>2. rest \in [prev : Nat, last : Int] /\ rest.prev = sent.last /\ rest.last = task.last
      BY <3>1, <1>2, <1>3
    <3>3. rest # NoRange
      BY <3>2, <1>2 DEF NoRange
    <3> QED BY <3>2, <3>3, <2>2, <1>2, <1>3
  <2> QED BY <2>1, <2>2
<1>5. /\ r \in [kind : {"append", "heartbeat", "snapshot"}, prev : Nat, last : Nat, commit : Nat, live : BOOLEAN]
      /\ r.kind = "append" /\ r.live /\ r.prev = task.rest.prev /\ r.last = sent.last
  BY <1>2, <1>3 DEF AppendRequest
<1> HIDE DEF sent, r, rest
<1>6. /\ task' \in [pc : {"idle", "read", "wait", "answered"}, id : Nat,
                    rest : [prev : Nat, last : Int], last : Nat,
                    answer : [kind : {"none", "matching", "conflict", "higher"}, log : Nat],
                    committed : Nat, remote : Nat, session : Nat]
      /\ task'.pc = "wait" /\ task'.rest = rest /\ task'.id = task.id
      /\ task'.last = task.last /\ task'.answer = task.answer /\ task'.remote = task.remote
      /\ task'.session = task.session
  BY <1>1, <1>4 DEF TaskTypeOK
<1>7. TaskTypeOK'
  BY <1>1, <1>6 DEF TaskTypeOK, Index
<1>8. WireOK'
  <2>1. WireOK /\ r.prev <= r.last /\ r.last <= lead.last
    BY <1>1, <1>2, <1>3, <1>5 DEF Types
  <2> QED BY <2>1, <1>1, <1>5 DEF WireOK
<1>9. Types'
  <2>1. LeadOK' /\ EntryOK' /\ FollowerOK' /\ HeartbeatOK' /\ SnapperOK' /\ NotesOK' /\ ChanOK'
    BY <1>1, TypesLast DEF Types, LeadOK
  <2> QED BY <2>1, <1>1, <1>7, <1>8 DEF Types
<1>a. PICK q : q = r
  OBVIOUS
<1>10. /\ Live("append")' = {q}
       /\ Live("heartbeat")' = Live("heartbeat") /\ Live("snapshot")' = Live("snapshot")
  <2>1. Live("append") = {}
    BY <1>1 DEF TaskOK
  <2>2. wire' = wire \cup {q} /\ q.live /\ q.kind = "append"
    BY <1>1, <1>5, <1>a
  <2>3. \A kind : Live(kind)' = Live(kind) \cup IF q.kind = kind THEN {q} ELSE {}
    BY <2>2, Sent
  <2>4. Live("append")' = {q}
    BY <2>1, <2>2, <2>3
  <2>5. Live("heartbeat")' = Live("heartbeat") /\ Live("snapshot")' = Live("snapshot")
    BY <2>2, <2>3
  <2> QED BY <2>4, <2>5
<1>11. \A x : Reach(x) => Reach(x)'
  BY <1>1, <1>5, <1>6, <1>10, <1>a DEF Reach
<1>12. TaskOK'
  <2>1. RestAfter(q.last)'
    BY <1>1, <1>2, <1>3, <1>4, <1>5, <1>6, <1>a DEF RestAfter
  <2>2. task.id # 0 => Reach(lead.purged)'
    BY <1>11, <1>1 DEF TaskOK
  <2>3. task'.rest = NoRange => q.last = task'.last
    BY <1>4, <1>5, <1>6, <1>a
  <2>4. task'.id = 0 => /\ task'.last = task'.remote /\ task'.rest = NoRange
                        /\ q.prev = task'.remote
    BY <1>1, <1>2, <1>3, <1>4, <1>5, <1>6, <1>a DEF TaskOK
  <2> QED BY <2>1, <2>2, <2>3, <2>4, <1>6, <1>10 DEF TaskOK
<1>13. HbOK' /\ SnapOK'
  BY <1>1, <1>10 DEF FlowInv, HbOK, SnapOK
<1>14. core = "run" => RunOK'
  <2> SUFFICES ASSUME core = "run" PROVE RunOK'
    OBVIOUS
  <2>1. RunOK /\ FlightOK
    BY DEF FlowInv, RunOK
  <2>2. entry.inflight.kind = "logs" => entry.inflight.prev >= lead'.purged
    BY <1>1, <2>1 DEF FlightOK
  <2>3. FlightOK'
    BY <2>1, <2>2, <1>1, <1>6, <1>11, FlightMoves
  <2> QED BY <2>1, <2>3, <1>1, <1>6 DEF RunOK
<1>15. core = "join" => JoinOK'
  BY <1>1, <1>6 DEF FlowInv, JoinOK
<1> QED BY <1>1, <1>9, <1>12, <1>13, <1>14, <1>15 DEF FlowInv

\* The task reports on what is in flight.
LEMMA TaskReports ==
  ASSUME FlowInv, core = "run", task.id # 0,
         UNCHANGED <<lead, entry, session, chan, snapper>>,
         NEW n \in NoteSet, n.id = task.id, n.session = session, notes' = Append(notes, n),
         n.kind = "matching" => /\ entry.inflight.prev <= n.log /\ n.log <= entry.inflight.last
                                /\ \A i \in 1..Len(notes) : Mine(notes[i]) => notes[i].log <= n.log,
         \/ task'.id = 0
         \/ /\ task'.id = task.id /\ task'.last = task.last
            /\ \A x \in Nat : Reach(x) => Reach(x)'
            /\ Reach(n.log)' /\ n.kind = "matching" /\ n.log < task.last
  PROVE  FlightOK'
<1> DEFINE inf == entry.inflight
<1>1. /\ inf.kind = "logs" /\ inf.prev \in Nat /\ inf.last \in Nat /\ FlightOK /\ NotesOK
      /\ inf.prev < inf.last
  BY InChannel DEF FlowInv, RunOK, Types
<1>2. /\ snapper.pc = "idle" /\ inf.id # 0 /\ inf.prev >= lead.purged /\ Reports(inf)
      /\ chan.data = NoInflight /\ task.id = inf.id /\ task.last = inf.last /\ Reach(inf.prev)
      /\ \A i \in 1..Len(notes) : Mine(notes[i]) =>
           notes[i].kind = "matching" /\ notes[i].log < inf.last /\ Reach(notes[i].log)
  BY <1>1 DEF FlightOK
<1>3. /\ Len(notes) \in Nat /\ Len(notes') = Len(notes) + 1
      /\ notes'[Len(notes) + 1] = n
      /\ \A i \in 1..Len(notes) : notes'[i] = notes[i]
  BY <1>1, Queued
<1>4. \A i \in 1..Len(notes') : i \in 1..Len(notes) \/ i = Len(notes) + 1
  BY <1>3
<1>5. \A x : Mine(x)' <=> Mine(x)
  BY DEF Mine
<1> HIDE DEF inf
<1>6. Reports(inf)'
  <2>1. ASSUME NEW i \in 1..Len(notes'), Mine(notes'[i])
        PROVE  /\ notes'[i].id = inf.id
               /\ notes'[i].kind = "matching" => inf.prev <= notes'[i].log /\ notes'[i].log <= inf.last
    <3>1. CASE i \in 1..Len(notes)
      BY <3>1, <2>1, <1>2, <1>3 DEF Reports
    <3>2. CASE i = Len(notes) + 1
      BY <3>2, <1>2, <1>3 DEF inf
    <3> QED BY <3>1, <3>2, <1>4
  <2>2. ASSUME NEW i \in 1..Len(notes'), NEW j \in 1..Len(notes'), Mine(notes'[i]), Mine(notes'[j]), i < j
        PROVE  /\ notes'[i].kind = "matching" /\ notes'[i].log < inf.last
               /\ notes'[j].kind = "matching" => notes'[i].log <= notes'[j].log
    <3>1. i \in 1..Len(notes) /\ notes'[i] = notes[i]
      BY <2>2, <1>3, <1>4
    <3>2. CASE j \in 1..Len(notes)
      BY <3>1, <3>2, <2>2, <1>2, <1>3 DEF Reports
    <3>3. CASE j = Len(notes) + 1
      BY <3>1, <3>3, <2>2, <1>2, <1>3
    <3> QED BY <3>2, <3>3, <1>4
  <2> QED BY <2>1, <2>2, <1>5 DEF Reports, inf
<1>7. task'.id # 0 => /\ task'.id = inf.id /\ task'.last = inf.last /\ Reach(inf.prev)'
                      /\ \A i \in 1..Len(notes') : Mine(notes'[i]) =>
                           notes'[i].kind = "matching" /\ notes'[i].log < inf.last /\ Reach(notes[i].log)'
  <2> SUFFICES ASSUME task'.id # 0
               PROVE  /\ task'.id = inf.id /\ task'.last = inf.last /\ Reach(inf.prev)'
                      /\ \A i \in 1..Len(notes') : Mine(notes'[i]) =>
                           notes'[i].kind = "matching" /\ notes'[i].log < inf.last /\ Reach(notes[i].log)'
    OBVIOUS
  <2>1. /\ task'.id = task.id /\ task'.last = task.last
        /\ Reach(n.log)' /\ n.kind = "matching" /\ n.log < task.last
    OBVIOUS
  <2>2. \A x \in Nat : Reach(x) => Reach(x)'
    OBVIOUS
  <2>a. \A i \in 1..Len(notes) : notes[i].log \in Nat
    BY <1>1, NoteTypes
  <2>3. Reach(inf.prev)'
    <3>1. inf' = inf
      BY DEF inf
    <3> QED BY <3>1, <2>2, <1>1, <1>2 DEF Reach
  <2>4. ASSUME NEW i \in 1..Len(notes'), Mine(notes'[i])
        PROVE  notes'[i].kind = "matching" /\ notes'[i].log < inf.last /\ Reach(notes[i].log)'
    <3>1. CASE i \in 1..Len(notes)
      BY <3>1, <2>4, <2>2, <2>a, <1>2, <1>3 DEF Reach
    <3>2. CASE i = Len(notes) + 1
      BY <3>2, <2>1, <1>2, <1>3 DEF Reach
    <3> QED BY <3>1, <3>2, <1>4
  <2> QED BY <2>1, <2>3, <2>4, <1>2
<1> QED BY <1>1, <1>2, <1>5, <1>6, <1>7 DEF FlightOK, inf, NoInflight

\* The task waits for the next event.
LEMMA Idled ==
  ASSUME Types, NEW remote \in Index,
         task' = Idle([task EXCEPT !.remote = remote]) \/ (task' = Idle(task) /\ remote = task.remote),
         UNCHANGED <<lead, session>>
  PROVE  /\ TaskTypeOK' /\ task'.pc = "idle" /\ task'.id = 0 /\ task'.session = task.session
         /\ task'.remote = remote /\ task'.answer = NoAnswer
<1>1. task.session <= session /\ TaskTypeOK /\ lead.last \in Nat /\ remote \in Nat
  BY DEF Types, TaskTypeOK, LeadOK, Index
<1> DEFINE t == [task EXCEPT !.remote = remote]
<1>2. /\ t \in [pc : {"idle", "read", "wait", "answered"}, id : Nat,
                rest : [prev : Nat, last : Int], last : Nat,
                answer : [kind : {"none", "matching", "conflict", "higher"}, log : Nat],
                committed : Nat, remote : Nat, session : Nat]
      /\ t.remote = remote /\ t.session = task.session /\ (remote = task.remote => t = task)
  BY <1>1 DEF TaskTypeOK
<1> HIDE DEF t
<1>3. task' = [t EXCEPT !.pc = "idle", !.id = 0, !.rest = NoRange, !.last = 0, !.answer = NoAnswer]
  BY <1>2 DEF Idle, t
<1>4. NoRange \in [prev : Nat, last : Int]
      /\ NoAnswer \in [kind : {"none", "matching", "conflict", "higher"}, log : Nat] /\ NoAnswer.log = 0
  BY DEF NoRange, NoAnswer
<1>5. task' \in [pc : {"idle", "read", "wait", "answered"}, id : Nat,
                rest : [prev : Nat, last : Int], last : Nat,
                answer : [kind : {"none", "matching", "conflict", "higher"}, log : Nat],
                committed : Nat, remote : Nat, session : Nat]
  BY <1>2, <1>3, <1>4
<1>6. /\ task'.pc = "idle" /\ task'.id = 0 /\ task'.session = task.session
      /\ task'.remote = remote /\ task'.answer = NoAnswer /\ task'.last = 0
  BY <1>2, <1>3
<1> QED BY <1>1, <1>4, <1>5, <1>6 DEF TaskTypeOK, Index

\* An error is the last report of a range; its request is not waited for.
LEMMA RpcErrorFlows ==
  ASSUME FlowInv, RpcError
  PROVE  FlowInv'
<1>1. /\ UNCHANGED <<lead, entry, nextId, core, session, chan, hb, snapper, follower>>
      /\ core # "gone" /\ SendProgressError /\ task' = Idle(task) /\ wire' = Late(wire, {"append"})
      /\ Types /\ TaskTypeOK /\ TaskOK /\ WireOK
  BY DEF RpcError, FlowInv, Types
<1>2. /\ task.remote \in Index /\ task.id \in Nat /\ task.session \in Nat /\ task.session <= session
      /\ lead.last \in Nat /\ session \in Nat
  BY <1>1 DEF Types, TaskTypeOK, LeadOK
<1>3. TaskTypeOK' /\ task'.pc = "idle" /\ task'.id = 0 /\ task'.session = task.session
  BY <1>1, <1>2, Idled
<1>4. WireOK'
  BY <1>1, LatelyOK DEF WireOK
<1> DEFINE n == Note("error", 0, task.id, task.session)
<1>5. n \in NoteSet /\ n.log = 0 /\ n.id = task.id /\ n.session = task.session /\ n.kind = "error"
      /\ 0 \in Index
  BY <1>2 DEF Note, NoteSet, Index
<1>6. notes' = IF task.id = 0 THEN notes ELSE Append(notes, n)
  BY <1>1 DEF SendProgressError
<1> HIDE DEF n
<1>7. NotesOK'
  <2>1. CASE task.id = 0
    BY <2>1, <1>1, <1>2, <1>6, TypesLast DEF Types, LeadOK
  <2>2. CASE task.id # 0
    BY <2>2, <1>1, <1>2, <1>5, <1>6, NoteQueued
  <2> QED BY <2>1, <2>2
<1>8. Types'
  <2>1. LeadOK' /\ EntryOK' /\ FollowerOK' /\ HeartbeatOK' /\ SnapperOK' /\ ChanOK'
    BY <1>1, TypesLast DEF Types, LeadOK
  <2> QED BY <2>1, <1>1, <1>3, <1>4, <1>7 DEF Types
<1>9. /\ Live("append")' = {}
      /\ Live("heartbeat")' = Live("heartbeat") /\ Live("snapshot")' = Live("snapshot")
  <2>1. /\ {r \in Late(wire, {"append"}) : r.kind = "append" /\ r.live} = {}
        /\ {r \in Late(wire, {"append"}) : r.kind = "heartbeat" /\ r.live} = Live("heartbeat")
        /\ {r \in Late(wire, {"append"}) : r.kind = "snapshot" /\ r.live} = Live("snapshot")
    BY <1>1, Lately
  <2> QED BY <2>1, <1>1 DEF Live
<1>10. TaskOK'
  BY <1>3, <1>9 DEF TaskOK
<1>11. HbOK' /\ SnapOK'
  BY <1>1, <1>9 DEF FlowInv, HbOK, SnapOK
<1>12. core = "run" => RunOK'
  <2> SUFFICES ASSUME core = "run" PROVE RunOK'
    OBVIOUS
  <2>1. RunOK /\ FlightOK /\ task.session = session
    BY DEF FlowInv, RunOK
  <2>2. CASE task.id = 0
    <3>1. entry.inflight.kind = "logs" => entry.inflight.prev >= lead'.purged
      BY <1>1, <2>1 DEF FlightOK
    <3>2. notes' = notes
      BY <2>2, <1>6
    <3> QED BY <3>1, <3>2, <2>1, <2>2, <1>1, <1>3, FlightMoves DEF RunOK
  <2>3. CASE task.id # 0
    <3>1. PICK m : m = n
      OBVIOUS
    <3> QED BY <3>1, <2>1, <2>3, <1>1, <1>3, <1>5, <1>6, TaskReports DEF RunOK
  <2> QED BY <2>2, <2>3
<1>13. core = "join" => JoinOK'
  <2> SUFFICES ASSUME core = "join" PROVE JoinOK'
    OBVIOUS
  <2>1. JoinOK
    BY DEF FlowInv
  <2>2. \A i \in 1..Len(notes') : notes'[i].session < session'
    <3>1. CASE task.id = 0
      BY <3>1, <2>1, <1>1, <1>6 DEF JoinOK
    <3>2. CASE task.id # 0
      <4>1. PICK m : m = n
        OBVIOUS
      <4>2. /\ Len(notes) \in Nat /\ Len(notes') = Len(notes) + 1
            /\ notes'[Len(notes) + 1] = m
            /\ \A i \in 1..Len(notes) : notes'[i] = notes[i]
        BY <4>1, <3>2, <1>1, <1>5, <1>6, Queued DEF Types
      <4>3. \A i \in 1..Len(notes') : i \in 1..Len(notes) \/ i = Len(notes) + 1
        BY <4>2
      <4> QED BY <4>1, <4>2, <4>3, <2>1, <1>1, <1>5 DEF JoinOK
    <3> QED BY <3>1, <3>2
  <2> QED BY <2>1, <2>2, <1>1, <1>3 DEF JoinOK
<1> QED BY <1>1, <1>8, <1>10, <1>11, <1>12, <1>13 DEF FlowInv

\* What the task does with an answer: it goes on with the rest, or it is done.
LEMMA Responded ==
  ASSUME FlowInv, HandleResponse
  PROVE  /\ TaskTypeOK' /\ task'.session = task.session
         /\ \/ task'.pc = "idle" /\ task'.id = 0
            \/ /\ task.answer.kind = "matching" /\ task'.pc = "read" /\ task'.id = task.id
               /\ task'.last = task.last /\ task'.rest.last = task.last
               /\ task.answer.log <= task'.rest.prev /\ task'.rest.prev < task.last
               /\ task.id # 0
         /\ task.answer.kind = "matching" => task'.remote = task.answer.log
         /\ task.answer.kind # "matching" => task'.remote = task.remote
<1> DEFINE log == task.answer.log
           R == [prev |-> log, last |-> task.last]
<1>1. /\ UNCHANGED <<lead, session>> /\ task.pc = "answered" /\ Types /\ TaskTypeOK /\ TaskOK
      /\ task' = IF task.answer.kind = "matching" THEN AfterOk(log) ELSE Idle(task)
  BY DEF HandleResponse, FlowInv, Types
<1>2. /\ log \in Nat /\ log \in Index /\ task.remote \in Index /\ task.last \in Nat /\ lead.last \in Nat
      /\ task.last \in Index /\ task.session <= session
      /\ NoAnswer \in [kind : {"none", "matching", "conflict", "higher"}, log : Nat] /\ NoAnswer.log = 0
      /\ task.rest.prev \in Nat /\ task.rest.last \in Int /\ 0 \in Index
      /\ R \in [prev : Nat, last : Int] /\ R.prev = log /\ R.last = task.last
  BY <1>1 DEF TaskTypeOK, LeadOK, Types, NoAnswer, Index
<1>3. CASE task.answer.kind # "matching"
  BY <1>1, <1>2, <1>3, Idled
<1>4. CASE task.answer.kind = "matching"
  <2>1. log <= task.last /\ RestAfter(log) /\ task' = AfterOk(log)
    BY <1>1, <1>4 DEF TaskOK
  <2>2. task.id = 0 => task.rest = NoRange /\ log = task.last
    BY <1>1, <1>4 DEF TaskOK
  <2>3. CASE task.rest # NoRange
    <3>1. task' = [task EXCEPT !.pc = "read", !.remote = log, !.answer = NoAnswer]
      BY <2>1, <2>3 DEF AfterOk
    <3> HIDE DEF log, R
    <3>2. /\ task' \in [pc : {"idle", "read", "wait", "answered"}, id : Nat,
                        rest : [prev : Nat, last : Int], last : Nat,
                        answer : [kind : {"none", "matching", "conflict", "higher"}, log : Nat],
                        committed : Nat, remote : Nat, session : Nat]
          /\ task'.pc = "read" /\ task'.remote = log /\ task'.answer = NoAnswer /\ task'.rest = task.rest
          /\ task'.id = task.id /\ task'.last = task.last /\ task'.session = task.session
      BY <3>1, <1>1, <1>2 DEF TaskTypeOK
    <3>3. TaskTypeOK'
      BY <3>2, <1>1, <1>2 DEF TaskTypeOK, Index
    <3>4. log <= task.rest.prev /\ task.rest.prev < task.last /\ task.rest.last = task.last
      BY <2>1, <2>3 DEF RestAfter
    <3> QED BY <2>2, <2>3, <3>2, <3>3, <3>4, <1>4 DEF log
  <2>4. CASE task.rest = NoRange /\ task.last > log
    <3>1. task' = [task EXCEPT !.pc = "read", !.remote = log, !.answer = NoAnswer, !.rest = R]
      BY <2>1, <2>4 DEF AfterOk
    <3> HIDE DEF log, R
    <3>2. /\ task' \in [pc : {"idle", "read", "wait", "answered"}, id : Nat,
                        rest : [prev : Nat, last : Int], last : Nat,
                        answer : [kind : {"none", "matching", "conflict", "higher"}, log : Nat],
                        committed : Nat, remote : Nat, session : Nat]
          /\ task'.pc = "read" /\ task'.remote = log /\ task'.answer = NoAnswer /\ task'.rest = R
          /\ task'.id = task.id /\ task'.last = task.last /\ task'.session = task.session
      BY <3>1, <1>1, <1>2 DEF TaskTypeOK
    <3>3. TaskTypeOK'
      BY <3>2, <1>1, <1>2 DEF TaskTypeOK, Index
    <3>4. log <= R.prev /\ R.prev < task.last /\ R.last = task.last
      BY <2>4, <1>2
    <3> QED BY <2>2, <2>4, <3>2, <3>3, <3>4, <1>2, <1>4 DEF log
  <2>5. CASE task.rest = NoRange /\ ~ (task.last > log)
    <3>1. task' = Idle([task EXCEPT !.remote = log])
      BY <2>1, <2>5 DEF AfterOk
    <3> QED BY <3>1, <1>1, <1>2, <1>4, Idled
  <2> QED BY <2>3, <2>4, <2>5
<1> QED BY <1>3, <1>4

\* An answer is reported, and the task goes on after it.
LEMMA HandleResponseFlows ==
  ASSUME FlowInv, HandleResponse
  PROVE  FlowInv'
<1>1. /\ UNCHANGED <<lead, entry, nextId, core, session, chan, hb, snapper, wire, follower>>
      /\ core # "gone" /\ task.pc = "answered" /\ NotifyProgress(task.answer.kind, task.answer.log)
      /\ Types /\ TaskTypeOK /\ TaskOK
  BY DEF HandleResponse, FlowInv, Types
<1>2. /\ task.id \in Nat /\ task.session \in Nat /\ task.session <= session
      /\ lead.last \in Nat /\ session \in Nat /\ task.answer.log \in Nat /\ task.answer.log \in Index
      /\ task.last \in Nat /\ task.answer.kind \in {"matching", "conflict", "higher"}
  BY <1>1 DEF Types, TaskTypeOK, LeadOK, TaskOK
<1>3. /\ TaskTypeOK' /\ task'.session = task.session
      /\ \/ task'.pc = "idle" /\ task'.id = 0
         \/ /\ task.answer.kind = "matching" /\ task'.pc = "read" /\ task'.id = task.id
            /\ task'.last = task.last /\ task'.rest.last = task.last
            /\ task.answer.log <= task'.rest.prev /\ task'.rest.prev < task.last
            /\ task.id # 0
  BY Responded
<1> DEFINE m == Note(task.answer.kind, task.answer.log, task.id, task.session)
<1>4. PICK n : n = m
  OBVIOUS
<1>5. n \in NoteSet /\ n.log = task.answer.log /\ n.id = task.id /\ n.session = task.session
      /\ n.kind = task.answer.kind /\ n.kind # "error"
  BY <1>2, <1>4 DEF Note, NoteSet
<1>6. \/ notes' = notes /\ task.answer.kind = "matching" /\ task.answer.log = 0
      \/ notes' = Append(notes, n)
  BY <1>1, <1>4 DEF NotifyProgress
<1> HIDE DEF m
<1>7. NotesOK'
  <2>1. CASE notes' = notes
    BY <2>1, <1>1, <1>2, <1>6, TypesLast DEF Types, LeadOK
  <2>2. CASE notes' = Append(notes, n)
    BY <2>2, <1>1, <1>2, <1>5, <1>6, NoteQueued
  <2> QED BY <2>1, <2>2, <1>6
<1>8. Types'
  <2>1. LeadOK' /\ EntryOK' /\ FollowerOK' /\ HeartbeatOK' /\ SnapperOK' /\ ChanOK' /\ WireOK'
    BY <1>1, TypesLast DEF Types, LeadOK
  <2> QED BY <2>1, <1>1, <1>3, <1>7 DEF Types
<1>9. Live("append")' = {}
  BY <1>1 DEF Live, TaskOK
<1>10. task'.id # 0 => \A x \in Int : x <= task.answer.log => Reach(x)'
  <2>1. task'.rest.prev \in Nat
    BY <1>3 DEF TaskTypeOK
  <2> QED BY <2>1, <1>2, <1>3, <1>9 DEF Reach
<1>11. task'.id # 0 => \A x \in Nat : Reach(x) => Reach(x)'
  BY <1>1, <1>3, <1>10 DEF Reach
<1>12. TaskOK'
  <2>1. task'.id # 0 => Reach(lead.purged)'
    <3>1. task'.id # 0 => Reach(lead.purged) /\ lead.purged \in Nat
      BY <1>1, <1>3 DEF TaskOK, Types, LeadOK
    <3>2. PICK p : p = lead.purged
      OBVIOUS
    <3>3. task'.id # 0 => Reach(p)'
      BY <3>1, <3>2, <1>11
    <3> QED BY <3>2, <3>3, <1>1 DEF Reach
  <2>2. task'.pc = "read" => task'.rest.prev < task'.last /\ task'.rest.prev <= task'.last
    BY <1>2, <1>3 DEF TaskTypeOK
  <2> QED BY <2>1, <2>2, <1>3, <1>9 DEF TaskOK
<1>13. HbOK' /\ SnapOK'
  BY <1>1 DEF FlowInv, HbOK, SnapOK, Live
<1>14. core = "run" => RunOK'
  <2> SUFFICES ASSUME core = "run" PROVE RunOK'
    OBVIOUS
  <2>1. RunOK /\ FlightOK /\ task.session = session
    BY DEF FlowInv, RunOK
  <2>2. entry.inflight.kind = "logs" => entry.inflight.prev >= lead'.purged
    BY <1>1, <2>1 DEF FlightOK
  <2>3. FlightOK'
    <3>1. CASE task.id = 0
      <4>1. task'.id = 0
        BY <3>1, <1>3
      <4>2. \A i \in 1..Len(notes') : Mine(notes'[i]) => i \in 1..Len(notes) /\ notes'[i] = notes[i]
        <5>1. ~ Mine(n)
          BY <3>1, <1>5 DEF Mine
        <5> QED BY <5>1, <1>1, <1>5, <1>6, OthersQueued DEF Types
      <4> QED BY <3>1, <4>1, <4>2, <2>1, <2>2, <1>1, FlightMoves
    <3>2. CASE task.id # 0
      <4>1. /\ entry.inflight.prev \in Nat /\ entry.inflight.last = task.last /\ Reach(entry.inflight.prev)
            /\ \A i \in 1..Len(notes) : Mine(notes[i]) => Reach(notes[i].log)
            /\ chan.data = NoInflight
        BY <3>2, <2>1, InChannel DEF FlightOK
      <4>2. n.kind = "matching" => /\ entry.inflight.prev <= n.log /\ n.log <= entry.inflight.last
                                   /\ \A i \in 1..Len(notes) : Mine(notes[i]) => notes[i].log <= n.log
        BY <4>1, <1>1, <1>5 DEF Reach, TaskOK
      <4>3. CASE task'.id = 0
        <5>1. CASE notes' = Append(notes, n)
          BY <5>1, <4>2, <4>3, <3>2, <2>1, <1>1, <1>5, TaskReports
        <5>2. CASE notes' = notes
          <6>1. \A x : Mine(x)' <=> Mine(x)
            BY <1>1 DEF Mine
          <6>2. entry.inflight.kind = "logs"
            BY <3>2, InChannel
          <6>3. Reports(entry.inflight)' /\ entry'.inflight = entry.inflight
            BY <5>2, <6>1, <6>2, <2>1, <1>1 DEF FlightOK, Reports
          <6> QED BY <5>2, <6>1, <6>2, <6>3, <4>1, <4>3, <2>1, <1>1 DEF FlightOK, NoInflight
        <5> QED BY <5>1, <5>2, <1>6
      <4>4. CASE task'.id # 0
        <5>0. task'.id = task.id /\ task'.last = task.last /\ n.kind = "matching" /\ n.log < task.last
          BY <4>4, <1>2, <1>3, <1>5 DEF TaskTypeOK
        <5>1. \A x \in Nat : Reach(x) => Reach(x)'
          BY <4>4, <1>11
        <5>2. Reach(n.log)'
          BY <4>4, <1>2, <1>5, <1>10
        <5>3. CASE notes' = Append(notes, n)
          BY <5>0, <5>1, <5>2, <5>3, <4>2, <3>2, <2>1, <1>1, <1>5, TaskReports
        <5>4. CASE notes' = notes
          BY <5>0, <5>1, <5>4, <2>1, <2>2, <1>1, FlightMoves
        <5> QED BY <5>3, <5>4, <1>6
      <4> QED BY <4>3, <4>4
    <3> QED BY <3>1, <3>2
  <2> QED BY <2>1, <2>3, <1>1, <1>3 DEF RunOK
<1>15. core = "join" => JoinOK'
  <2> SUFFICES ASSUME core = "join" PROVE JoinOK'
    OBVIOUS
  <2>1. JoinOK
    BY DEF FlowInv
  <2>2. \A i \in 1..Len(notes') : notes'[i].session < session'
    <3>1. CASE notes' = notes
      BY <3>1, <2>1, <1>1, <1>6 DEF JoinOK
    <3>2. CASE notes' = Append(notes, n)
      <4>2. /\ Len(notes) \in Nat /\ Len(notes') = Len(notes) + 1
            /\ notes'[Len(notes) + 1] = n
            /\ \A i \in 1..Len(notes) : notes'[i] = notes[i]
        BY <3>2, <1>1, <1>5, Queued DEF Types
      <4>3. \A i \in 1..Len(notes') : i \in 1..Len(notes) \/ i = Len(notes) + 1
        BY <4>2
      <4> QED BY <4>2, <4>3, <2>1, <1>1, <1>5 DEF JoinOK
    <3> QED BY <3>1, <3>2, <1>6
  <2> QED BY <2>1, <2>2, <1>1, <1>3 DEF JoinOK
<1> QED BY <1>1, <1>8, <1>12, <1>13, <1>14, <1>15 DEF FlowInv

RequestSet == [kind : {"append", "heartbeat", "snapshot"}, prev : Nat, last : Nat, commit : Nat, live : BOOLEAN]

\* The request r reaches the follower, as far as q.
Delivered(r, q) ==
  /\ r \in wire /\ r \in RequestSet /\ q \in RequestSet
  /\ q.kind = r.kind /\ q.live = r.live /\ q.prev = r.prev
  /\ r.prev <= q.last /\ q.last <= r.last /\ r.last <= lead.last
  /\ r.kind # "append" => r.prev = r.last
  /\ follower' = Handled(follower, q) /\ Answered(q, Answer(follower, q))
  /\ wire' = wire \ {r}
  /\ UNCHANGED <<lead, entry, nextId, core, session, chan, notes, panic>>
  /\ core # "gone"

\* Both ways in which a request reaches the follower.
LEMMA Delivering ==
  ASSUME Types, Deliver \/ DeliverPart
  PROVE  \E r, q : Delivered(r, q)
<1>1. \A r \in wire : /\ r \in RequestSet /\ r.prev <= r.last /\ r.last <= lead.last
                      /\ r.kind # "append" => r.prev = r.last
  BY DEF Types, WireOK, RequestSet
<1>2. lead.last \in Nat
  BY DEF Types, LeadOK
<1>3. CASE Deliver
  <2>1. PICK r \in wire : /\ follower' = Handled(follower, r)
                          /\ Answered(r, Answer(follower, r))
                          /\ wire' = wire \ {r}
    BY <1>3 DEF Deliver
  <2>2. r.prev \in Nat /\ r.last \in Nat
    BY <1>1 DEF RequestSet
  <2>3. Delivered(r, r)
    BY <2>1, <2>2, <1>1, <1>3 DEF Delivered, Deliver
  <2> QED BY <2>3
<1>4. CASE DeliverPart
  <2>0. PICK r \in wire : \E upto \in r.prev .. r.last - 1 :
          LET part == [r EXCEPT !.last = upto]
          IN  /\ r.kind = "append" /\ r.live
              /\ follower' = Handled(follower, part)
              /\ Answered(part, Answer(follower, part))
              /\ wire' = wire \ {r}
    BY <1>4 DEF DeliverPart
  <2>1. PICK upto \in r.prev .. r.last - 1 :
          LET part == [r EXCEPT !.last = upto]
          IN  /\ r.kind = "append" /\ r.live
              /\ follower' = Handled(follower, part)
              /\ Answered(part, Answer(follower, part))
              /\ wire' = wire \ {r}
    BY <2>0
  <2>2. r \in RequestSet /\ r.prev \in Nat /\ r.last \in Nat /\ r.prev <= r.last /\ r.last <= lead.last
    BY <1>1 DEF RequestSet
  <2> DEFINE q == [r EXCEPT !.last = upto]
  <2>3. upto \in Nat /\ r.prev <= upto /\ upto <= r.last
    BY <2>2
  <2>4. q \in RequestSet /\ q.kind = r.kind /\ q.live = r.live /\ q.prev = r.prev /\ q.last = upto
    BY <2>2, <2>3 DEF RequestSet
  <2>5. follower' = Handled(follower, q) /\ Answered(q, Answer(follower, q)) /\ wire' = wire \ {r}
        /\ r.kind = "append"
    BY <2>1
  <2> HIDE DEF q
  <2>6. Delivered(r, q)
    BY <2>2, <2>3, <2>4, <2>5, <1>4 DEF Delivered, DeliverPart
  <2> QED BY <2>6
<1> QED BY <1>3, <1>4

\* What a follower does with a request.
LEMMA Follows ==
  ASSUME FollowerOK, NEW q \in RequestSet, q.prev <= q.last, follower' = Handled(follower, q)
  PROVE  /\ FollowerOK' /\ follower.match <= follower'.match /\ follower'.wiped = follower.wiped
         /\ Answer(follower, q) = "matching" => q.last <= follower'.match
         /\ Answer(follower, q) \in {"matching", "conflict", "higher"}
         /\ Answer(follower, q) = "conflict" => q.kind # "snapshot" /\ follower.match < q.prev
<1> DEFINE F == [match : Nat, last : Nat, committed : Nat, higher : BOOLEAN, wiped : BOOLEAN]
<1>1. /\ follower \in F /\ follower.match \in Nat /\ follower.last \in Nat /\ follower.committed \in Nat
      /\ follower.committed <= follower.match /\ follower.match <= follower.last
      /\ q.prev \in Nat /\ q.last \in Nat /\ q.commit \in Nat
  BY DEF FollowerOK, RequestSet
<1>2. /\ Answer(follower, q) \in {"matching", "conflict", "higher"}
      /\ Answer(follower, q) = "conflict" => q.kind # "snapshot" /\ follower.match < q.prev
  BY <1>1 DEF Answer
<1>3. CASE Answer(follower, q) # "matching"
  BY <1>1, <1>2, <1>3 DEF Handled, FollowerOK
<1>4. ASSUME NEW m \in Nat, NEW l \in Nat, NEW c \in Nat,
             follower' = [follower EXCEPT !.match = m, !.last = l, !.committed = c],
             m >= follower.match, c <= m, m <= l, q.last <= m, Answer(follower, q) = "matching"
      PROVE  /\ FollowerOK' /\ follower.match <= follower'.match /\ follower'.wiped = follower.wiped
             /\ Answer(follower, q) = "matching" => q.last <= follower'.match
  <2>1. follower' \in F
    BY <1>1, <1>4
  <2>2. follower'.match = m /\ follower'.last = l /\ follower'.committed = c /\ follower'.wiped = follower.wiped
    BY <1>1, <1>4
  <2> QED BY <2>1, <2>2, <1>4, <1>1 DEF FollowerOK
<1>5. CASE Answer(follower, q) = "matching" /\ q.kind # "snapshot"
  <2> DEFINE m == Larger(follower.match, q.last)
             l == IF q.last > follower.match THEN q.last ELSE follower.last
             c == Larger(follower.committed, Smaller(q.commit, q.last))
  <2>1. m \in Nat /\ l \in Nat /\ c \in Nat /\ m >= follower.match /\ c <= m /\ m <= l /\ q.last <= m
    BY <1>1 DEF Larger, Smaller
  <2>2. follower' = [follower EXCEPT !.match = m, !.last = l, !.committed = c]
    BY <1>1, <1>5 DEF Handled, FollowerAppend
  <2> HIDE DEF m, l, c
  <2> QED BY <2>1, <2>2, <1>2, <1>4, <1>5
<1>6. CASE Answer(follower, q) = "matching" /\ q.kind = "snapshot" /\ q.last > follower.committed
  <2> DEFINE m == Larger(follower.match, q.last)
             l == IF q.last > follower.match THEN q.last ELSE follower.last
  <2>1. m \in Nat /\ l \in Nat /\ m >= follower.match /\ q.last <= m /\ m <= l
    BY <1>1 DEF Larger
  <2>2. follower' = [follower EXCEPT !.match = m, !.last = l, !.committed = q.last]
    BY <1>1, <1>6 DEF Handled, FollowerInstall
  <2> HIDE DEF m, l
  <2> QED BY <2>1, <2>2, <1>1, <1>2, <1>4, <1>6
<1>7. CASE Answer(follower, q) = "matching" /\ q.kind = "snapshot" /\ ~ (q.last > follower.committed)
  <2>1. follower' = follower
    BY <1>1, <1>7 DEF Handled, FollowerInstall
  <2> QED BY <2>1, <1>1, <1>2, <1>7 DEF FollowerOK
<1> QED BY <1>2, <1>3, <1>5, <1>6, <1>7

\* The answer takes the place of the request.
LEMMA DeliverFlows ==
  ASSUME FlowInv, NEW r, NEW q, Delivered(r, q)
  PROVE  FlowInv'
<1>1. /\ UNCHANGED <<lead, entry, nextId, core, session, chan, notes>>
      /\ core # "gone" /\ wire' = wire \ {r} /\ r \in wire
      /\ Types /\ TaskTypeOK /\ TaskOK /\ WireOK /\ FollowerOK /\ HeartbeatOK /\ SnapperOK
  BY DEF Delivered, FlowInv, Types
<1>2. /\ q \in RequestSet /\ r \in RequestSet /\ r.prev \in Nat /\ r.last \in Nat /\ q.last \in Nat
      /\ q.kind = r.kind /\ q.live = r.live /\ q.prev = r.prev /\ q.live \in BOOLEAN
      /\ q.prev <= q.last /\ q.last <= r.last /\ r.last <= lead.last /\ lead.last \in Nat
      /\ q.kind \in {"append", "heartbeat", "snapshot"}
  BY <1>1 DEF Delivered, RequestSet, Types, LeadOK
<1>3. PICK a : a = Answer(follower, q)
  OBVIOUS
<1>4. /\ FollowerOK' /\ a \in {"matching", "conflict", "higher"}
      /\ a = "conflict" => q.kind # "snapshot"
  BY <1>1, <1>2, <1>3, Follows DEF Delivered
<1>5. Answered(q, a)
  BY <1>3 DEF Delivered
<1>6. \A kind : Live(kind)' = Live(kind) \ {r}
  BY <1>1 DEF Live
<1>7. r.live => r \in Live(r.kind)
  BY <1>1 DEF Live
<1>8. WireOK' /\ LeadOK' /\ EntryOK' /\ NotesOK' /\ ChanOK'
  <2>1. WireOK'
    BY <1>1 DEF WireOK
  <2> QED BY <2>1, <1>1, TypesLast DEF Types, LeadOK
<1>9. ASSUME ~ (q.live /\ q.kind = "append")
      PROVE  task' = task /\ Live("append")' = Live("append")
  <2>1. task' = task
    BY <1>5, <1>9 DEF Answered
  <2>2. r \notin Live("append")
    BY <1>2, <1>9 DEF Live
  <2> QED BY <2>1, <2>2, <1>6
<1>10. ASSUME q.live, q.kind = "append"
       PROVE  /\ task' \in [pc : {"idle", "read", "wait", "answered"}, id : Nat,
                            rest : [prev : Nat, last : Int], last : Nat,
                            answer : [kind : {"none", "matching", "conflict", "higher"}, log : Nat],
                            committed : Nat, remote : Nat, session : Nat]
              /\ task'.pc = "answered" /\ task'.answer.kind = a
              /\ task'.answer.log = IF a = "conflict" THEN q.prev ELSE q.last
              /\ task'.rest = task.rest /\ task'.id = task.id /\ task'.last = task.last
              /\ task'.remote = task.remote /\ task'.session = task.session
              /\ Live("append") = {r} /\ Live("append")' = {} /\ task.pc = "wait"
              /\ RestAfter(r.last) /\ r.last <= task.last
              /\ task.rest = NoRange => r.last = task.last
  <2> DEFINE A == [kind |-> a, log |-> IF a = "conflict" THEN q.prev ELSE q.last]
  <2>1. task' = [task EXCEPT !.pc = "answered", !.answer = A]
    BY <1>5, <1>10 DEF Answered
  <2>2. /\ A \in [kind : {"none", "matching", "conflict", "higher"}, log : Nat]
        /\ A.kind = a /\ A.log = IF a = "conflict" THEN q.prev ELSE q.last
    BY <1>2, <1>4
  <2> HIDE DEF A
  <2>3. /\ task' \in [pc : {"idle", "read", "wait", "answered"}, id : Nat,
                            rest : [prev : Nat, last : Int], last : Nat,
                            answer : [kind : {"none", "matching", "conflict", "higher"}, log : Nat],
                            committed : Nat, remote : Nat, session : Nat]
        /\ task'.pc = "answered" /\ task'.answer = A
        /\ task'.rest = task.rest /\ task'.id = task.id /\ task'.last = task.last
        /\ task'.remote = task.remote /\ task'.session = task.session
    BY <2>1, <2>2, <1>1 DEF TaskTypeOK
  <2>4. r \in Live("append")
    BY <1>2, <1>7, <1>10
  <2>5. Live("append") = {r}
    BY <2>4, <1>1 DEF TaskOK
  <2>6. Live("append")' = {}
    BY <2>5, <1>6
  <2>7. RestAfter(r.last) /\ task.pc = "wait" /\ (task.rest = NoRange => r.last = task.last)
    BY <2>4, <1>1 DEF TaskOK
  <2>8. r.last <= task.last
    BY <2>7, <1>1, <1>2 DEF RestAfter, TaskTypeOK
  <2> QED BY <2>2, <2>3, <2>5, <2>6, <2>7, <2>8
<1>11. TaskTypeOK' /\ task'.id = task.id /\ task'.last = task.last /\ task'.session = task.session
  <2>1. CASE q.live /\ q.kind = "append"
    BY <2>1, <1>1, <1>2, <1>10 DEF TaskTypeOK, Index
  <2>2. CASE ~ (q.live /\ q.kind = "append")
    BY <2>2, <1>1, <1>9 DEF TaskTypeOK, Index
  <2> QED BY <2>1, <2>2
<1>12. \A x \in Nat : Reach(x) => Reach(x)'
  <2>1. CASE q.live /\ q.kind = "append"
    <3>1. \A x \in Nat : Reach(x) => x <= r.prev
      BY <2>1, <1>10 DEF Reach
    <3> QED BY <3>1, <2>1, <1>2, <1>4, <1>10 DEF Reach
  <2>2. CASE ~ (q.live /\ q.kind = "append")
    BY <2>2, <1>9 DEF Reach
  <2> QED BY <2>1, <2>2
<1>13. TaskOK'
  <2>0. task.id # 0 => Reach(lead.purged)'
    <3>1. PICK p \in Nat : p = lead.purged
      BY <1>1 DEF Types, LeadOK
    <3>2. task.id # 0 => Reach(p)'
      BY <3>1, <1>1, <1>12 DEF TaskOK
    <3> QED BY <3>1, <3>2, <1>1 DEF Reach
  <2>1. CASE q.live /\ q.kind = "append"
    <3>1. task'.answer.kind # "none"
      BY <2>1, <1>4, <1>10
    <3>2. task'.answer.kind = "matching" => RestAfter(task'.answer.log) /\ task'.answer.log <= task'.last
      <4>1. task'.answer.kind = "matching" => task'.answer.log = q.last
        BY <2>1, <1>10
      <4>2. RestAfter(r.last) /\ task.rest.prev \in Nat /\ task.last \in Nat
        BY <2>1, <1>10, <1>1 DEF TaskTypeOK
      <4>3. RestAfter(q.last) /\ q.last <= task.last
        BY <4>2, <2>1, <1>2, <1>10 DEF RestAfter
      <4> QED BY <4>1, <4>3, <1>11
    <3>3. task'.id = 0 => /\ task'.last = task'.remote /\ task'.rest = NoRange
                          /\ task'.answer.kind = "matching" => task'.answer.log = task'.remote
      <4>1. task.id = 0 => task.last = task.remote /\ task.rest = NoRange /\ r.prev = task.remote
        BY <2>1, <1>1, <1>10 DEF TaskOK
      <4> QED BY <4>1, <2>1, <1>1, <1>2, <1>10 DEF TaskTypeOK
    <3>4. \A x : RestAfter(x)' <=> RestAfter(x)
      BY <2>1, <1>10 DEF RestAfter
    <3> QED BY <3>1, <3>2, <3>3, <3>4, <2>0, <2>1, <1>1, <1>10 DEF TaskOK, RestAfter
  <2>2. CASE ~ (q.live /\ q.kind = "append")
    BY <2>0, <2>2, <1>1, <1>9, TaskLasts DEF TaskOK, Reach
  <2> QED BY <2>1, <2>2
<1>14. HbOK' /\ HeartbeatOK' /\ (core = "join" => hb' = hb)
  <2>1. CASE q.live /\ q.kind = "heartbeat"
    <3>1. hb' = [hb EXCEPT !.pc = "answered", !.answer = a]
      BY <2>1, <1>5 DEF Answered
    <3>2. /\ hb' \in [pc : {"idle", "wait", "answered"}, matching : Nat, session : Nat,
                      answer : {"none", "matching", "conflict", "higher"}]
          /\ hb'.matching = hb.matching /\ hb'.session = hb.session /\ hb'.pc = "answered" /\ hb'.answer = a
      BY <3>1, <1>1, <1>4 DEF HeartbeatOK
    <3>3. HeartbeatOK'
      BY <3>2, <1>1 DEF HeartbeatOK, Index
    <3>4. r \in Live("heartbeat")
      BY <2>1, <1>2, <1>7
    <3>5. Live("heartbeat")' = {}
      BY <3>4, <1>6 DEF FlowInv, HbOK
    <3>6. core # "join"
      BY <3>4 DEF FlowInv, HbOK, JoinOK
    <3> QED BY <3>2, <3>3, <3>5, <3>6, <1>4 DEF HbOK
  <2>2. CASE ~ (q.live /\ q.kind = "heartbeat")
    <3>1. hb' = hb
      BY <2>2, <1>5 DEF Answered
    <3> QED BY <3>1, <1>1, <1>6 DEF FlowInv, HbOK, HeartbeatOK, Index
  <2> QED BY <2>1, <2>2
<1>15. /\ SnapOK' /\ SnapperOK' /\ (core = "join" => snapper' = snapper)
       /\ snapper'.pc = "idle" <=> snapper.pc = "idle"
       /\ snapper'.id = snapper.id /\ snapper'.session = snapper.session
  <2>1. CASE q.live /\ q.kind = "snapshot"
    <3>1. snapper' = [snapper EXCEPT !.pc = "answered", !.answer = a]
      BY <2>1, <1>5 DEF Answered
    <3>2. /\ snapper' \in [pc : {"idle", "wait", "answered"}, id : Nat, log : Nat, session : Nat,
                           answer : {"none", "matching", "conflict", "higher"}]
          /\ snapper'.log = snapper.log /\ snapper'.session = snapper.session /\ snapper'.pc = "answered"
          /\ snapper'.answer = a /\ snapper'.id = snapper.id
      BY <3>1, <1>1, <1>4 DEF SnapperOK
    <3>3. SnapperOK'
      BY <3>2, <1>1 DEF SnapperOK, Index
    <3>4. r \in Live("snapshot")
      BY <2>1, <1>2, <1>7
    <3>5. Live("snapshot")' = {} /\ snapper.pc = "wait" /\ snapper.log <= lead.snap
      BY <3>4, <1>6 DEF FlowInv, SnapOK
    <3>6. core # "join"
      BY <3>5 DEF FlowInv, JoinOK
    <3>7. SnapOK'
      BY <3>2, <3>5, <2>1, <1>1, <1>4 DEF SnapOK
    <3> QED BY <3>2, <3>3, <3>5, <3>6, <3>7
  <2>2. CASE ~ (q.live /\ q.kind = "snapshot")
    <3>1. snapper' = snapper
      BY <2>2, <1>5 DEF Answered
    <3> QED BY <3>1, <1>1, <1>6 DEF FlowInv, SnapOK, SnapperOK, Index
  <2> QED BY <2>1, <2>2
<1>16. Types'
  BY <1>1, <1>4, <1>8, <1>11, <1>14, <1>15 DEF Types
<1>17. core = "run" => RunOK'
  <2> SUFFICES ASSUME core = "run" PROVE RunOK'
    OBVIOUS
  <2>1. RunOK /\ FlightOK
    BY DEF FlowInv, RunOK
  <2>2. entry.inflight.kind = "logs" => entry.inflight.prev >= lead'.purged
    BY <1>1, <2>1 DEF FlightOK
  <2>3. FlightOK'
    BY <2>1, <2>2, <1>1, <1>11, <1>12, <1>15, FlightMoves
  <2> QED BY <2>1, <2>3, <1>1, <1>11 DEF RunOK
<1>18. core = "join" => JoinOK'
  BY <1>1, <1>11, <1>14, <1>15 DEF FlowInv, JoinOK
<1> QED BY <1>1, <1>13, <1>14, <1>15, <1>16, <1>17, <1>18 DEF FlowInv
----------------------------------------------------------------------------
(* A notification is taken.                                                *)

\* What is in flight after update_progress.
StillInflight(n) ==
  CASE n.id = 0            -> entry.inflight
    [] n.id # 0 /\ n.kind = "matching" -> Ack(entry.inflight, n.log, n.id)
    [] n.id # 0 /\ n.kind = "conflict" -> ConflictInflight(entry.inflight, n.id)
    [] n.id # 0 /\ n.kind = "error"    -> NoInflight

\* update_progress: the entry is well-typed.
LEMMA EntryUpdated ==
  ASSUME Types, NEW n \in NoteSet, n.log \in Index, n.kind \in {"matching", "conflict", "error"},
         n.kind = "error" => n.id # 0,
         entry' = CASE n.kind = "matching" -> MatchingUpdated(entry, n.log, n.id)
                    [] n.kind = "conflict" -> UpdateConflicting(entry, n.log, n.id)
                    [] n.kind = "error"    -> [entry EXCEPT !.inflight = NoInflight]
  PROVE  /\ entry' \in [matching : Nat, inflight : Inflights, searchingEnd : Int, allow : BOOLEAN]
         /\ entry'.matching \in Index /\ entry'.searchingEnd \in -1 .. lead.last
         /\ entry'.inflight = StillInflight(n)
<1> DEFINE E == StillInflight(n)
           S == [matching : Nat, inflight : Inflights, searchingEnd : Int, allow : BOOLEAN]
<1>1. /\ entry \in S /\ entry.matching \in Nat /\ entry.searchingEnd \in Int /\ entry.allow \in BOOLEAN
      /\ entry.matching \in Index /\ entry.searchingEnd \in -1 .. lead.last /\ lead.last \in Nat
      /\ entry.inflight \in Inflights /\ n.log \in Nat /\ n.id \in Nat /\ n.log <= lead.last
  BY DEF Types, EntryOK, LeadOK, NoteSet, Index
<1>2. NoInflight \in Inflights
  BY DEF Inflights
<1>3. /\ Ack(entry.inflight, n.log, n.id) \in Inflights
      /\ ConflictInflight(entry.inflight, n.id) \in Inflights
  <2>1. CASE entry.inflight.kind = "logs" /\ entry.inflight.id = n.id
    <3>1. entry.inflight.last \in Nat /\ entry.inflight.last <= lead.last
      BY <2>1, <1>1 DEF Inflights, NoInflight
    <3>2. InflightLogs(n.log, entry.inflight.last, n.id) \in Inflights
      BY <3>1, <1>1, <1>2 DEF Inflights, InflightLogs
    <3> QED BY <3>2, <2>1, <1>2 DEF Ack, ConflictInflight
  <2>2. CASE ~ (entry.inflight.kind = "logs" /\ entry.inflight.id = n.id)
    BY <2>2, <1>1, <1>2 DEF Ack, ConflictInflight
  <2> QED BY <2>1, <2>2
<1>4. CASE n.kind = "matching"
  <2>1. E = IF n.id = 0 THEN entry.inflight ELSE Ack(entry.inflight, n.log, n.id)
    BY <1>1, <1>4 DEF StillInflight
  <2>2. entry' = MatchingUpdated(entry, n.log, n.id)
    BY <1>4
  <2>3. E \in Inflights
    BY <2>1, <1>1, <1>3
  <2> HIDE DEF E
  <2>4. CASE n.id = 0 /\ n.log <= entry.matching
    BY <2>1, <2>2, <2>4, <1>1 DEF MatchingUpdated, E
  <2>5. CASE ~ (n.id = 0 /\ n.log <= entry.matching)
    <3> DEFINE end == Larger(entry.searchingEnd, n.log)
    <3>1. entry' = [entry EXCEPT !.inflight = E, !.matching = n.log, !.searchingEnd = end]
      BY <2>1, <2>2, <2>5 DEF MatchingUpdated
    <3>2. end \in -1 .. lead.last /\ end \in Int
      BY <1>1 DEF Larger
    <3> HIDE DEF end
    <3> QED BY <3>1, <3>2, <2>3, <1>1 DEF E
  <2> QED BY <2>4, <2>5
<1>5. CASE n.kind = "conflict"
  <2>1. E = IF n.id = 0 THEN entry.inflight ELSE ConflictInflight(entry.inflight, n.id)
    BY <1>1, <1>5 DEF StillInflight
  <2>2. entry' = UpdateConflicting(entry, n.log, n.id)
    BY <1>5
  <2>3. E \in Inflights
    BY <2>1, <1>1, <1>3
  <2> DEFINE reset == (entry.allow \/ left.reversion) /\ n.log - 1 < entry.matching
  <2> HIDE DEF E
  <2>4. CASE n.log - 1 >= entry.searchingEnd
    <3>1. entry' = [entry EXCEPT !.inflight = E]
      BY <2>1, <2>2, <2>4 DEF UpdateConflicting
    <3> QED BY <3>1, <2>3, <1>1 DEF E
  <2>5. CASE ~ (n.log - 1 >= entry.searchingEnd)
    <3> DEFINE matching == IF reset THEN 0 ELSE entry.matching
               end == n.log - 1
               allow == entry.allow /\ ~ reset
    <3>1. entry' = [matching |-> matching, inflight |-> E, searchingEnd |-> end, allow |-> allow]
      BY <2>1, <2>2, <2>5 DEF UpdateConflicting
    <3>2. end \in -1 .. lead.last /\ end \in Int /\ matching \in Index /\ matching \in Nat
      BY <1>1 DEF Index
    <3>3. allow \in BOOLEAN
      OBVIOUS
    <3> HIDE DEF matching, end, allow
    <3>4. entry' \in S
      BY <3>1, <3>2, <3>3, <2>3
    <3> QED BY <3>1, <3>2, <3>4 DEF E
  <2> QED BY <2>4, <2>5
<1>6. CASE n.kind = "error"
  <2>1. StillInflight(n) = NoInflight
    BY <1>6 DEF StillInflight
  <2>2. entry' = [entry EXCEPT !.inflight = NoInflight]
    BY <1>6
  <2> QED BY <2>1, <2>2, <1>1, <1>2
<1> QED BY <1>4, <1>5, <1>6

\* What is said of what is in flight once a notification is taken.
LEMMA FlightTaken ==
  ASSUME FlowInv, core = "run", notes # <<>>, notes' = Tail(notes), Head(notes).kind # "higher",
         Head(notes).session = session,
         UNCHANGED <<session, chan, task, snapper>>, Live("append")' = Live("append"),
         NEW inf, inf = StillInflight(Head(notes)), entry'.inflight = inf
  PROVE  /\ inf.kind = "logs" => inf.prev \in Nat /\ inf.prev >= lead.purged
         /\ task.id # 0 => inf.kind = "logs" /\ Reach(inf.prev)
         /\ (inf.kind = "logs" => inf.prev >= lead'.purged) => FlightOK'
<1> DEFINE n == Head(notes)
           old == entry.inflight
<1>1. /\ old \in Inflights /\ FlightOK /\ NotesOK /\ Types /\ lead.purged \in Nat
      /\ old.kind \in {"none", "logs", "snapshot"}
      /\ old.kind = "logs" => old.prev \in Nat /\ old.last \in Nat /\ old.prev < old.last
  BY DEF FlowInv, RunOK, Types, EntryOK, Inflights, NoInflight, LeadOK
<1>2. /\ Len(notes) \in Nat \ {0} /\ Len(notes') = Len(notes) - 1
      /\ n = notes[1] /\ n \in NoteSet /\ 1 \in 1..Len(notes)
      /\ \A i \in 1..Len(notes') : notes'[i] = notes[i + 1] /\ i + 1 \in 1..Len(notes) /\ 1 < i + 1
      /\ \A i, j \in 1..Len(notes') : i < j => i + 1 < j + 1
  BY <1>1, Taken
<1>3. /\ n.id \in Nat /\ n.log \in Nat /\ n.kind \in {"matching", "conflict", "error"}
      /\ \A i \in 1..Len(notes) : notes[i].log \in Nat
      /\ n.kind = "error" => n.id # 0
  BY <1>1, <1>2, NoteTypes DEF NoteSet, NotesOK
<1>4. /\ \A x : Mine(x)' <=> Mine(x)
      /\ \A x : Reach(x)' <=> Reach(x)
  BY DEF Mine, Reach
<1>5. \A x : Reports(x) => Reports(x)'
  <2> SUFFICES ASSUME NEW x, Reports(x) PROVE Reports(x)'
    OBVIOUS
  <2>1. \A i \in 1..Len(notes') : Mine(notes'[i]) =>
          /\ notes'[i].id = x.id
          /\ notes'[i].kind = "matching" => x.prev <= notes'[i].log /\ notes'[i].log <= x.last
    BY <1>2 DEF Reports
  <2>2. \A i, j \in 1..Len(notes') : Mine(notes'[i]) /\ Mine(notes'[j]) /\ i < j =>
          /\ notes'[i].kind = "matching" /\ notes'[i].log < x.last
          /\ notes'[j].kind = "matching" => notes'[i].log <= notes'[j].log
    BY <1>2 DEF Reports
  <2> QED BY <2>1, <2>2, <1>4 DEF Reports
<1>6. NoneMine => NoneMine'
  BY <1>2, <1>4 DEF NoneMine
<1> HIDE DEF n
<1>7. ASSUME inf = old
      PROVE  /\ inf.kind = "logs" => inf.prev \in Nat /\ inf.prev >= lead.purged
             /\ task.id # 0 => inf.kind = "logs" /\ Reach(inf.prev)
             /\ (inf.kind = "logs" => inf.prev >= lead'.purged) => FlightOK'
  <2>1. inf.kind = "logs" => inf.prev \in Nat /\ inf.prev >= lead.purged
    BY <1>1, <1>7 DEF FlightOK
  <2>2. task.id # 0 => inf.kind = "logs" /\ Reach(inf.prev)
    BY <1>1, <1>7 DEF FlightOK
  <2>3. CASE inf.kind = "none"
    BY <2>1, <2>2, <2>3, <1>1, <1>6, <1>7 DEF FlightOK, NoInflight
  <2>4. CASE inf.kind = "logs"
    <3>1. task.id # 0 => \A i \in 1..Len(notes') : Mine(notes'[i]) =>
            notes'[i].kind = "matching" /\ notes'[i].log < inf.last /\ Reach(notes'[i].log)
      BY <2>4, <1>1, <1>2, <1>7 DEF FlightOK
    <3> QED BY <2>1, <2>2, <2>4, <3>1, <1>1, <1>4, <1>5, <1>6, <1>7 DEF FlightOK, NoInflight
  <2>5. CASE inf.kind = "snapshot"
    <3>1. \A i \in 1..Len(notes') : Mine(notes'[i]) =>
            notes'[i].id = inf.id /\ notes'[i].kind = "matching" /\ snapper.pc = "idle"
      BY <2>5, <1>1, <1>2, <1>7 DEF FlightOK
    <3>2. \A i, j \in 1..Len(notes') : Mine(notes'[i]) /\ Mine(notes'[j]) => i = j
      <4>1. \A i, j \in 1..Len(notes') : Mine(notes'[i]) /\ Mine(notes'[j]) => i + 1 = j + 1
        BY <2>5, <1>1, <1>2, <1>7 DEF FlightOK
      <4> QED BY <4>1
    <3> QED BY <2>1, <2>2, <2>5, <3>1, <3>2, <1>1, <1>4, <1>7 DEF FlightOK, NoInflight
  <2> QED BY <2>3, <2>4, <2>5, <1>1, <1>7
<1>8. CASE n.id = 0
  BY <1>7, <1>8 DEF StillInflight, n
<1>9. CASE n.id # 0
  <2>1. Mine(n)
    BY <1>9 DEF Mine, n
  <2>2. ASSUME inf = NoInflight, task.id = 0, chan.data = NoInflight, snapper.pc = "idle", NoneMine'
        PROVE  /\ inf.kind = "logs" => inf.prev \in Nat /\ inf.prev >= lead.purged
               /\ task.id # 0 => inf.kind = "logs" /\ Reach(inf.prev)
               /\ (inf.kind = "logs" => inf.prev >= lead'.purged) => FlightOK'
    BY <2>2 DEF FlightOK, NoInflight
  <2>3. CASE old.kind = "none"
    BY <2>1, <2>3, <1>1, <1>2 DEF FlightOK, NoneMine
  <2>4. CASE old.kind = "snapshot"
    <3>1. n.id = old.id /\ n.kind = "matching" /\ snapper.pc = "idle" /\ chan.data = NoInflight /\ task.id = 0
      BY <2>1, <2>4, <1>1, <1>2 DEF FlightOK
    <3>2. inf = NoInflight
      BY <3>1, <2>4, <1>9 DEF StillInflight, Ack, n
    <3>3. \A i \in 1..Len(notes') : ~ Mine(notes'[i])
      <4> SUFFICES ASSUME NEW i \in 1..Len(notes'), Mine(notes'[i]) PROVE FALSE
        OBVIOUS
      <4>1. i + 1 = 1
        BY <2>1, <2>4, <1>1, <1>2 DEF FlightOK
      <4> QED BY <4>1
    <3> QED BY <2>2, <3>1, <3>2, <3>3, <1>4 DEF NoneMine
  <2>5. CASE old.kind = "logs"
    <3>1. /\ snapper.pc = "idle" /\ Reports(old) /\ old.id # 0 /\ n.id = old.id
          /\ chan.data = NoInflight /\ old.prev >= lead.purged
      BY <2>1, <2>5, <1>1, <1>2 DEF FlightOK, Reports, NoneMine
    <3>2. task.id # 0 => /\ task.id = old.id /\ task.last = old.last
                         /\ n.kind = "matching" /\ n.log < old.last /\ Reach(n.log)
                         /\ \A i \in 1..Len(notes') : Mine(notes'[i]) =>
                              notes'[i].kind = "matching" /\ notes'[i].log < old.last /\ Reach(notes'[i].log)
      BY <2>1, <2>5, <1>1, <1>2 DEF FlightOK
    <3>3. n.kind = "matching" => old.prev <= n.log /\ n.log <= old.last
      BY <2>1, <3>1, <1>2 DEF Reports
    <3>4. \A i \in 1..Len(notes') : Mine(notes'[i]) =>
            /\ n.kind = "matching" /\ n.log < old.last
            /\ notes'[i].kind = "matching" => n.log <= notes'[i].log
      BY <2>1, <3>1, <1>2 DEF Reports
    <3>5. CASE n.kind = "matching" /\ n.log < old.last
      <4>1. inf = [kind |-> "logs", prev |-> n.log, last |-> old.last, id |-> old.id]
        BY <2>5, <3>1, <3>5, <1>9 DEF StillInflight, Ack, InflightLogs, n
      <4>2. inf.kind = "logs" /\ inf.prev = n.log /\ inf.last = old.last /\ inf.id = old.id
        BY <4>1
      <4>3. Reports(inf)'
        <5>1. PICK o : o = old
          OBVIOUS
        <5>2. Reports(o)'
          BY <3>1, <5>1, <1>5
        <5> QED BY <3>4, <4>2, <5>1, <5>2, <1>4 DEF Reports
      <4>4. inf.prev \in Nat /\ inf.prev >= lead.purged
        BY <4>2, <2>5, <3>1, <3>3, <3>5, <1>1, <1>3
      <4>5. task.id # 0 => Reach(inf.prev)
        BY <4>2, <3>2
      <4>6. (inf.kind = "logs" => inf.prev >= lead'.purged) => FlightOK'
        BY <4>2, <4>3, <4>5, <3>1, <3>2, <1>4 DEF FlightOK, NoInflight
      <4> QED BY <4>2, <4>4, <4>5, <4>6
    <3>6. CASE ~ (n.kind = "matching" /\ n.log < old.last)
      <4>1. inf = NoInflight
        <5>1. CASE n.kind = "matching"
          BY <5>1, <2>5, <3>1, <3>3, <3>6, <1>1, <1>3, <1>9 DEF StillInflight, Ack, InflightLogs, n
        <5>2. CASE n.kind # "matching"
          BY <5>2, <2>5, <3>1, <1>3, <1>9 DEF StillInflight, ConflictInflight, n
        <5> QED BY <5>1, <5>2
      <4>2. NoneMine'
        BY <3>4, <3>6, <1>4 DEF NoneMine
      <4>3. task.id = 0
        BY <3>2, <3>6
      <4> QED BY <2>2, <3>1, <4>1, <4>2, <4>3
    <3> QED BY <3>5, <3>6
  <2> QED BY <2>3, <2>4, <2>5, <1>1
<1> QED BY <1>8, <1>9

\* handle_notification: the rest of the reports still fits the entry.
LEMMA HandleNotificationFlows ==
  ASSUME FlowInv, HandleNotification
  PROVE  FlowInv'
<1> DEFINE n == Head(notes)
<1>1. /\ UNCHANGED <<nextId, session, chan, task, hb, snapper, wire, follower>>
      /\ core = "run" /\ notes # <<>> /\ notes' = Tail(notes)
      /\ IF n.kind = "higher" THEN core' = "gone" /\ UNCHANGED <<lead, entry>>
         ELSE /\ core' = core
              /\ IF n.session = session THEN UpdateProgress(n) ELSE UNCHANGED <<lead, entry>>
      /\ Types /\ RunOK /\ NotesOK /\ TaskOK
  BY DEF HandleNotification, FlowInv, SessionMatches, Types
<1>2. /\ Len(notes) \in Nat \ {0} /\ Len(notes') = Len(notes) - 1 /\ notes' \in Seq(NoteSet)
      /\ n = notes[1] /\ n \in NoteSet /\ 1 \in 1..Len(notes)
      /\ \A i \in 1..Len(notes') : notes'[i] = notes[i + 1] /\ i + 1 \in 1..Len(notes)
  BY <1>1, Taken
<1>3. /\ n.kind \in {"matching", "conflict", "error", "higher"} /\ n.log \in Index
      /\ n.kind = "error" => n.id # 0
  BY <1>1, <1>2 DEF NotesOK, NoteSet
<1>4. \A kind : Live(kind)' = Live(kind)
  BY <1>1 DEF Live
<1>5. HbOK' /\ (lead.snap <= lead'.snap => SnapOK')
  <2>1. lead.snap <= lead'.snap /\ lead'.snap \in Nat => SnapOK'
    BY <1>1, <1>4 DEF FlowInv, SnapOK, Types, LeadOK, SnapperOK
  <2>2. lead'.snap = lead.snap
    <3>1. UpdateProgress(n) => lead'.snap = lead.snap
      BY DEF UpdateProgress, TryPurgeLog, Types, LeadOK
    <3>2. lead.purged \in Nat
      BY <1>1 DEF Types, LeadOK
    <3> QED BY <1>1, <3>1
  <2>3. lead'.snap \in Nat
    BY <2>2, <1>1 DEF Types, LeadOK
  <2> QED BY <2>1, <2>3, <1>1, <1>4 DEF FlowInv, HbOK
<1> HIDE DEF n
<1>6. CASE UNCHANGED <<lead, entry>>
  <2>1. NotesOK'
    <3>1. \A i \in 1..Len(notes') : /\ notes'[i].log \in Index' /\ notes'[i].session <= session'
                                    /\ notes'[i].kind = "error" => notes'[i].id # 0
      BY <1>1, <1>2, <1>6 DEF NotesOK, Index
    <3> QED BY <3>1, <1>2 DEF NotesOK, NoteSet
  <2>2. Types'
    <3>1. LeadOK' /\ EntryOK' /\ FollowerOK' /\ TaskTypeOK' /\ HeartbeatOK' /\ SnapperOK' /\ ChanOK' /\ WireOK'
      BY <1>1, <1>6, TypesLast DEF Types, LeadOK
    <3> QED BY <2>1, <3>1, <1>1 DEF Types
  <2>3. TaskOK'
    BY <1>1, <1>4, <1>6, TaskLasts DEF TaskOK
  <2>4. lead.snap <= lead'.snap
    BY <1>1, <1>6 DEF Types, LeadOK
  <2>5. core' = "run" => RunOK'
    <3> SUFFICES ASSUME core' = "run" PROVE RunOK'
      OBVIOUS
    <3>1. n.kind # "higher"
      BY <1>1 DEF n
    <3>2. CASE n.session = session
      <4>1. PICK inf : inf = StillInflight(n)
        OBVIOUS
      <4>2. CASE inf = entry.inflight
        <5>1. inf.kind = "logs" => inf.prev \in Nat /\ inf.prev >= lead'.purged
          BY <4>2, <1>1, <1>6 DEF RunOK, FlightOK, Types, EntryOK, Inflights, NoInflight
        <5> QED BY <3>1, <3>2, <4>1, <4>2, <5>1, <1>1, <1>4, <1>6, FlightTaken DEF RunOK, n
      <4>3. CASE inf # entry.inflight
        <5>1. UpdateProgress(n)
          BY <3>1, <3>2, <1>1
        <5>2. entry'.inflight = StillInflight(n)
          BY <5>1, <3>1, <1>1, <1>2, <1>3, EntryUpdated DEF UpdateProgress
        <5> QED BY <5>2, <4>1, <4>3, <1>6
      <4> QED BY <4>2, <4>3
    <3>3. CASE n.session # session
      <4>1. ~ Mine(notes[1])
        BY <3>3, <1>2 DEF Mine
      <4>2. FlightOK /\ entry' = entry /\ lead' = lead
        BY <1>1, <1>6 DEF RunOK
      <4>3. \A x : Mine(x)' <=> Mine(x)
        BY <1>1 DEF Mine
      <4>4. \A x : Reach(x)' <=> Reach(x)
        BY <1>1, <1>4 DEF Reach
      <4>5. \A i \in 1..Len(notes') : notes'[i] = notes[i + 1] /\ i + 1 \in 1..Len(notes)
        BY <1>2
      <4>6. \A i, j \in 1..Len(notes') : (i < j => i + 1 < j + 1) /\ (i + 1 = j + 1 => i = j)
        BY <1>2
      <4>7. CASE entry.inflight.kind = "none"
        BY <4>2, <4>3, <4>5, <4>7, <1>1 DEF FlightOK, NoneMine, RunOK
      <4>8. CASE entry.inflight.kind = "snapshot"
        <5>1. \A i \in 1..Len(notes') : Mine(notes'[i]) =>
                notes'[i].id = entry.inflight.id /\ notes'[i].kind = "matching" /\ snapper.pc = "idle"
          BY <4>2, <4>5, <4>8 DEF FlightOK
        <5>2. \A i, j \in 1..Len(notes') : Mine(notes'[i]) /\ Mine(notes'[j]) => i = j
          <6>1. \A i, j \in 1..Len(notes') : Mine(notes'[i]) /\ Mine(notes'[j]) => i + 1 = j + 1
            BY <4>2, <4>5, <4>8 DEF FlightOK
          <6> QED BY <6>1, <4>6
        <5> QED BY <4>2, <4>3, <4>8, <5>1, <5>2, <1>1 DEF FlightOK, RunOK
      <4>9. CASE entry.inflight.kind = "logs"
        <5>1. NoneMine => NoneMine'
          BY <4>3, <4>5 DEF NoneMine
        <5>2. Reports(entry.inflight)'
          <6>1. Reports(entry.inflight)
            BY <4>2, <4>9 DEF FlightOK
          <6>2. \A i \in 1..Len(notes') : Mine(notes'[i]) =>
                  /\ notes'[i].id = entry.inflight.id
                  /\ notes'[i].kind = "matching" =>
                       entry.inflight.prev <= notes'[i].log /\ notes'[i].log <= entry.inflight.last
            BY <6>1, <4>5 DEF Reports
          <6>3. \A i, j \in 1..Len(notes') : Mine(notes'[i]) /\ Mine(notes'[j]) /\ i < j =>
                  /\ notes'[i].kind = "matching" /\ notes'[i].log < entry.inflight.last
                  /\ notes'[j].kind = "matching" => notes'[i].log <= notes'[j].log
            BY <6>1, <4>5, <4>6 DEF Reports
          <6> QED BY <6>2, <6>3, <4>2, <4>3 DEF Reports
        <5>3. task.id # 0 => \A i \in 1..Len(notes') : Mine(notes'[i]) =>
                notes'[i].kind = "matching" /\ notes'[i].log < entry.inflight.last /\ Reach(notes'[i].log)
          BY <4>2, <4>5, <4>9 DEF FlightOK
        <5>4. FlightOK'
          BY <4>2, <4>3, <4>4, <4>9, <5>1, <5>2, <5>3, <1>1 DEF FlightOK
        <5> QED BY <5>4, <1>1 DEF RunOK
      <4>10. entry.inflight.kind \in {"none", "logs", "snapshot"}
        BY <1>1 DEF Types, EntryOK, Inflights, NoInflight
      <4> QED BY <4>7, <4>8, <4>9, <4>10
    <3> QED BY <3>2, <3>3
  <2> QED BY <2>2, <2>3, <2>4, <2>5, <1>1, <1>5 DEF FlowInv
<1>7. CASE ~ UNCHANGED <<lead, entry>>
  <2>1. UpdateProgress(n) /\ n.session = session /\ core' = "run" /\ n.kind # "higher"
    BY <1>1, <1>7 DEF n
  <2>2. /\ entry' \in [matching : Nat, inflight : Inflights, searchingEnd : Int, allow : BOOLEAN]
        /\ entry'.matching \in Index /\ entry'.searchingEnd \in -1 .. lead.last
        /\ entry'.inflight = StillInflight(n)
    BY <2>1, <1>1, <1>2, <1>3, EntryUpdated DEF UpdateProgress
  <2>3. PICK e : e = entry'
    OBVIOUS
  <2>4. lead' = TryPurgeLog(lead, e) /\ e.inflight \in Inflights
    BY <2>1, <2>2, <2>3 DEF UpdateProgress
  <2>5. PICK inf : inf = StillInflight(n)
    OBVIOUS
  <2>6. /\ inf.kind = "logs" => inf.prev \in Nat /\ inf.prev >= lead.purged
        /\ task.id # 0 => inf.kind = "logs" /\ Reach(inf.prev)
        /\ (inf.kind = "logs" => inf.prev >= lead'.purged) => FlightOK'
    BY <2>1, <2>2, <2>5, <1>1, <1>4, FlightTaken DEF n
  <2>7. /\ LeadOK' /\ lead'.last = lead.last /\ lead'.snap = lead.snap /\ lead'.purged \in Nat
        /\ inf.kind = "logs" => inf.prev >= lead'.purged
        /\ inf.kind # "logs" \/ lead'.purged <= inf.prev
    <3> DEFINE L == [last : Nat, committed : Nat, snap : Nat, purgeUpto : Nat, purged : Nat]
    <3>1. /\ lead \in L /\ lead.purged <= lead.purgeUpto /\ lead.purgeUpto <= lead.snap
          /\ lead.snap <= lead.committed /\ lead.committed <= lead.last
      BY <1>1 DEF Types, LeadOK
    <3>2. PICK l : l = lead
      OBVIOUS
    <3>3. PICK m : m = TryPurgeLog(l, e)
      OBVIOUS
    <3>4. /\ m \in L
          /\ m.last = l.last /\ m.committed = l.committed /\ m.snap = l.snap
          /\ m.purgeUpto = l.purgeUpto /\ m.purged <= m.purgeUpto /\ l.purged <= m.purged
          /\ e.inflight.kind = "logs" /\ l.purged <= e.inflight.prev => m.purged <= e.inflight.prev
      BY <3>1, <3>2, <3>3, <2>4, Purged
    <3>5. e.inflight = inf /\ lead' = m
      BY <3>2, <3>3, <2>2, <2>3, <2>4, <2>5
    <3>6. m.purged \in Nat /\ l.purged \in Nat
      BY <3>1, <3>2, <3>4
    <3> QED BY <3>1, <3>2, <3>4, <3>5, <3>6, <2>6 DEF LeadOK
  <2>8. lead.last \in Nat /\ session \in Nat
    BY <1>1 DEF Types, LeadOK
  <2>9. Index' = Index /\ Inflights' = Inflights
    BY <2>7 DEF Index, Inflights
  <2>10. EntryOK'
    BY <2>2, <2>7, <2>9 DEF EntryOK
  <2>11. NotesOK'
    <3>1. \A i \in 1..Len(notes') : /\ notes'[i].log \in Index' /\ notes'[i].session <= session'
                                    /\ notes'[i].kind = "error" => notes'[i].id # 0
      BY <1>1, <1>2, <2>9 DEF NotesOK
    <3> QED BY <3>1, <1>2 DEF NotesOK, NoteSet
  <2>12. Types'
    <3>1. FollowerOK' /\ TaskTypeOK' /\ HeartbeatOK' /\ SnapperOK' /\ ChanOK' /\ WireOK'
      BY <1>1, <2>7, <2>8, TypesLast DEF Types
    <3> QED BY <2>1, <2>7, <2>10, <2>11, <3>1, <1>1 DEF Types
  <2>13. FlightOK' /\ RunOK'
    BY <2>6, <2>7, <1>1 DEF RunOK
  <2>14. TaskOK'
    <3>1. task.id # 0 => Reach(lead'.purged)
      BY <2>6, <2>7, <1>1, ReachDown
    <3>2. Live("append")' = Live("append")
      BY <1>4
    <3> QED BY <3>1, <3>2, <1>1, TaskLasts
  <2>15. lead.snap <= lead'.snap
    BY <2>7, <1>1 DEF Types, LeadOK
  <2> QED BY <2>1, <2>12, <2>13, <2>14, <2>15, <1>5 DEF FlowInv
<1> QED BY <1>6, <1>7
----------------------------------------------------------------------------
(* Something new is sent.                                                  *)

\* next_send: a range above what matches and what may be purged, or a snapshot.
LEMMA NextSends ==
  ASSUME Types, NEW id \in Nat \ {0}, NEW inf, inf = NextSend(entry, id)
  PROVE  /\ inf \in Inflights
         /\ inf.kind = "logs" => /\ inf.id = id /\ lead.purgeUpto <= inf.prev /\ inf.prev \in Nat
                                 /\ entry.matching <= entry.searchingEnd => entry.matching <= inf.prev
         /\ inf.kind = "snapshot" => inf.id = id /\ entry.searchingEnd < lead.purgeUpto
<1> DEFINE mid == CalcMid(entry.matching, entry.searchingEnd)
           start == Larger(mid, lead.purgeUpto)
           end == Smaller(start + MaxPayload, lead.last)
<1>1. /\ entry.matching \in Nat /\ entry.searchingEnd \in Int /\ lead.purgeUpto \in Nat /\ lead.last \in Nat
      /\ MaxPayload \in Nat \ {0}
  BY ReplicationAssumption DEF Types, EntryOK, LeadOK
<1>2. mid \in Int /\ (entry.matching <= entry.searchingEnd => entry.matching <= mid)
  <2>1. PICK from \in Int, to \in Int : from = entry.matching /\ to = entry.searchingEnd
    BY <1>1
  <2>2. CalcMid(from, to) \in Int /\ (from <= to => from <= CalcMid(from, to))
    BY Mid
  <2> QED BY <2>1, <2>2
<1>3. inf = IF entry.searchingEnd < lead.purgeUpto THEN InflightSnapshot(id) ELSE InflightLogs(start, end, id)
  BY DEF NextSend
<1> HIDE DEF mid
<1>4. /\ start \in Nat /\ lead.purgeUpto <= start /\ mid <= start
      /\ entry.matching <= entry.searchingEnd => entry.matching <= start
  BY <1>1, <1>2 DEF Larger
<1> HIDE DEF start
<1>5. end \in Nat /\ end <= lead.last
  BY <1>1, <1>4 DEF Smaller
<1> HIDE DEF end
<1>6. CASE entry.searchingEnd < lead.purgeUpto
  <2>1. inf = [kind |-> "snapshot", id |-> id]
    BY <1>3, <1>6 DEF InflightSnapshot
  <2> QED BY <2>1, <1>6 DEF Inflights
<1>7. CASE ~ (entry.searchingEnd < lead.purgeUpto) /\ start < end
  <2>1. inf = [kind |-> "logs", prev |-> start, last |-> end, id |-> id]
    BY <1>3, <1>7 DEF InflightLogs
  <2>2. inf \in [kind : {"logs"}, prev : Nat, last : Nat, id : Nat] /\ inf.prev < inf.last /\ inf.last <= lead.last
        /\ inf.kind = "logs" /\ inf.id = id /\ inf.prev = start
    BY <2>1, <1>4, <1>5, <1>7
  <2>3. inf \in Inflights
    BY <2>2 DEF Inflights
  <2> QED BY <2>2, <2>3, <1>4
<1>8. CASE ~ (entry.searchingEnd < lead.purgeUpto) /\ ~ (start < end)
  <2>1. inf = NoInflight
    BY <1>3, <1>8 DEF InflightLogs
  <2> QED BY <2>1 DEF Inflights, NoInflight
<1> QED BY <1>6, <1>7, <1>8

\* initiate_replication: the new range is in the channel, or the snapshot at the
\* transmitter.
LEMMA InitiateFlows ==
  ASSUME FlowInv, InitiateReplication
  PROVE  FlowInv'
<1>1. PICK inf : inf = NextSend(entry, nextId + 1)
  OBVIOUS
<1>2. /\ UNCHANGED <<lead, core, session, task, hb, notes, follower>>
      /\ core = "run" /\ entry.inflight = NoInflight /\ inf # NoInflight
      /\ entry' = [entry EXCEPT !.inflight = inf] /\ nextId' = nextId + 1
      /\ inf.kind = "logs" => chan' = [chan EXCEPT !.data = inf] /\ UNCHANGED <<snapper, wire>>
      /\ inf.kind # "logs" => SpawnTransmitter(nextId + 1) /\ UNCHANGED chan
      /\ Types /\ RunOK
  BY <1>1 DEF InitiateReplication, FlowInv
<1>3. nextId + 1 \in Nat \ {0} /\ session \in Nat /\ lead.last \in Nat /\ lead.snap \in Nat
      /\ lead.snap <= lead.last /\ lead.purged \in Nat /\ lead.purgeUpto \in Nat /\ lead.purged <= lead.purgeUpto
  BY <1>2 DEF Types, LeadOK
<1>4. /\ inf \in Inflights
      /\ inf.kind = "logs" => inf.id = nextId + 1 /\ lead.purgeUpto <= inf.prev /\ inf.prev \in Nat
      /\ inf.kind = "snapshot" => inf.id = nextId + 1
  BY <1>1, <1>2, <1>3, NextSends
<1>5. inf.kind \in {"logs", "snapshot"}
  BY <1>2, <1>4 DEF Inflights, NoInflight
<1>6. FlightOK /\ chan.data = NoInflight /\ task.id = 0 /\ snapper.pc = "idle" /\ NoneMine
  BY <1>2 DEF RunOK, FlightOK, NoInflight
<1>7. EntryOK' /\ entry'.inflight = inf
  BY <1>2, <1>4 DEF Types, EntryOK, Inflights, Index
<1>8. NoneMine'
  BY <1>2, <1>6 DEF NoneMine, Mine
<1>9. LeadOK' /\ FollowerOK' /\ TaskTypeOK' /\ HeartbeatOK' /\ NotesOK' /\ Inflights' = Inflights
  <2>1. LeadOK' /\ FollowerOK' /\ TaskTypeOK' /\ HeartbeatOK' /\ NotesOK'
    BY <1>2, <1>3, TypesLast DEF Types, LeadOK
  <2> QED BY <2>1, <1>2 DEF Inflights
<1>10. CASE inf.kind = "logs"
  <2>1. ChanOK' /\ chan'.data = inf /\ UNCHANGED <<snapper, wire>>
    BY <1>2, <1>4, <1>9, <1>10 DEF Types, ChanOK
  <2>2. SnapperOK' /\ WireOK'
    BY <2>1, <1>2, <1>3, TypesLast DEF Types, LeadOK
  <2>3. Types'
    BY <2>1, <2>2, <1>2, <1>3, <1>7, <1>9 DEF Types
  <2>4. \A kind : Live(kind)' = Live(kind)
    BY <2>1 DEF Live
  <2>5. TaskOK' /\ HbOK' /\ SnapOK'
    BY <2>1, <2>4, <1>2, <1>6, TaskLasts DEF FlowInv, HbOK, SnapOK
  <2>6. FlightOK'
    <3>1. Reports(inf)'
      BY <1>8 DEF Reports, NoneMine
    <3>2. inf.prev >= lead'.purged
      BY <1>2, <1>3, <1>4, <1>10
    <3> QED BY <2>1, <3>1, <3>2, <1>2, <1>3, <1>4, <1>6, <1>7, <1>8, <1>10 DEF FlightOK
  <2> QED BY <2>3, <2>5, <2>6, <1>2 DEF FlowInv, RunOK
<1>11. CASE inf.kind = "snapshot"
  <2>1. PICK r : r = SnapshotRequest(lead.snap)
    OBVIOUS
  <2>2. /\ r \in RequestSet /\ r.prev = lead.snap /\ r.last = lead.snap /\ r.live /\ r.kind = "snapshot"
    BY <2>1, <1>3 DEF SnapshotRequest, RequestSet
  <2>3. /\ snapper' = [pc |-> "wait", id |-> nextId + 1, log |-> lead.snap, session |-> session, answer |-> "none"]
        /\ wire' = wire \cup {r} /\ UNCHANGED chan
    BY <2>1, <1>2, <1>11 DEF SpawnTransmitter
  <2>4. SnapperOK'
    BY <2>3, <1>2, <1>3 DEF SnapperOK, Index
  <2>5. WireOK'
    BY <2>2, <2>3, <1>2, <1>3 DEF Types, WireOK, RequestSet
  <2>6. ChanOK'
    BY <2>3, <1>2, <1>9 DEF Types, ChanOK
  <2>7. Types'
    BY <2>4, <2>5, <2>6, <1>2, <1>3, <1>7, <1>9 DEF Types
  <2>8. /\ Live("append")' = Live("append") /\ Live("heartbeat")' = Live("heartbeat")
        /\ Live("snapshot")' = {r}
    <3>1. \A kind : Live(kind)' = Live(kind) \cup IF r.kind = kind THEN {r} ELSE {}
      BY <2>2, <2>3, Sent
    <3>2. Live("snapshot") = {}
      BY <1>6 DEF FlowInv, SnapOK
    <3> QED BY <3>1, <3>2, <2>2
  <2>9. TaskOK' /\ HbOK'
    BY <2>8, <1>2, <1>6, TaskLasts DEF FlowInv, HbOK
  <2>10. SnapOK'
    BY <2>2, <2>3, <2>8, <1>2, <1>3 DEF SnapOK
  <2>11. FlightOK'
    BY <2>3, <1>2, <1>3, <1>4, <1>6, <1>7, <1>8, <1>11 DEF FlightOK, NoneMine
  <2> QED BY <2>7, <2>9, <2>10, <2>11, <1>2 DEF FlowInv, RunOK
<1> QED BY <1>5, <1>10, <1>11

----------------------------------------------------------------------------

\* Nothing is in flight when the leader is elected.
LEMMA FlowInit == ReplicationInit => FlowInv
<1> SUFFICES ASSUME ReplicationInit PROVE FlowInv
  OBVIOUS
<1>1. FirstPurged \in Nat /\ FirstLast \in Nat /\ FirstPurged <= FirstLast
  BY ReplicationAssumption
<1>2. LeadOK
  BY <1>1 DEF ReplicationInit, LeadOK
<1>3. EntryOK
  BY <1>1 DEF ReplicationInit, EntryOK, EmptyEntry, Inflights, Index
<1>4. FollowerOK
  BY ReplicationAssumption DEF ReplicationInit, FollowerOK
<1>5. TaskTypeOK
  BY <1>1 DEF ReplicationInit, TaskTypeOK, NewTask, NoRange, NoAnswer, Index
<1>6. ChanOK /\ HeartbeatOK /\ SnapperOK
  BY <1>1 DEF ReplicationInit, ChanOK, NewChannels, Inflights, HeartbeatOK, IdleHeartbeat, SnapperOK,
              IdleTransmitter, Index
<1>7. WireOK /\ NotesOK
  BY <1>1 DEF ReplicationInit, WireOK, NotesOK
<1>8. Types
  BY <1>2, <1>3, <1>4, <1>5, <1>6, <1>7 DEF ReplicationInit, Types
<1>9. Live("append") = {} /\ Live("heartbeat") = {} /\ Live("snapshot") = {} /\ notes = <<>>
  BY DEF ReplicationInit, Live
<1>10. TaskOK
  BY <1>9 DEF ReplicationInit, TaskOK, NewTask
<1>11. HbOK /\ SnapOK
  BY <1>9, <1>1 DEF ReplicationInit, HbOK, SnapOK, IdleHeartbeat, IdleTransmitter
<1>12. RunOK
  BY <1>9 DEF ReplicationInit, RunOK, FlightOK, NoneMine, NewTask, NewChannels, EmptyEntry, NoInflight,
              IdleTransmitter
<1> QED BY <1>8, <1>10, <1>11, <1>12 DEF FlowInv, ReplicationInit

\* Every step keeps track of what is in flight.
LEMMA FlowStep == FlowInv /\ [ReplicationNext]_repVars => FlowInv'
<1> SUFFICES ASSUME FlowInv, [ReplicationNext]_repVars PROVE FlowInv'
  OBVIOUS
<1>1. CASE HandleNotification
  BY <1>1, HandleNotificationFlows
<1>2. CASE InitiateReplication
  BY <1>2, InitiateFlows
<1>3. CASE \/ WriteEntry \/ Commit \/ BuildSnapshot \/ TriggerPurgeLog \/ AllowNextRevert
           \/ FollowerVotes \/ Wipe
  BY <1>3, EngineFlows
<1>4. CASE RebuildReplicationStreams \/ SpawnReplicationStream
  BY <1>4, RebuildFlows, SpawnFlows
<1>5. CASE RecvData \/ RecvCommitted
  BY <1>5, RecvDataFlows, RecvCommittedFlows
<1>6. CASE NextRequest
  BY <1>6, NextRequestFlows
<1>7. CASE HandleResponse \/ RpcError
  BY <1>7, HandleResponseFlows, RpcErrorFlows
<1>8. CASE BroadcastHeartbeat \/ HeartbeatDone \/ HeartbeatTimeout
  BY <1>8, BeatFlows
<1>9. CASE SnapshotSent \/ SnapshotRetry
  BY <1>9, SnapshotFlows
<1>10. CASE Deliver \/ DeliverPart
  BY <1>10, Delivering, DeliverFlows DEF FlowInv
<1>11. CASE UNCHANGED repVars
  <2> USE <1>11 DEF repVars
  <2>1. Types'
    <3>1. LeadOK' /\ lead.last <= lead'.last /\ session' \in Nat /\ session <= session'
      BY DEF FlowInv, Types, LeadOK
    <3>2. /\ EntryOK' /\ FollowerOK' /\ TaskTypeOK' /\ ChanOK' /\ HeartbeatOK' /\ SnapperOK'
          /\ WireOK' /\ NotesOK'
      BY <3>1, TypesLast DEF FlowInv
    <3> QED BY <3>1, <3>2 DEF FlowInv, Types
  <2>2. \A kind : Live(kind)' = Live(kind)
    BY DEF Live
  <2>3. TaskOK' /\ HbOK' /\ SnapOK'
    BY <2>2, TaskLasts DEF FlowInv, TaskOK, HbOK, SnapOK
  <2>4. core = "run" => RunOK'
    <3> SUFFICES ASSUME core = "run" PROVE RunOK'
      OBVIOUS
    <3>1. RunOK /\ FlightOK /\ Types
      BY DEF FlowInv, RunOK
    <3>2. entry.inflight.kind = "logs" => entry.inflight.prev >= lead'.purged
      BY <3>1 DEF FlightOK
    <3> QED BY <3>1, <3>2, <2>2, FlightLasts DEF RunOK
  <2>5. core = "join" => JoinOK'
    BY DEF FlowInv, JoinOK
  <2> QED BY <2>1, <2>3, <2>4, <2>5 DEF FlowInv
<1> QED BY <1>1, <1>2, <1>3, <1>4, <1>5, <1>6, <1>7, <1>8, <1>9, <1>10, <1>11 DEF ReplicationNext
----------------------------------------------------------------------------
(* What is known of a follower stays true.                                 *)

\* What RaftCore is told stays told as notifications are added.
LEMMA ToldMore ==
  ASSUME entry.matching \in Int, entry'.matching \in Int, entry.matching <= entry'.matching, UNCHANGED session,
         Len(notes) \in Nat, \A i \in 1..Len(notes) : notes'[i] = notes[i],
         NEW x \in Int, NEW k \in 0..Len(notes), NEW m \in Nat, k <= m, Told(x, k)
  PROVE  Told(x, m)'
<1>1. \A n : Mine(n)' <=> Mine(n)
  BY DEF Mine
<1>2. CASE x <= entry.matching
  BY <1>2 DEF Told
<1>3. CASE \E i \in 1..k : Mine(notes[i]) /\ notes[i].kind = "matching" /\ x <= notes[i].log
  BY <1>1, <1>3 DEF Told
<1> QED BY <1>2, <1>3 DEF Told

\* A notification that may be queued.
Fits(n) ==
  /\ n \in NoteSet
  /\ n.kind = "matching" => n.log <= follower'.match
  /\ Mine(n) => ~ (task'.pc = "answered" /\ task'.answer.kind = "conflict")
  /\ n.session = session /\ n.kind = "conflict" =>
       /\ n.id # 0 /\ entry.matching < n.log
       /\ \A i \in 1..Len(notes) : Mine(notes[i]) => notes[i].log < n.log
  /\ Mine(n) /\ entry.inflight.kind = "snapshot" => entry.matching <= n.log
  /\ n.session = session /\ n.id = 0 /\ n.kind = "matching" /\ core = "run" => Told(n.log, Len(notes))

\* An answer that the task may be given.
AnswerFits ==
  /\ task'.answer.kind = "matching" => task'.answer.log <= follower'.match
  /\ task'.answer.kind = "conflict" =>
       /\ task'.id # 0 /\ notes' = notes
       /\ core = "run" => /\ entry.matching < task'.answer.log
                          /\ \A i \in 1..Len(notes) : Mine(notes[i]) => notes[i].log < task'.answer.log

\* A step that leaves the progress alone: what it queues, answers or sends claims
\* no more of the follower than is true.
LEMMA KnownMoves ==
  ASSUME Types, Types', HeldOK, RefusedOK, ProgressOK,
         UNCHANGED <<session, core>>, follower.match <= follower'.match,
         entry'.matching = entry.matching, entry'.searchingEnd = entry.searchingEnd,
         notes' = notes \/ \E n : Fits(n) /\ notes' = Append(notes, n),
         task'.remote <= follower'.match, core = "run" => Told(task.remote, Len(notes))',
         task'.pc = "answered" => task' = task \/ AnswerFits,
         hb'.pc # "idle" => hb'.matching <= follower'.match,
         hb'.pc = "answered" => hb'.answer # "conflict",
         snapper'.pc = "answered" /\ snapper'.answer = "matching" => snapper'.log <= follower'.match,
         core = "run" => /\ entry'.inflight.kind = "logs" => entry.matching <= entry'.inflight.prev
                         /\ entry'.inflight.kind = "snapshot" =>
                              /\ entry'.inflight = entry.inflight \/ NoneMine'
                              /\ snapper'.pc # "idle" => entry.matching <= snapper'.log
  PROVE  HeldOK' /\ RefusedOK' /\ ProgressOK'
<1>1. /\ entry.matching \in Nat /\ follower.match \in Nat /\ follower'.match \in Nat
      /\ NotesOK /\ Len(notes) \in Nat /\ Len(notes') \in Nat
      /\ \A i \in 1..Len(notes) : notes[i].log \in Nat
      /\ task.answer.log \in Nat
  <2>1. /\ entry.matching \in Nat /\ follower.match \in Nat /\ follower'.match \in Nat
        /\ task.answer.log \in Nat
    BY DEF Types, EntryOK, FollowerOK, TaskTypeOK
  <2>2. NotesOK /\ notes' \in Seq(NoteSet)
    BY DEF Types, NotesOK, NoteSet
  <2> QED BY <2>1, <2>2, NoteTypes
<1>2. /\ Len(notes) <= Len(notes')
      /\ \A i \in 1..Len(notes) : notes'[i] = notes[i]
      /\ \A j \in 1..Len(notes') : j \in 1..Len(notes) \/ (j = Len(notes) + 1 /\ Fits(notes'[j]))
  <2>1. CASE notes' = notes
    BY <2>1, <1>1
  <2>2. ASSUME NEW n, Fits(n), notes' = Append(notes, n)
        PROVE  /\ Len(notes) <= Len(notes')
               /\ \A i \in 1..Len(notes) : notes'[i] = notes[i]
               /\ \A j \in 1..Len(notes') : j \in 1..Len(notes) \/ (j = Len(notes) + 1 /\ Fits(notes'[j]))
    <3>1. /\ Len(notes') = Len(notes) + 1
          /\ notes'[Len(notes) + 1] = n
          /\ \A i \in 1..Len(notes) : notes'[i] = notes[i]
      BY <2>2, <1>1, Queued DEF Fits
    <3> QED BY <3>1, <2>2, <1>1
  <2> QED BY <2>1, <2>2
<1>3. \A x : Mine(x)' <=> Mine(x)
  BY DEF Mine
<1>4. HeldOK'
  <2>1. \A i \in 1..Len(notes') : notes'[i].kind = "matching" => notes'[i].log <= follower'.match
    <3> SUFFICES ASSUME NEW i \in 1..Len(notes'), notes'[i].kind = "matching"
                 PROVE  notes'[i].log <= follower'.match
      OBVIOUS
    <3>1. CASE i \in 1..Len(notes)
      BY <3>1, <1>1, <1>2 DEF HeldOK
    <3>2. CASE i \notin 1..Len(notes)
      BY <3>2, <1>2 DEF Fits
    <3> QED BY <3>1, <3>2
  <2>2. task'.pc = "answered" /\ task'.answer.kind = "matching" => task'.answer.log <= follower'.match
    BY <1>1 DEF HeldOK, AnswerFits
  <2>3. entry'.matching <= follower'.match
    BY <1>1 DEF HeldOK
  <2> QED BY <2>1, <2>2, <2>3 DEF HeldOK
<1>5. RefusedOK'
  <2>1. ASSUME task'.pc = "answered", task'.answer.kind = "conflict"
        PROVE  /\ task'.id # 0
               /\ core' = "run" => /\ entry'.matching < task'.answer.log
                                   /\ \A i \in 1..Len(notes') : Mine(notes'[i]) => notes'[i].log < task'.answer.log
    <3>1. CASE task' = task
      <4>1. \A i \in 1..Len(notes') : Mine(notes'[i]) => i \in 1..Len(notes) /\ notes'[i] = notes[i]
        BY <2>1, <1>2 DEF Fits
      <4> QED BY <3>1, <4>1, <2>1 DEF RefusedOK
    <3>2. CASE AnswerFits
      BY <3>2, <2>1 DEF AnswerFits
    <3> QED BY <3>1, <3>2, <2>1
  <2>2. ASSUME core' # "gone", NEW j \in 1..Len(notes'), notes'[j].session = session', notes'[j].kind = "conflict"
        PROVE  /\ notes'[j].id # 0 /\ entry'.matching < notes'[j].log
               /\ \A i \in 1..(j - 1) : Mine(notes'[i]) => notes'[i].log < notes'[j].log
    <3>1. CASE j \in 1..Len(notes)
      <4>1. \A i \in 1..(j - 1) : i \in 1..Len(notes)
        BY <3>1, <1>1
      <4> QED BY <4>1, <3>1, <2>2, <1>2 DEF RefusedOK
    <3>2. CASE j \notin 1..Len(notes)
      <4>1. j = Len(notes) + 1 /\ Fits(notes'[j])
        BY <3>2, <1>2
      <4>2. \A i \in 1..(j - 1) : i \in 1..Len(notes)
        BY <4>1, <1>1
      <4> QED BY <4>1, <4>2, <2>2, <1>2 DEF Fits
    <3> QED BY <3>1, <3>2
  <2> QED BY <2>1, <2>2, <1>3 DEF RefusedOK
<1>6. ProgressOK'
  <2>1. entry'.matching <= entry'.searchingEnd
    BY DEF ProgressOK
  <2> SUFFICES ASSUME core' = "run"
               PROVE  /\ entry'.inflight.kind = "logs" => entry'.matching <= entry'.inflight.prev
                      /\ entry'.inflight.kind = "snapshot" =>
                           /\ snapper'.pc # "idle" => entry'.matching <= snapper'.log
                           /\ \A i \in 1..Len(notes') : Mine(notes'[i]) => entry'.matching <= notes'[i].log
                      /\ \A i \in 1..Len(notes') :
                           notes'[i].session = session' /\ notes'[i].id = 0 /\ notes'[i].kind = "matching" =>
                             Told(notes[i].log, i - 1)'
    BY <2>1, <1>3 DEF ProgressOK
  <2>2. ASSUME entry'.inflight.kind = "snapshot", NEW i \in 1..Len(notes'), Mine(notes'[i])
        PROVE  entry'.matching <= notes'[i].log
    <3>1. entry'.inflight = entry.inflight
      BY <2>2, <1>3 DEF NoneMine
    <3>2. CASE i \in 1..Len(notes)
      BY <3>1, <3>2, <2>2, <1>2 DEF ProgressOK
    <3>3. CASE i \notin 1..Len(notes)
      BY <3>1, <3>3, <2>2, <1>2 DEF Fits
    <3> QED BY <3>2, <3>3
  <2>3. ASSUME NEW i \in 1..Len(notes'),
               notes'[i].session = session', notes'[i].id = 0, notes'[i].kind = "matching"
        PROVE  Told(notes[i].log, i - 1)'
    <3>1. PICK x \in Int : x = notes'[i].log
      BY <1>1, <1>2 DEF Fits, NoteSet
    <3>2. i - 1 \in 0..Len(notes) /\ i - 1 \in Nat
      BY <1>1, <1>2
    <3>3. Told(x, i - 1)
      <4>1. CASE i \in 1..Len(notes)
        BY <3>1, <4>1, <2>3, <1>2 DEF ProgressOK
      <4>2. CASE i \notin 1..Len(notes)
        <5>1. i = Len(notes) + 1 /\ Fits(notes'[i])
          BY <4>2, <1>2
        <5>2. i - 1 = Len(notes)
          BY <5>1, <1>1
        <5> QED BY <5>1, <5>2, <3>1, <2>3 DEF Fits
      <4> QED BY <4>1, <4>2
    <3>4. Told(x, i - 1)'
      BY <3>2, <3>3, <1>1, <1>2, ToldMore
    <3> QED BY <3>1, <3>4 DEF Told
  <2> QED BY <2>2, <2>3
<1> QED BY <1>4, <1>5, <1>6

\* RaftCore is told of the task's matching log id, as long as that stays.
LEMMA ToldRemote ==
  ASSUME Types, Types', ProgressOK, core = "run", UNCHANGED session, entry'.matching = entry.matching,
         task'.remote = task.remote, notes' = notes \/ \E n \in NoteSet : notes' = Append(notes, n)
  PROVE  Told(task.remote, Len(notes))'
<1>1. PICK x \in Int : x = task.remote
  BY DEF Types, TaskTypeOK
<1>2. Len(notes) \in Nat /\ Len(notes') \in Nat /\ Len(notes) <= Len(notes')
      /\ \A i \in 1..Len(notes) : notes'[i] = notes[i]
  <2>1. CASE notes' = notes
    BY <2>1, NoteTypes DEF Types
  <2>2. ASSUME NEW n \in NoteSet, notes' = Append(notes, n)
        PROVE  Len(notes) \in Nat /\ Len(notes') \in Nat /\ Len(notes) <= Len(notes')
               /\ \A i \in 1..Len(notes) : notes'[i] = notes[i]
    BY <2>2, Queued DEF Types
  <2> QED BY <2>1, <2>2
<1>3. PICK m \in Nat : m = Len(notes')
  BY <1>2
<1>4. entry.matching \in Int /\ entry'.matching \in Int /\ entry.matching <= entry'.matching
  BY DEF Types, EntryOK
<1>5. Told(x, m)'
  <2>1. Told(x, Len(notes))
    BY <1>1 DEF ProgressOK
  <2>2. PICK k \in 0..Len(notes) : k = Len(notes)
    BY <1>2
  <2>3. Told(x, k) /\ k <= m
    BY <2>1, <2>2, <1>2, <1>3
  <2> QED BY <2>3, <1>2, <1>4, ToldMore
<1> QED BY <1>1, <1>3, <1>5 DEF Told

\* The steps that tell nothing.
LEMMA QuietKnown ==
  ASSUME FlowInv, FlowInv', KnownInv, ~ follower.wiped, ~ follower'.wiped,
         \/ WriteEntry \/ Commit \/ BuildSnapshot \/ TriggerPurgeLog \/ AllowNextRevert
         \/ FollowerVotes \/ Wipe \/ RecvData \/ RecvCommitted \/ NextRequest
         \/ BroadcastHeartbeat \/ HeartbeatTimeout \/ SnapshotRetry
  PROVE  KnownInv'
<1> USE DEF Spend
<1>1. HeldOK /\ RefusedOK /\ ProgressOK /\ ~ panic /\ Types /\ Types'
  BY DEF KnownInv, FlowInv
<1>2. UNCHANGED <<session, core, notes>>
  BY DEF WriteEntry, Commit, BuildSnapshot, TriggerPurgeLog, AllowNextRevert, FollowerVotes, Wipe, RecvData,
         RecvCommitted, NextRequest, BroadcastHeartbeat, HeartbeatTimeout, SnapshotRetry
<1>3. follower.match <= follower'.match /\ follower.match \in Nat /\ follower'.match \in Nat
  <2>1. ~ Wipe
    <3>1. follower \in [match : Nat, last : Nat, committed : Nat, higher : BOOLEAN, wiped : BOOLEAN]
      BY <1>1 DEF Types, FollowerOK
    <3>2. Wipe => follower'.wiped = TRUE
      BY <3>1 DEF Wipe
    <3> QED BY <3>2
  <2>2. follower \in [match : Nat, last : Nat, committed : Nat, higher : BOOLEAN, wiped : BOOLEAN]
        /\ follower.match \in Nat /\ follower'.match \in Nat
    BY <1>1 DEF Types, FollowerOK
  <2>3. follower' = follower \/ follower' = [follower EXCEPT !.higher = TRUE]
    BY <2>1 DEF WriteEntry, Commit, BuildSnapshot, TriggerPurgeLog, AllowNextRevert, FollowerVotes, RecvData,
         RecvCommitted, NextRequest, BroadcastHeartbeat, HeartbeatTimeout, SnapshotRetry
  <2>4. follower'.match = follower.match
    BY <2>2, <2>3
  <2> QED BY <2>2, <2>4
<1>4. /\ entry'.matching = entry.matching /\ entry'.searchingEnd = entry.searchingEnd
      /\ entry'.inflight = entry.inflight
  <2>1. entry' = entry \/ entry' = [entry EXCEPT !.allow = TRUE]
    BY DEF WriteEntry, Commit, BuildSnapshot, TriggerPurgeLog, AllowNextRevert, FollowerVotes, Wipe, RecvData,
         RecvCommitted, NextRequest, BroadcastHeartbeat, HeartbeatTimeout, SnapshotRetry
  <2> QED BY <2>1, <1>1 DEF Types, EntryOK
<1>5. /\ task'.remote = task.remote
      /\ task'.pc = "answered" => task' = task
  <2>1. CASE RecvData \/ RecvCommitted
    <3>1. task \in [pc : {"idle", "read", "wait", "answered"}, id : Nat,
                    rest : [prev : Nat, last : Int], last : Nat,
                    answer : [kind : {"none", "matching", "conflict", "higher"}, log : Nat],
                    committed : Nat, remote : Nat, session : Nat]
      BY <1>1 DEF Types, TaskTypeOK
    <3>a. \E id, prev, last, committed : StartStream(id, prev, last, committed)
      BY <2>1, Zenon DEF RecvData, RecvCommitted
    <3>2. PICK id, rest, last, committed :
            task' = [task EXCEPT !.pc = "read", !.id = id, !.rest = rest, !.last = last, !.committed = committed]
      BY <3>a, Zenon DEF StartStream
    <3>3. task'.pc = "read"
      BY <3>1, <3>2
    <3>4. task'.remote = task.remote
      BY <3>1, <3>2
    <3> QED BY <3>3, <3>4
  <2>2. CASE NextRequest
    <3>1. PICK rest : task' = [task EXCEPT !.pc = "wait", !.rest = rest]
      <4>1. task' = [task EXCEPT !.pc = "wait", !.rest = UpdateLogIdRange(@, ReadLogEntries(task.rest))]
        BY <2>2 DEF NextRequest
      <4> QED BY <4>1
    <3> QED BY <3>1, <1>1 DEF Types, TaskTypeOK
  <2>3. CASE ~ (RecvData \/ RecvCommitted \/ NextRequest)
    BY <2>3 DEF WriteEntry, Commit, BuildSnapshot, TriggerPurgeLog, AllowNextRevert, FollowerVotes, Wipe,
                BroadcastHeartbeat, HeartbeatTimeout, SnapshotRetry
  <2> QED BY <2>1, <2>2, <2>3
<1>6. /\ hb'.pc # "idle" => hb'.matching <= follower'.match
      /\ hb'.pc = "answered" => hb'.answer # "conflict"
  <2>1. CASE BroadcastHeartbeat
    <3>1. hb'.pc = "wait" /\ hb'.matching = entry.matching
      BY <2>1, <1>1 DEF BroadcastHeartbeat, Types, HeartbeatOK
    <3>2. entry.matching <= follower.match /\ entry.matching \in Nat
      BY <1>1 DEF HeldOK, Types, EntryOK
    <3> QED BY <3>1, <3>2, <1>3
  <2>2. CASE HeartbeatTimeout
    BY <2>2 DEF HeartbeatTimeout, IdleHeartbeat
  <2>3. CASE ~ (BroadcastHeartbeat \/ HeartbeatTimeout)
    <3>1. hb' = hb
      BY <2>3 DEF WriteEntry, Commit, BuildSnapshot, TriggerPurgeLog, AllowNextRevert, FollowerVotes, Wipe,
                  RecvData, RecvCommitted, NextRequest, SnapshotRetry
    <3>2. hb.matching \in Nat
      BY <1>1 DEF Types, HeartbeatOK
    <3> QED BY <3>1, <3>2, <1>1, <1>3 DEF HeldOK, RefusedOK
  <2> QED BY <2>1, <2>2, <2>3
<1>7. /\ snapper'.pc = "answered" /\ snapper'.answer = "matching" => snapper'.log <= follower'.match
      /\ core = "run" /\ entry.inflight.kind = "snapshot" /\ snapper'.pc # "idle" => entry.matching <= snapper'.log
  <2>1. CASE SnapshotRetry
    <3>1. /\ snapper'.pc = "wait" /\ snapper'.log = lead.snap /\ snapper.pc # "idle" /\ snapper.log <= lead.snap
          /\ snapper.log \in Nat /\ lead.snap \in Nat /\ entry.matching \in Nat
      BY <2>1, <1>1 DEF SnapshotRetry, Types, SnapperOK, FlowInv, SnapOK, LeadOK, EntryOK
    <3> QED BY <3>1, <1>1 DEF ProgressOK
  <2>2. CASE ~ SnapshotRetry
    <3>1. snapper' = snapper
      BY <2>2 DEF WriteEntry, Commit, BuildSnapshot, TriggerPurgeLog, AllowNextRevert, FollowerVotes, Wipe,
                  RecvData, RecvCommitted, NextRequest, BroadcastHeartbeat, HeartbeatTimeout
    <3>2. snapper.log \in Nat
      BY <1>1 DEF Types, SnapperOK
    <3> QED BY <3>1, <3>2, <1>1, <1>3 DEF HeldOK, ProgressOK
  <2> QED BY <2>1, <2>2
<1>8. task'.remote <= follower'.match
  <2>1. task.remote \in Nat /\ task'.remote = task.remote
    BY <1>1, <1>5 DEF Types, TaskTypeOK
  <2>2. task.remote <= follower.match
    BY <1>1 DEF HeldOK
  <2> QED BY <2>1, <2>2, <1>3
<1>9. core = "run" => Told(task.remote, Len(notes))'
  BY <1>1, <1>2, <1>4, <1>5, ToldRemote
<1>10. core = "run" => /\ entry'.inflight.kind = "logs" => entry.matching <= entry'.inflight.prev
                       /\ entry'.inflight.kind = "snapshot" =>
                            /\ entry'.inflight = entry.inflight \/ NoneMine'
                            /\ snapper'.pc # "idle" => entry.matching <= snapper'.log
  BY <1>1, <1>4, <1>7 DEF ProgressOK
<1>11. HeldOK' /\ RefusedOK' /\ ProgressOK'
  BY <1>1, <1>2, <1>3, <1>4, <1>5, <1>6, <1>7, <1>8, <1>9, <1>10, KnownMoves
<1>12. ~ panic'
  <2>1. CASE NextRequest
    <3> DEFINE sent == ReadLogEntries(task.rest)
    <3>1. panic' = (panic \/ (sent.prev < sent.last /\ sent.prev < lead.purged)) /\ task.pc = "read"
      BY <2>1 DEF NextRequest
    <3>2. /\ task.rest.prev \in Nat /\ task.last \in Nat /\ task.rest.last = task.last /\ lead.purged \in Nat
          /\ task.id # 0 => Reach(lead.purged)
          /\ task.id = 0 => task.rest.prev = task.last
      BY <3>1, <1>1 DEF FlowInv, TaskOK, Types, TaskTypeOK, LeadOK
    <3>3. task.id # 0 => lead.purged <= task.rest.prev
      BY <3>1, <3>2 DEF Reach
    <3>4. sent.prev = task.rest.prev /\ (task.id = 0 => sent.last = sent.prev) /\ sent.last \in Nat
      BY <3>2, ReplicationAssumption DEF ReadLogEntries, Smaller
    <3> HIDE DEF sent
    <3>5. ~ (sent.prev < sent.last /\ sent.prev < lead.purged)
      BY <3>2, <3>3, <3>4
    <3> QED BY <3>1, <3>5, <1>1
  <2>2. CASE ~ NextRequest
    <3>1. panic' = panic
      BY <2>2 DEF WriteEntry, Commit, BuildSnapshot, TriggerPurgeLog, AllowNextRevert, FollowerVotes, Wipe, RecvData,
         RecvCommitted, BroadcastHeartbeat, HeartbeatTimeout, SnapshotRetry
    <3> QED BY <3>1, <1>1
  <2> QED BY <2>1, <2>2
<1> QED BY <1>11, <1>12 DEF KnownInv

\* A heartbeat is never refused: it starts where the follower is known to match.
LEMMA BeatKnown ==
  ASSUME FlowInv, FlowInv', KnownInv, ~ follower.wiped, HeartbeatDone
  PROVE  KnownInv'
<1>1. /\ HeldOK /\ RefusedOK /\ ProgressOK /\ ~ panic /\ Types /\ Types'
      /\ UNCHANGED <<lead, entry, core, session, task, snapper, follower, panic>>
      /\ hb' = IdleHeartbeat /\ hb.pc = "answered"
  BY DEF KnownInv, FlowInv, HeartbeatDone
<1>2. /\ hb.answer \in {"matching", "higher"} /\ hb.matching \in Nat /\ hb.session \in Nat
      /\ follower.match \in Nat /\ entry.matching \in Nat /\ task.remote \in Nat
  BY <1>1 DEF RefusedOK, FlowInv, HbOK, Types, HeartbeatOK, FollowerOK, EntryOK, TaskTypeOK
<1>3. notes' = notes \/ \E n : Fits(n) /\ notes' = Append(notes, n)
  <2>1. CASE hb.answer = "matching"
    BY <2>1 DEF HeartbeatDone
  <2>2. CASE hb.answer = "higher"
    <3>1. PICK n : n = Note("higher", hb.matching, 0, hb.session)
      OBVIOUS
    <3>2. notes' = Append(notes, n)
      BY <2>2, <3>1 DEF HeartbeatDone
    <3>3. n \in NoteSet /\ n.kind = "higher" /\ n.id = 0
      BY <3>1, <1>2 DEF Note, NoteSet
    <3>4. Fits(n)
      BY <3>3 DEF Fits, Mine
    <3> QED BY <3>2, <3>4
  <2> QED BY <2>1, <2>2, <1>2
<1>4. core = "run" => Told(task.remote, Len(notes))'
  BY <1>1, <1>3, ToldRemote DEF Fits
<1>5. /\ follower.match <= follower'.match /\ task'.remote <= follower'.match
      /\ snapper'.pc = "answered" /\ snapper'.answer = "matching" => snapper'.log <= follower'.match
  BY <1>1, <1>2 DEF HeldOK
<1>6. hb'.pc = "idle"
  BY <1>1 DEF IdleHeartbeat
<1>7. core = "run" => /\ entry'.inflight.kind = "logs" => entry.matching <= entry'.inflight.prev
                      /\ entry'.inflight.kind = "snapshot" =>
                           /\ entry'.inflight = entry.inflight \/ NoneMine'
                           /\ snapper'.pc # "idle" => entry.matching <= snapper'.log
  BY <1>1 DEF ProgressOK
<1>8. HeldOK' /\ RefusedOK' /\ ProgressOK'
  BY <1>1, <1>3, <1>4, <1>5, <1>6, <1>7, KnownMoves
<1> QED BY <1>1, <1>8 DEF KnownInv

\* What the transmitter reports, the follower has installed.
LEMMA SnapshotKnown ==
  ASSUME FlowInv, FlowInv', KnownInv, ~ follower.wiped, SnapshotSent
  PROVE  KnownInv'
<1>1. /\ HeldOK /\ RefusedOK /\ ProgressOK /\ ~ panic /\ Types /\ Types'
      /\ UNCHANGED <<lead, entry, core, session, task, hb, follower, panic>>
      /\ snapper' = IdleTransmitter /\ snapper.pc = "answered" /\ core = "run" /\ FlightOK
  BY DEF KnownInv, FlowInv, SnapshotSent, Types, RunOK, JoinOK
<1>2. /\ snapper.answer \in {"matching", "higher"} /\ snapper.log \in Nat /\ snapper.session \in Nat
      /\ snapper.id \in Nat /\ hb.matching \in Nat
      /\ follower.match \in Nat /\ entry.matching \in Nat /\ task.remote \in Nat
  BY <1>1 DEF FlowInv, SnapOK, Types, SnapperOK, FollowerOK, EntryOK, TaskTypeOK, HeartbeatOK
<1>3. entry.inflight.kind = "snapshot" /\ snapper.id # 0 /\ task.id = 0
  <2>1. entry.inflight.kind \in {"none", "logs", "snapshot"}
    BY <1>1 DEF Types, EntryOK, Inflights, NoInflight
  <2> QED BY <2>1, <1>1 DEF FlightOK
<1>4. \E n : Fits(n) /\ notes' = Append(notes, n)
  <2>1. CASE snapper.answer = "matching"
    <3>1. PICK n : n = Note("matching", snapper.log, snapper.id, snapper.session)
      OBVIOUS
    <3>2. notes' = Append(notes, n)
      BY <2>1, <3>1 DEF SnapshotSent
    <3>3. n \in NoteSet /\ n.kind = "matching" /\ n.id = snapper.id /\ n.log = snapper.log
      BY <3>1, <1>2 DEF Note, NoteSet
    <3>4. snapper.log <= follower'.match /\ entry.matching <= snapper.log
      BY <2>1, <1>1, <1>3 DEF HeldOK, ProgressOK
    <3>5. ~ (task'.pc = "answered" /\ task'.answer.kind = "conflict")
      BY <1>1, <1>3 DEF RefusedOK
    <3>6. Fits(n)
      BY <3>3, <3>4, <3>5, <1>3 DEF Fits, Mine
    <3> QED BY <3>2, <3>6
  <2>2. CASE snapper.answer = "higher"
    <3>1. PICK n : n = Note("higher", 0, 0, snapper.session)
      OBVIOUS
    <3>2. notes' = Append(notes, n)
      BY <2>2, <3>1 DEF SnapshotSent
    <3>3. n \in NoteSet /\ n.kind = "higher" /\ n.id = 0
      BY <3>1, <1>2 DEF Note, NoteSet
    <3>4. Fits(n)
      BY <3>3 DEF Fits, Mine
    <3> QED BY <3>2, <3>4
  <2> QED BY <2>1, <2>2, <1>2
<1>5. Told(task.remote, Len(notes))'
  BY <1>1, <1>4, ToldRemote DEF Fits
<1>6. /\ follower.match <= follower'.match /\ task'.remote <= follower'.match
      /\ hb'.pc # "idle" => hb'.matching <= follower'.match
      /\ hb'.pc = "answered" => hb'.answer # "conflict"
      /\ snapper'.pc = "idle"
  BY <1>1, <1>2 DEF HeldOK, RefusedOK, IdleTransmitter
<1>7. HeldOK' /\ RefusedOK' /\ ProgressOK'
  BY <1>1, <1>3, <1>4, <1>5, <1>6, KnownMoves
<1> QED BY <1>1, <1>7 DEF KnownInv

\* What the task reports is what it was answered.
LEMMA TaskKnown ==
  ASSUME FlowInv, FlowInv', KnownInv, ~ follower.wiped, RpcError \/ HandleResponse
  PROVE  KnownInv'
<1>1. /\ HeldOK /\ RefusedOK /\ ProgressOK /\ ~ panic /\ Types /\ Types' /\ TaskOK
      /\ UNCHANGED <<lead, entry, core, session, hb, snapper, follower, panic>>
      /\ core # "gone" /\ task.pc \in {"wait", "answered"}
  BY DEF KnownInv, FlowInv, RpcError, HandleResponse
<1>2. /\ task.id \in Nat /\ task.session \in Nat /\ task.answer.log \in Nat /\ task.remote \in Nat
      /\ task.remote \in Index /\ hb.matching \in Nat /\ follower.match \in Nat /\ entry.matching \in Nat
      /\ snapper.log \in Nat /\ task.session <= session /\ session \in Nat
  BY <1>1 DEF Types, TaskTypeOK, HeartbeatOK, FollowerOK, EntryOK, SnapperOK
<1>3. /\ core = "run" => task.session = session
      /\ core = "run" /\ task.id # 0 => entry.inflight.kind = "logs"
      /\ core = "join" => task.session # session /\ entry.inflight.kind = "none"
      /\ core \in {"run", "join"}
  <2>1. core = "join" => task.session < session /\ entry.inflight.kind = "none"
    BY DEF FlowInv, JoinOK, NoInflight
  <2>2. core = "run" /\ task.id # 0 => entry.inflight.kind = "logs"
    BY InChannel
  <2>3. core = "run" => task.session = session
    BY DEF FlowInv, RunOK
  <2> QED BY <2>1, <2>2, <2>3, <1>1, <1>2 DEF Types
<1>4. ASSUME RpcError
      PROVE  /\ notes' = notes \/ \E n : Fits(n) /\ notes' = Append(notes, n)
             /\ task'.pc = "idle" /\ task'.remote = task.remote
             /\ core = "run" => Told(task.remote, Len(notes))'
  <2>1. task'.pc = "idle" /\ task'.remote = task.remote
    <3>1. task' = Idle(task)
      BY <1>4 DEF RpcError
    <3> QED BY <3>1, <1>1, <1>2, Idled
  <2>2. notes' = notes \/ \E n : Fits(n) /\ notes' = Append(notes, n)
    <3>1. PICK n : n = Note("error", 0, task.id, task.session)
      OBVIOUS
    <3>2. notes' = IF task.id = 0 THEN notes ELSE Append(notes, n)
      BY <1>4, <3>1 DEF RpcError, SendProgressError
    <3>3. n \in NoteSet /\ n.kind = "error" /\ n.id = task.id /\ n.session = task.session
      BY <3>1, <1>2 DEF Note, NoteSet
    <3>4. task.id # 0 => Fits(n)
      BY <3>3, <2>1, <1>3 DEF Fits, Mine
    <3> QED BY <3>2, <3>4
  <2>3. core = "run" => Told(task.remote, Len(notes))'
    BY <2>1, <2>2, <1>1, ToldRemote DEF Fits
  <2> QED BY <2>1, <2>2, <2>3
<1>5. ASSUME HandleResponse
      PROVE  /\ notes' = notes \/ \E n : Fits(n) /\ notes' = Append(notes, n)
             /\ task'.pc # "answered" /\ task'.remote <= follower'.match
             /\ core = "run" => Told(task.remote, Len(notes))'
  <2>1. /\ task'.pc # "answered" /\ task.pc = "answered"
        /\ task.answer.kind = "matching" => task'.remote = task.answer.log
        /\ task.answer.kind # "matching" => task'.remote = task.remote
        /\ task.answer.kind \in {"matching", "conflict", "higher"}
    BY <1>1, <1>5, Responded DEF HandleResponse, TaskOK, Types, TaskTypeOK
  <2>2. PICK n : n = Note(task.answer.kind, task.answer.log, task.id, task.session)
    OBVIOUS
  <2>3. \/ notes' = notes /\ task.answer.kind = "matching" /\ task.answer.log = 0
        \/ notes' = Append(notes, n)
    BY <1>5, <2>2 DEF HandleResponse, NotifyProgress
  <2>4. /\ n \in NoteSet /\ n.kind = task.answer.kind /\ n.log = task.answer.log /\ n.id = task.id
        /\ n.session = task.session
    BY <2>1, <2>2, <1>2 DEF Note, NoteSet
  <2>5. Fits(n)
    <3>1. n.kind = "matching" => n.log <= follower'.match
      BY <2>1, <2>4, <1>1 DEF HeldOK
    <3>2. n.session = session /\ n.kind = "conflict" =>
            /\ n.id # 0 /\ entry.matching < n.log
            /\ \A i \in 1..Len(notes) : Mine(notes[i]) => notes[i].log < n.log
      BY <2>1, <2>4, <1>1, <1>3 DEF RefusedOK
    <3>3. n.session = session /\ n.id = 0 /\ n.kind = "matching" /\ core = "run" => Told(n.log, Len(notes))
      BY <2>1, <2>4, <1>1 DEF TaskOK, ProgressOK
    <3>4. ~ (Mine(n) /\ entry.inflight.kind = "snapshot")
      BY <2>4, <1>3 DEF Mine
    <3> QED BY <2>1, <2>4, <3>1, <3>2, <3>3, <3>4 DEF Fits
  <2>6. task'.remote <= follower'.match
    BY <2>1, <1>1 DEF HeldOK
  <2>7. core = "run" => Told(task.remote, Len(notes))'
    <3> SUFFICES ASSUME core = "run" PROVE Told(task.remote, Len(notes))'
      OBVIOUS
    <3>1. CASE task'.remote = task.remote
      BY <2>3, <2>4, <3>1, <1>1, ToldRemote
    <3>2. CASE task'.remote # task.remote /\ notes' = notes
      <4>1. task'.remote = 0
        BY <2>1, <2>3, <3>2, NoteTypes, <1>1, <2>4, Queued DEF Types
      <4> QED BY <4>1, <1>1, <1>2 DEF Told
    <3>3. CASE task'.remote # task.remote /\ notes' = Append(notes, n)
      <4>1. task.answer.kind = "matching" /\ task'.remote = n.log /\ n.kind = "matching"
        BY <2>1, <2>4, <3>3
      <4>2. task.id # 0
        BY <2>1, <3>3, <1>1 DEF TaskOK
      <4>3. /\ Len(notes) \in Nat /\ Len(notes') = Len(notes) + 1
            /\ notes'[Len(notes) + 1] = n
        BY <2>4, <3>3, <1>1, Queued DEF Types
      <4>4. n.session = session' /\ n.id # 0 /\ n.log \in Nat
        BY <2>4, <4>2, <1>1, <1>2, <1>3
      <4> QED BY <4>1, <4>3, <4>4 DEF Told, Mine
    <3> QED BY <2>3, <3>1, <3>2, <3>3
  <2> QED BY <2>1, <2>3, <2>5, <2>6, <2>7
<1>6. /\ task'.remote <= follower'.match /\ task'.pc # "answered"
      /\ core = "run" => Told(task.remote, Len(notes))'
      /\ notes' = notes \/ \E n : Fits(n) /\ notes' = Append(notes, n)
  BY <1>1, <1>4, <1>5 DEF HeldOK
<1>7. /\ follower.match <= follower'.match
      /\ hb'.pc # "idle" => hb'.matching <= follower'.match
      /\ hb'.pc = "answered" => hb'.answer # "conflict"
      /\ snapper'.pc = "answered" /\ snapper'.answer = "matching" => snapper'.log <= follower'.match
      /\ core = "run" => /\ entry'.inflight.kind = "logs" => entry.matching <= entry'.inflight.prev
                         /\ entry'.inflight.kind = "snapshot" =>
                              /\ entry'.inflight = entry.inflight \/ NoneMine'
                              /\ snapper'.pc # "idle" => entry.matching <= snapper'.log
  BY <1>1, <1>2 DEF HeldOK, RefusedOK, ProgressOK
<1>8. HeldOK' /\ RefusedOK' /\ ProgressOK'
  BY <1>1, <1>6, <1>7, KnownMoves
<1> QED BY <1>1, <1>8 DEF KnownInv

\* The follower refuses only what starts after its matching log id, and has what
\* it accepts.
LEMMA DeliverKnown ==
  ASSUME FlowInv, FlowInv', KnownInv, ~ follower.wiped, NEW r, NEW q, Delivered(r, q)
  PROVE  KnownInv'
<1>1. /\ HeldOK /\ RefusedOK /\ ProgressOK /\ ~ panic /\ Types /\ Types' /\ TaskOK /\ HbOK /\ SnapOK
      /\ UNCHANGED <<lead, entry, core, session, notes, panic>> /\ core # "gone" /\ r \in wire
      /\ FollowerOK /\ TaskTypeOK /\ HeartbeatOK /\ SnapperOK /\ EntryOK
  BY DEF KnownInv, FlowInv, Delivered, Types
<1>2. /\ q \in RequestSet /\ r \in RequestSet /\ r.prev \in Nat /\ r.last \in Nat /\ q.last \in Nat
      /\ q.kind = r.kind /\ q.live = r.live /\ q.prev = r.prev
      /\ q.prev <= q.last /\ q.last <= r.last /\ (q.kind # "append" => q.last = r.last)
      /\ q.kind \in {"append", "heartbeat", "snapshot"}
  BY DEF Delivered, RequestSet
<1>3. PICK a : a = Answer(follower, q)
  OBVIOUS
<1>4. /\ follower.match <= follower'.match
      /\ a = "matching" => q.last <= follower'.match
      /\ a = "conflict" => q.kind # "snapshot" /\ follower.match < q.prev
      /\ follower.match \in Nat /\ follower'.match \in Nat
  BY <1>1, <1>2, <1>3, Follows DEF Delivered, FollowerOK, Types
<1>5. Answered(q, a)
  BY <1>3 DEF Delivered
<1>6. /\ entry.matching \in Nat /\ task.remote \in Nat /\ hb.matching \in Nat /\ snapper.log \in Nat
      /\ \A i \in 1..Len(notes) : notes[i].log \in Nat
  BY <1>1, NoteTypes DEF Types, EntryOK, TaskTypeOK, HeartbeatOK, SnapperOK
<1>7. r.live => r \in Live(r.kind)
  BY <1>1 DEF Live
<1>8. task'.remote = task.remote /\ (task'.pc = "answered" => task' = task \/ AnswerFits)
  <2>1. CASE q.live /\ q.kind = "append"
    <3>1. task' = [task EXCEPT !.pc = "answered",
                      !.answer = [kind |-> a, log |-> IF a = "conflict" THEN q.prev ELSE q.last]]
      BY <2>1, <1>5 DEF Answered
    <3>2. /\ task'.remote = task.remote /\ task'.id = task.id /\ task'.answer.kind = a
          /\ task'.answer.log = IF a = "conflict" THEN q.prev ELSE q.last
      BY <3>1, <1>1 DEF TaskTypeOK
    <3>3. r \in Live("append")
      BY <2>1, <1>2, <1>7
    <3>4. ASSUME a = "conflict"
          PROVE  /\ task.id # 0
                 /\ core = "run" => /\ entry.matching < q.prev
                                    /\ \A i \in 1..Len(notes) : Mine(notes[i]) => notes[i].log < q.prev
      <4>1. follower.match < q.prev
        BY <3>4, <1>4
      <4>2. task.id # 0
        <5>1. task.id = 0 => r.prev = task.remote
          BY <3>3, <1>1 DEF TaskOK
        <5> QED BY <4>1, <5>1, <1>1, <1>2, <1>4, <1>6 DEF HeldOK
      <4>3. entry.matching < q.prev
        BY <4>1, <1>1, <1>2, <1>4, <1>6 DEF HeldOK
      <4>4. core = "run" => \A i \in 1..Len(notes) : Mine(notes[i]) => notes[i].kind = "matching"
        BY <4>2, InChannel DEF FlowInv, RunOK, FlightOK
      <4>5. core = "run" => \A i \in 1..Len(notes) : Mine(notes[i]) => notes[i].log <= follower.match
        BY <4>4, <1>1 DEF HeldOK
      <4>6. core = "run" => \A i \in 1..Len(notes) : Mine(notes[i]) => notes[i].log < q.prev
        BY <4>1, <4>5, <1>2, <1>4, <1>6
      <4> QED BY <4>2, <4>3, <4>6
    <3> QED BY <3>2, <3>4, <1>1, <1>4 DEF AnswerFits
  <2>2. CASE ~ (q.live /\ q.kind = "append")
    BY <2>2, <1>5 DEF Answered
  <2> QED BY <2>1, <2>2
<1>9. /\ hb'.pc # "idle" => hb'.matching <= follower'.match
      /\ hb'.pc = "answered" => hb'.answer # "conflict"
  <2>1. CASE q.live /\ q.kind = "heartbeat"
    <3>1. hb' = [hb EXCEPT !.pc = "answered", !.answer = a]
      BY <2>1, <1>5 DEF Answered
    <3>2. hb'.matching = hb.matching /\ hb'.answer = a
      BY <3>1, <1>1 DEF HeartbeatOK
    <3>3. r \in Live("heartbeat")
      BY <2>1, <1>2, <1>7
    <3>4. hb.pc = "wait" /\ r.prev = hb.matching
      BY <3>3, <1>1 DEF HbOK
    <3>5. hb.matching <= follower.match
      BY <3>4, <1>1 DEF HeldOK
    <3>6. a # "conflict"
      BY <3>4, <3>5, <1>2, <1>4, <1>6
    <3> QED BY <3>2, <3>5, <3>6, <1>4, <1>6
  <2>2. CASE ~ (q.live /\ q.kind = "heartbeat")
    <3>1. hb' = hb
      BY <2>2, <1>5 DEF Answered
    <3> QED BY <3>1, <1>1, <1>4, <1>6 DEF HeldOK, RefusedOK
  <2> QED BY <2>1, <2>2
<1>10. /\ snapper'.pc = "answered" /\ snapper'.answer = "matching" => snapper'.log <= follower'.match
       /\ snapper'.log = snapper.log /\ (snapper'.pc = "idle" <=> snapper.pc = "idle")
  <2>1. CASE q.live /\ q.kind = "snapshot"
    <3>1. snapper' = [snapper EXCEPT !.pc = "answered", !.answer = a]
      BY <2>1, <1>5 DEF Answered
    <3>2. snapper'.log = snapper.log /\ snapper'.answer = a /\ snapper'.pc = "answered"
      BY <3>1, <1>1 DEF SnapperOK
    <3>3. r \in Live("snapshot")
      BY <2>1, <1>2, <1>7
    <3>4. snapper.pc = "wait" /\ r.last = snapper.log
      BY <3>3, <1>1 DEF SnapOK
    <3>5. a = "matching" => snapper.log <= follower'.match
      BY <2>1, <3>4, <1>2, <1>4
    <3> QED BY <3>2, <3>4, <3>5
  <2>2. CASE ~ (q.live /\ q.kind = "snapshot")
    <3>1. snapper' = snapper
      BY <2>2, <1>5 DEF Answered
    <3> QED BY <3>1, <1>1, <1>4, <1>6 DEF HeldOK
  <2> QED BY <2>1, <2>2
<1>11. task'.remote <= follower'.match
  BY <1>1, <1>4, <1>6, <1>8 DEF HeldOK
<1>12. core = "run" => Told(task.remote, Len(notes))'
  BY <1>1, <1>8, ToldRemote
<1>13. core = "run" => /\ entry'.inflight.kind = "logs" => entry.matching <= entry'.inflight.prev
                       /\ entry'.inflight.kind = "snapshot" =>
                            /\ entry'.inflight = entry.inflight \/ NoneMine'
                            /\ snapper'.pc # "idle" => entry.matching <= snapper'.log
  BY <1>1, <1>10 DEF ProgressOK
<1>14. HeldOK' /\ RefusedOK' /\ ProgressOK'
  BY <1>1, <1>4, <1>8, <1>9, <1>10, <1>11, <1>12, <1>13, KnownMoves
<1> QED BY <1>1, <1>14 DEF KnownInv

\* What is sent next starts at or after what matches.
LEMMA InitiateKnown ==
  ASSUME FlowInv, FlowInv', KnownInv, ~ follower.wiped, InitiateReplication
  PROVE  KnownInv'
<1>1. PICK inf : inf = NextSend(entry, nextId + 1)
  OBVIOUS
<1>2. /\ HeldOK /\ RefusedOK /\ ProgressOK /\ ~ panic /\ Types /\ Types' /\ EntryOK /\ FlightOK
      /\ UNCHANGED <<lead, core, session, task, hb, notes, follower, panic>>
      /\ core = "run" /\ entry.inflight = NoInflight
      /\ entry' = [entry EXCEPT !.inflight = inf] /\ nextId \in Nat
      /\ inf.kind = "logs" => UNCHANGED snapper
      /\ inf.kind # "logs" => SpawnTransmitter(nextId + 1)
  BY <1>1 DEF InitiateReplication, FlowInv, KnownInv, Types, RunOK
<1>3. /\ inf \in Inflights
      /\ inf.kind = "logs" => /\ entry.matching <= entry.searchingEnd => entry.matching <= inf.prev
      /\ inf.kind = "snapshot" => entry.searchingEnd < lead.purgeUpto
  <2>1. nextId + 1 \in Nat \ {0}
    BY <1>2
  <2> QED BY <2>1, <1>1, <1>2, NextSends
<1>4. /\ entry'.matching = entry.matching /\ entry'.searchingEnd = entry.searchingEnd
      /\ entry'.inflight = inf
  BY <1>2 DEF EntryOK
<1>5. snapper.pc = "idle" /\ NoneMine
  BY <1>2 DEF FlightOK, NoInflight
<1>6. NoneMine'
  BY <1>2, <1>5 DEF NoneMine, Mine
<1>7. /\ lead.snap \in Nat /\ lead.purgeUpto \in Nat /\ lead.purgeUpto <= lead.snap
      /\ entry.matching \in Nat /\ entry.searchingEnd \in Int /\ follower.match \in Nat
      /\ task.remote \in Nat
  BY <1>2 DEF Types, LeadOK, EntryOK, FollowerOK, TaskTypeOK
<1>8. inf.kind # "logs" => snapper'.pc = "wait" /\ snapper'.log = lead.snap
  BY <1>2 DEF SpawnTransmitter
<1>9. snapper'.pc # "answered"
  BY <1>2, <1>5, <1>8
<1>10. /\ entry'.inflight.kind = "logs" => entry.matching <= entry'.inflight.prev
       /\ entry'.inflight.kind = "snapshot" =>
            /\ entry'.inflight = entry.inflight \/ NoneMine'
            /\ snapper'.pc # "idle" => entry.matching <= snapper'.log
  BY <1>2, <1>3, <1>4, <1>6, <1>7, <1>8 DEF ProgressOK
<1>11. Told(task.remote, Len(notes))'
  BY <1>2, <1>4, ToldRemote
<1>12. /\ follower.match <= follower'.match /\ task'.remote <= follower'.match
       /\ hb'.pc # "idle" => hb'.matching <= follower'.match
       /\ hb'.pc = "answered" => hb'.answer # "conflict"
  BY <1>2, <1>7 DEF HeldOK, RefusedOK
<1>13. HeldOK' /\ RefusedOK' /\ ProgressOK'
  BY <1>2, <1>4, <1>9, <1>10, <1>11, <1>12, KnownMoves
<1> QED BY <1>2, <1>13 DEF KnownInv

\* A new session starts from the progress; what is under way is of another.
LEMMA SessionKnown ==
  ASSUME FlowInv, FlowInv', KnownInv, ~ follower.wiped, RebuildReplicationStreams \/ SpawnReplicationStream
  PROVE  KnownInv'
<1>1. /\ HeldOK /\ RefusedOK /\ ProgressOK /\ ~ panic /\ Types /\ Types' /\ EntryOK
      /\ UNCHANGED <<notes, follower, panic>>
  BY DEF KnownInv, FlowInv, Types, RebuildReplicationStreams, SpawnReplicationStream
<1>2. /\ entry'.matching = entry.matching /\ entry'.searchingEnd = entry.searchingEnd
      /\ entry'.inflight.kind = "none"
  <2>1. CASE RebuildReplicationStreams
    <3>1. entry' = [entry EXCEPT !.inflight = NoInflight]
      BY <2>1 DEF RebuildReplicationStreams
    <3> QED BY <3>1, <1>1 DEF EntryOK, NoInflight
  <2>2. CASE SpawnReplicationStream
    BY <2>2 DEF SpawnReplicationStream, TaskJoined, FlowInv, JoinOK, NoInflight
  <2> QED BY <2>1, <2>2
<1>3. \A i \in 1..Len(notes) : notes[i].session # session'
  <2>1. \A i \in 1..Len(notes) : notes[i].session \in Nat /\ notes[i].session <= session
    BY <1>1, NoteTypes DEF Types, NotesOK
  <2>2. session \in Nat
    BY <1>1 DEF Types
  <2>3. CASE RebuildReplicationStreams
    BY <2>1, <2>2, <2>3 DEF RebuildReplicationStreams
  <2>4. CASE SpawnReplicationStream
    <3>1. \A i \in 1..Len(notes) : notes[i].session < session
      BY <2>4 DEF SpawnReplicationStream, TaskJoined, FlowInv, JoinOK
    <3> QED BY <2>1, <2>2, <2>4, <3>1 DEF SpawnReplicationStream
  <2> QED BY <2>3, <2>4
<1>4. /\ hb'.pc = "idle" /\ snapper'.pc = "idle"
      /\ \/ core' = "join" /\ task' = task
         \/ core' = "run" /\ task'.pc = "idle" /\ task'.remote = entry.matching
  <2>1. CASE RebuildReplicationStreams
    BY <2>1 DEF RebuildReplicationStreams, IdleHeartbeat, IdleTransmitter
  <2>2. CASE SpawnReplicationStream
    BY <2>2 DEF SpawnReplicationStream, TaskJoined, NewTask, FlowInv, JoinOK
  <2> QED BY <2>1, <2>2
<1>5. HeldOK'
  BY <1>1, <1>2, <1>4 DEF HeldOK
<1>6. RefusedOK'
  BY <1>1, <1>2, <1>3, <1>4 DEF RefusedOK
<1>7. ProgressOK'
  <2>1. entry'.matching <= entry'.searchingEnd
    BY <1>1, <1>2 DEF ProgressOK
  <2>2. core' = "run" => Told(task.remote, Len(notes))'
    BY <1>1, <1>2, <1>4 DEF Told, EntryOK
  <2> QED BY <2>1, <2>2, <1>1, <1>2, <1>3 DEF ProgressOK
<1> QED BY <1>1, <1>5, <1>6, <1>7 DEF KnownInv

\* The first notification is taken: what it told is now in the progress entry.
LEMMA KnownTaken ==
  ASSUME Types, Types', HeldOK, RefusedOK, ProgressOK, core = "run", core' \in {"run", "gone"},
         notes # <<>>, notes' = Tail(notes), UNCHANGED <<session, task, hb, snapper, follower>>,
         entry.matching <= entry'.matching, entry'.matching <= entry'.searchingEnd,
         entry'.matching # entry.matching => /\ Mine(notes[1]) /\ notes[1].kind = "matching"
                                             /\ entry'.matching = notes[1].log,
         core' = "run" =>
           /\ Mine(notes[1]) /\ notes[1].kind = "matching" => notes[1].log <= entry'.matching
           /\ entry'.inflight.kind = "logs" => entry'.matching <= entry'.inflight.prev
           /\ entry'.inflight.kind = "snapshot" =>
                /\ snapper.pc # "idle" => entry'.matching <= snapper.log
                /\ \A i \in 1..Len(notes) : i # 1 /\ Mine(notes[i]) => entry'.matching <= notes[i].log
  PROVE  HeldOK' /\ RefusedOK' /\ ProgressOK'
<1>1. /\ Len(notes) \in Nat \ {0} /\ Len(notes') = Len(notes) - 1 /\ 1 \in 1..Len(notes)
      /\ \A i \in 1..Len(notes') : /\ notes'[i] = notes[i + 1] /\ i + 1 \in 1..Len(notes)
                                   /\ i + 1 # 1 /\ (i + 1) - 1 = i
      /\ \A i \in 1..Len(notes) : i # 1 => i - 1 \in 1..Len(notes') /\ notes'[i - 1] = notes[i]
  BY Taken DEF Types
<1>2. /\ entry.matching \in Nat /\ entry'.matching \in Nat /\ task.remote \in Nat /\ task.answer.log \in Nat
      /\ follower.match \in Nat /\ follower'.match \in Nat
      /\ \A i \in 1..Len(notes) : notes[i].log \in Nat
  BY NoteTypes DEF Types, EntryOK, TaskTypeOK, FollowerOK
<1>3. \A n : Mine(n)' <=> Mine(n)
  BY DEF Mine
<1>4. ASSUME core' = "run", NEW x \in Nat, NEW k \in 1..Len(notes), Told(x, k)
      PROVE  x <= entry'.matching \/ \E i \in 1..(k - 1) : Mine(notes'[i]) /\ notes'[i].kind = "matching" /\ x <= notes'[i].log
  <2>1. CASE x <= entry.matching
    BY <2>1, <1>2
  <2>2. ASSUME NEW i \in 1..k, Mine(notes[i]), notes[i].kind = "matching", x <= notes[i].log
        PROVE  x <= entry'.matching \/ \E j \in 1..(k - 1) : Mine(notes'[j]) /\ notes'[j].kind = "matching" /\ x <= notes'[j].log
    <3>1. CASE i = 1
      BY <2>2, <3>1, <1>1, <1>2, <1>4
    <3>2. CASE i # 1
      <4>1. i \in 1..Len(notes) /\ i - 1 \in 1..(k - 1)
        BY <3>2, <1>1
      <4> QED BY <2>2, <3>2, <4>1, <1>1
    <3> QED BY <3>1, <3>2
  <2> QED BY <2>1, <2>2, <1>4 DEF Told
<1>5. HeldOK'
  <2>1. entry'.matching <= follower.match
    BY <1>1, <1>2 DEF HeldOK
  <2>2. \A i \in 1..Len(notes') : notes'[i].kind = "matching" => notes'[i].log <= follower.match
    BY <1>1 DEF HeldOK
  <2> QED BY <2>1, <2>2 DEF HeldOK
<1>6. RefusedOK'
  <2>1. task.pc = "answered" /\ task.answer.kind = "conflict" =>
          /\ entry'.matching < task.answer.log
          /\ \A i \in 1..Len(notes') : Mine(notes'[i]) => notes'[i].log < task.answer.log
    BY <1>1, <1>2 DEF RefusedOK
  <2>2. ASSUME NEW j \in 1..Len(notes'), notes'[j].session = session, notes'[j].kind = "conflict"
        PROVE  /\ notes'[j].id # 0 /\ entry'.matching < notes'[j].log
               /\ \A i \in 1..(j - 1) : Mine(notes'[i]) => notes'[i].log < notes'[j].log
    <3>1. /\ notes[j + 1].session = session /\ notes[j + 1].kind = "conflict" /\ j + 1 \in 1..Len(notes)
          /\ notes'[j] = notes[j + 1]
      BY <2>2, <1>1
    <3>2. /\ notes[j + 1].id # 0 /\ entry.matching < notes[j + 1].log
          /\ \A i \in 1..j : Mine(notes[i]) => notes[i].log < notes[j + 1].log
      BY <3>1 DEF RefusedOK
    <3>3. \A i \in 1..(j - 1) : notes'[i] = notes[i + 1] /\ i + 1 \in 1..j
      BY <1>1
    <3>4. 1 \in 1..j
      OBVIOUS
    <3>5. entry'.matching < notes[j + 1].log
      BY <3>2, <3>4
    <3> QED BY <3>1, <3>2, <3>3, <3>5
  <2> QED BY <2>1, <2>2, <1>3 DEF RefusedOK
<1>7. ProgressOK'
  <2> SUFFICES ASSUME core' = "run" PROVE ProgressOK'
    BY DEF ProgressOK
  <2>1. /\ entry'.inflight.kind = "logs" => entry'.matching <= entry'.inflight.prev
        /\ entry'.inflight.kind = "snapshot" =>
             /\ snapper.pc # "idle" => entry'.matching <= snapper.log
             /\ \A i \in 1..Len(notes') : Mine(notes'[i]) => entry'.matching <= notes'[i].log
    BY <1>1
  <2>2. Told(task.remote, Len(notes))'
    <3>1. Told(task.remote, Len(notes))
      BY DEF ProgressOK
    <3>2. PICK k : k = Len(notes)
      OBVIOUS
    <3>3. k \in 1..Len(notes) /\ Told(task.remote, k)
      BY <3>1, <3>2, <1>1
    <3>4. \/ task.remote <= entry'.matching
          \/ \E i \in 1..(k - 1) : Mine(notes'[i]) /\ notes'[i].kind = "matching" /\ task.remote <= notes'[i].log
      BY <3>3, <1>2, <1>4
    <3>5. k - 1 = Len(notes')
      BY <3>2, <1>1
    <3> QED BY <3>4, <3>5, <1>3 DEF Told
  <2>3. ASSUME NEW i \in 1..Len(notes'), notes'[i].session = session, notes'[i].id = 0, notes'[i].kind = "matching"
        PROVE  Told(notes[i].log, i - 1)'
    <3>1. Told(notes[i + 1].log, i) /\ notes'[i] = notes[i + 1] /\ i \in 1..Len(notes) /\ notes[i + 1].log \in Nat
      <4>1. /\ notes'[i] = notes[i + 1] /\ i + 1 \in 1..Len(notes) /\ (i + 1) - 1 = i /\ i \in 1..Len(notes)
        BY <1>1
      <4>2. Told(notes[i + 1].log, (i + 1) - 1)
        BY <2>3, <4>1 DEF ProgressOK
      <4> QED BY <4>1, <4>2, <1>2
    <3> QED BY <3>1, <1>3, <1>4 DEF Told
  <2> QED BY <2>1, <2>2, <2>3, <1>3 DEF ProgressOK
<1> QED BY <1>5, <1>6, <1>7

\* What a notification does to the entry.
LEMMA KnownUpdated ==
  ASSUME FlowInv, KnownInv, ~ follower.wiped, core = "run", notes # <<>>,
         NEW n, n = Head(notes), n.session = session, n.kind # "higher", UpdateProgress(n)
  PROVE  /\ entry.matching <= entry'.matching /\ entry'.matching <= entry'.searchingEnd
         /\ entry'.matching # entry.matching => /\ Mine(n) /\ n.kind = "matching"
                                                /\ entry'.matching = n.log
         /\ Mine(n) /\ n.kind = "matching" => n.log <= entry'.matching
         /\ entry'.inflight.kind = "logs" => entry'.matching <= entry'.inflight.prev
         /\ entry'.inflight.kind = "snapshot" =>
              /\ snapper.pc # "idle" => entry'.matching <= snapper.log
              /\ \A i \in 1..Len(notes) : i # 1 /\ Mine(notes[i]) => entry'.matching <= notes[i].log
         /\ ~ panic'
<1> DEFINE inf == entry.inflight
<1>1. /\ HeldOK /\ RefusedOK /\ ProgressOK /\ ~ panic /\ Types /\ FlightOK /\ NotesOK
      /\ entry.matching <= entry.searchingEnd
      /\ inf.kind = "logs" => entry.matching <= inf.prev
      /\ inf.kind = "snapshot" => /\ snapper.pc # "idle" => entry.matching <= snapper.log
                                  /\ \A i \in 1..Len(notes) : Mine(notes[i]) => entry.matching <= notes[i].log
  BY DEF KnownInv, FlowInv, RunOK, Types, ProgressOK
<1>2. /\ Len(notes) \in Nat \ {0} /\ 1 \in 1..Len(notes) /\ n = notes[1] /\ n \in NoteSet
      /\ n.log \in Nat /\ n.id \in Nat /\ n.kind \in {"matching", "conflict", "error"}
      /\ n.kind = "error" => n.id # 0
  BY <1>1, Taken, NoteTypes DEF NotesOK
<1>3. /\ entry \in [matching : Nat, inflight : Inflights, searchingEnd : Int, allow : BOOLEAN]
      /\ entry.matching \in Nat /\ entry.searchingEnd \in Int
      /\ inf.kind \in {"none", "logs", "snapshot"}
      /\ inf.kind = "logs" => /\ inf.prev \in Nat /\ inf.last \in Nat /\ inf.id \in Nat
                              /\ inf.prev < inf.last /\ inf.id # 0
  BY <1>1 DEF Types, EntryOK, Inflights, NoInflight, FlightOK
<1>4. \A i \in 1..Len(notes) : notes[i].log \in Nat
  BY <1>1, NoteTypes
<1>5. n.id # 0 <=> Mine(n)
  BY DEF Mine
<1>6. Mine(n) => /\ inf.kind # "none"
                 /\ n.id = inf.id
                 /\ inf.kind = "logs" /\ n.kind = "matching" => inf.prev <= n.log /\ n.log <= inf.last
                 /\ inf.kind = "snapshot" => /\ n.kind = "matching" /\ snapper.pc = "idle"
                                             /\ \A i \in 1..Len(notes) : Mine(notes[i]) => i = 1
  BY <1>1, <1>2, <1>3 DEF FlightOK, NoneMine, Reports
<1> HIDE DEF inf
<1>7. CASE n.kind = "matching" /\ n.id = 0
  <2>1. Told(n.log, 0)
    BY <1>1, <1>2, <1>7 DEF ProgressOK
  <2>2. n.log <= entry.matching
    BY <2>1 DEF Told
  <2>3. entry' = entry /\ ~ panic'
    BY <2>2, <1>1, <1>2, <1>7 DEF UpdateProgress, MatchingUpdated, MatchingPanics, Types
  <2> QED BY <2>3, <1>1, <1>3, <1>5, <1>7 DEF inf
<1>8. CASE n.kind = "matching" /\ n.id # 0
  <2>1. entry.matching <= n.log
    <3>1. inf.kind = "logs" => entry.matching <= n.log
      BY <1>1, <1>2, <1>3, <1>5, <1>6, <1>8
    <3>2. inf.kind = "snapshot" => entry.matching <= n.log
      BY <1>1, <1>2, <1>5, <1>8
    <3> QED BY <3>1, <3>2, <1>3, <1>5, <1>6, <1>8
  <2> DEFINE a == Ack(entry.inflight, n.log, n.id)
             end == Larger(entry.searchingEnd, n.log)
  <2>2. entry' = [entry EXCEPT !.inflight = a, !.matching = n.log, !.searchingEnd = end]
    BY <1>2, <1>8 DEF UpdateProgress, MatchingUpdated
  <2>3. n.log <= end
    BY <1>2, <1>3 DEF Larger
  <2>4. /\ a.kind = "logs" => a.prev = n.log
        /\ a.kind # "snapshot"
    BY <1>2, <1>3, <1>5, <1>6, <1>8 DEF Ack, InflightLogs, NoInflight, inf
  <2>5. ~ AckPanics(entry.inflight, n.log, n.id)
    BY <1>2, <1>3, <1>5, <1>6, <1>8 DEF AckPanics, inf
  <2>6. ~ panic'
    <3>1. ~ (n.log < entry.matching)
      BY <2>1, <1>2, <1>3
    <3>2. ~ MatchingPanics(entry, n.log, n.id)
      BY <3>1, <2>5 DEF MatchingPanics
    <3> HIDE DEF a, end
    <3> QED BY <3>2, <1>1, <1>8 DEF UpdateProgress
  <2> HIDE DEF a, end
  <2>7. entry'.matching = n.log /\ entry'.inflight = a /\ entry'.searchingEnd = end
    BY <2>2, <1>3
  <2> QED BY <2>1, <2>3, <2>4, <2>6, <2>7, <1>2, <1>5, <1>8
<1>9. CASE n.kind = "conflict"
  <2>1. n.id # 0 /\ entry.matching < n.log
    BY <1>1, <1>2, <1>9 DEF RefusedOK
  <2>2. inf.kind = "logs" /\ n.id = inf.id
    BY <2>1, <1>3, <1>5, <1>6, <1>9
  <2>3. ConflictInflight(entry.inflight, n.id) = NoInflight /\ ~ ConflictPanics(entry.inflight, n.id)
    BY <2>2 DEF ConflictInflight, ConflictPanics, inf
  <2>4. ~ (n.log - 1 < entry.matching)
    BY <2>1, <1>2, <1>3
  <2>5. ~ panic'
    BY <2>3, <2>4, <1>1, <1>9 DEF UpdateProgress, ConflictingPanics
  <2>6. entry' = UpdateConflicting(entry, n.log, n.id)
    BY <1>9 DEF UpdateProgress
  <2>7. /\ entry'.matching = entry.matching /\ entry'.inflight = NoInflight
        /\ entry'.searchingEnd = entry.searchingEnd \/ entry'.searchingEnd = n.log - 1
    BY <2>1, <2>3, <2>4, <2>6, <1>3 DEF UpdateConflicting
  <2> QED BY <2>1, <2>5, <2>7, <1>1, <1>2, <1>3, <1>9 DEF NoInflight
<1>10. CASE n.kind = "error"
  <2>1. entry' = [entry EXCEPT !.inflight = NoInflight] /\ ~ panic'
    BY <1>1, <1>10 DEF UpdateProgress
  <2>2. /\ entry'.matching = entry.matching /\ entry'.inflight = NoInflight
        /\ entry'.searchingEnd = entry.searchingEnd
    BY <2>1, <1>3
  <2> QED BY <2>1, <2>2, <1>1, <1>3, <1>10 DEF NoInflight
<1> QED BY <1>2, <1>7, <1>8, <1>9, <1>10

\* handle_notification: the progress takes in only what is true.
LEMMA HandleNotificationKnown ==
  ASSUME FlowInv, FlowInv', KnownInv, ~ follower.wiped, HandleNotification
  PROVE  KnownInv'
<1> DEFINE n == Head(notes)
<1>1. /\ HeldOK /\ RefusedOK /\ ProgressOK /\ ~ panic /\ Types /\ Types' /\ EntryOK /\ FlightOK /\ NotesOK
      /\ UNCHANGED <<session, task, hb, snapper, follower>>
      /\ core = "run" /\ notes # <<>> /\ notes' = Tail(notes)
      /\ IF n.kind = "higher" THEN core' = "gone" /\ UNCHANGED <<lead, entry, panic>>
         ELSE /\ core' = core
              /\ IF n.session = session THEN UpdateProgress(n) ELSE UNCHANGED <<lead, entry, panic>>
  BY DEF HandleNotification, FlowInv, KnownInv, RunOK, SessionMatches, Types
<1>2. n = notes[1] /\ 1 \in 1..Len(notes)
  BY <1>1, Taken
<1> HIDE DEF n
<1>3. CASE UNCHANGED <<entry, panic>> /\ (n.kind = "higher" \/ n.session # session)
  <2>1. entry.matching \in Nat
    BY <1>1 DEF EntryOK
  <2>2. core' = "run" => ~ Mine(notes[1])
    BY <1>1, <1>2, <1>3 DEF Mine
  <2>3. /\ entry.matching <= entry'.matching /\ entry'.matching <= entry'.searchingEnd
        /\ core' \in {"run", "gone"} /\ entry'.matching = entry.matching
        /\ core' = "run" =>
           /\ entry'.inflight.kind = "logs" => entry'.matching <= entry'.inflight.prev
           /\ entry'.inflight.kind = "snapshot" =>
                /\ snapper.pc # "idle" => entry'.matching <= snapper.log
                /\ \A i \in 1..Len(notes) : i # 1 /\ Mine(notes[i]) => entry'.matching <= notes[i].log
    BY <2>1, <1>1, <1>3 DEF ProgressOK
  <2>4. HeldOK' /\ RefusedOK' /\ ProgressOK'
    BY <2>2, <2>3, <1>1, KnownTaken
  <2> QED BY <2>4, <1>1, <1>3 DEF KnownInv
<1>4. CASE UpdateProgress(n) /\ n.session = session /\ n.kind # "higher" /\ core' = "run"
  <2>1. PICK m : m = n
    OBVIOUS
  <2>2. m = Head(notes) /\ m = notes[1] /\ UpdateProgress(m) /\ m.session = session /\ m.kind # "higher"
    BY <2>1, <1>2, <1>4 DEF n
  <2>3. /\ entry.matching <= entry'.matching /\ entry'.matching <= entry'.searchingEnd
        /\ entry'.matching # entry.matching => /\ Mine(m) /\ m.kind = "matching"
                                               /\ entry'.matching = m.log
        /\ Mine(m) /\ m.kind = "matching" => m.log <= entry'.matching
        /\ entry'.inflight.kind = "logs" => entry'.matching <= entry'.inflight.prev
        /\ entry'.inflight.kind = "snapshot" =>
             /\ snapper.pc # "idle" => entry'.matching <= snapper.log
             /\ \A i \in 1..Len(notes) : i # 1 /\ Mine(notes[i]) => entry'.matching <= notes[i].log
        /\ ~ panic'
    BY <2>2, <1>1, KnownUpdated
  <2>4. HeldOK' /\ RefusedOK' /\ ProgressOK'
    BY <2>2, <2>3, <1>1, <1>4, KnownTaken
  <2> QED BY <2>3, <2>4, <1>1 DEF KnownInv
<1> QED BY <1>1, <1>3, <1>4
----------------------------------------------------------------------------

\* Nothing is known of the follower when the leader is elected.
LEMMA KnownInit == ReplicationInit => KnownInv
<1> SUFFICES ASSUME ReplicationInit PROVE KnownInv
  OBVIOUS
<1>1. FirstLast \in Nat /\ \A l \in FollowerLogs : l.match \in Nat
  BY ReplicationAssumption
<1>2. entry.matching = 0 /\ entry.searchingEnd = FirstLast /\ entry.inflight = NoInflight
  BY DEF ReplicationInit, EmptyEntry
<1>3. /\ task.remote = 0 /\ task.pc = "idle" /\ hb.pc = "idle" /\ snapper.pc = "idle" /\ notes = <<>>
      /\ Len(notes) = 0
  BY DEF ReplicationInit, NewTask, IdleHeartbeat, IdleTransmitter
<1>4. 0 <= follower.match
  BY <1>1 DEF ReplicationInit
<1>5. HeldOK
  BY <1>2, <1>3, <1>4 DEF HeldOK
<1>6. RefusedOK
  BY <1>3 DEF RefusedOK
<1>7. ProgressOK
  BY <1>1, <1>2, <1>3 DEF ProgressOK, Told, NoInflight
<1> QED BY <1>5, <1>6, <1>7 DEF KnownInv, ReplicationInit

\* A follower that lost its data remembers it.
LEMMA StaysWiped ==
  ASSUME FlowInv, [ReplicationNext]_repVars, follower.wiped
  PROVE  follower'.wiped
<1>1. Types /\ FollowerOK
  BY DEF FlowInv, Types
<1>2. CASE Deliver \/ DeliverPart
  <2>1. PICK r, q : Delivered(r, q)
    BY <1>2, <1>1, Delivering
  <2>2. q \in RequestSet /\ q.prev <= q.last /\ follower' = Handled(follower, q)
    BY <2>1 DEF Delivered
  <2> QED BY <2>2, <1>1, Follows
<1>3. CASE FollowerVotes \/ Wipe
  BY <1>1, <1>3 DEF FollowerVotes, Wipe, FollowerOK
<1>4. CASE UNCHANGED follower
  BY <1>4
<1> QED BY <1>2, <1>3, <1>4 DEF ReplicationNext, repVars, HandleNotification, InitiateReplication,
  WriteEntry, Commit, BuildSnapshot, TriggerPurgeLog, AllowNextRevert, RebuildReplicationStreams,
  SpawnReplicationStream, RecvData, RecvCommitted, NextRequest, HandleResponse, RpcError,
  BroadcastHeartbeat, HeartbeatDone, HeartbeatTimeout, SnapshotSent, SnapshotRetry

\* Every step keeps true what is known of a follower that keeps its data.
LEMMA KnownStep == FlowInv /\ FlowInv' /\ KnownInv /\ [ReplicationNext]_repVars => KnownInv'
<1> SUFFICES ASSUME FlowInv, FlowInv', KnownInv, [ReplicationNext]_repVars, ~ follower'.wiped
             PROVE  KnownInv'
  BY DEF KnownInv
<1>1. ~ follower.wiped
  BY StaysWiped
<1>2. CASE HandleNotification
  BY <1>1, <1>2, HandleNotificationKnown
<1>3. CASE InitiateReplication
  BY <1>1, <1>3, InitiateKnown
<1>4. CASE \/ WriteEntry \/ Commit \/ BuildSnapshot \/ TriggerPurgeLog \/ AllowNextRevert
           \/ FollowerVotes \/ Wipe \/ RecvData \/ RecvCommitted \/ NextRequest
           \/ BroadcastHeartbeat \/ HeartbeatTimeout \/ SnapshotRetry
  BY <1>1, <1>4, QuietKnown
<1>5. CASE RebuildReplicationStreams \/ SpawnReplicationStream
  BY <1>1, <1>5, SessionKnown
<1>6. CASE HeartbeatDone
  BY <1>1, <1>6, BeatKnown
<1>7. CASE SnapshotSent
  BY <1>1, <1>7, SnapshotKnown
<1>8. CASE RpcError \/ HandleResponse
  BY <1>1, <1>8, TaskKnown
<1>9. CASE Deliver \/ DeliverPart
  BY <1>1, <1>9, Delivering, DeliverKnown DEF FlowInv, Types
<1>10. CASE UNCHANGED repVars
  BY <1>10 DEF repVars, KnownInv, HeldOK, RefusedOK, ProgressOK, Told, Mine
<1> QED BY <1>2, <1>3, <1>4, <1>5, <1>6, <1>7, <1>8, <1>9, <1>10 DEF ReplicationNext
----------------------------------------------------------------------------
\* What is in flight to a follower is in one place at a time, and nothing that
\* is still to be reported lies before what has been; and as long as the
\* follower keeps its data, what the progress, the task, the notifications and
\* the requests on their way say it holds, it holds.
THEOREM ReplicationInvariant == ReplicationSpec => []RepInv
<1>1. ReplicationInit => RepInv
  BY FlowInit, KnownInit DEF RepInv
<1>2. RepInv /\ [ReplicationNext]_repVars => RepInv'
  BY FlowStep, KnownStep DEF RepInv
<1> QED BY <1>1, <1>2, PTL DEF ReplicationSpec

\* update_matching: whatever requests and answers are delayed, lost, partial or
\* of an earlier session, the leader counts an entry as replicated only if the
\* follower, which lost no data, holds it.
THEOREM ProgressIsTrue == ReplicationSpec => []MatchingIsHeld
<1>1. RepInv => MatchingIsHeld
  BY DEF RepInv, KnownInv, HeldOK, MatchingIsHeld
<1> QED BY <1>1, ReplicationInvariant, PTL

\* ack, conflict, update_matching, update_conflicting, next_request: no unwrap,
\* unreachable! or debug_assert of them fails while the follower keeps its data.
THEOREM NeverPanics == ReplicationSpec => []NoPanicIntact
<1>1. RepInv => NoPanicIntact
  BY DEF RepInv, KnownInv, NoPanicIntact
<1> QED BY <1>1, ReplicationInvariant, PTL

\* try_purge_log: the entries that are being sent are not purged, even if the
\* follower lost its data.
THEOREM SendsWhatIsKept == ReplicationSpec => []InflightInLog
<1>1. RepInv => InflightInLog
  BY DEF RepInv, FlowInv, RunOK, FlightOK, InflightInLog
<1> QED BY <1>1, ReplicationInvariant, PTL

\* The types, the order of the indexes of the leader's log, and that a task
\* waits for an answer exactly when its request is on the wire.
THEOREM ReplicationTypes == ReplicationSpec => []ReplicationTypeOK
<1>1. RepInv => ReplicationTypeOK
  <2> SUFFICES ASSUME FlowInv PROVE ReplicationTypeOK
    BY DEF RepInv
  <2>1. task.pc = "wait" <=> \E r \in wire : r.kind = "append" /\ r.live
    BY DEF FlowInv, TaskOK, Live
  <2> QED BY <2>1 DEF FlowInv, Types, LeadOK, EntryOK, FollowerOK, Index, ReplicationTypeOK
<1> QED BY <1>1, ReplicationInvariant, PTL
=============================================================================
