--------------------------- MODULE RaftApiProofs ---------------------------
(***************************************************************************)
(* RaftApi is safe for any set of callers, any calls they make and any     *)
(* bounds.  The invariant says where a sender may be and what is known of  *)
(* the entry under the index it is kept with: a responder above the commit *)
(* index belongs to the entry that is there now, because whatever replaces *)
(* entries drains their responders; a responder in a command of the worker *)
(* belongs to an entry at or below the commit index, which stays.          *)
(***************************************************************************)
EXTENDS RaftApi, TLAPS

CallSet ==
  [at : {"idle", "sending", "waiting", "joining", "owner", "watcher", "cancelled", "done"},
   kind : Kind, expect : Nat, step : {1, 2},
   res : {"none", "ok", "forward", "refused", "wrongType", "unreachable",
          "Stopped", "StorageError", "Panicked"},
   index : Nat]
EntrySet == [term : Nat, by : Caller \cup {NoCaller}]
Responder == Nat \X Caller
CmdSet == [op : {"func", "apply", "install"}, first : Nat, last : Nat,
           rs : SUBSET Responder]

TypeOK ==
  /\ call \in [Caller -> CallSet]
  /\ api \in Seq(Caller)
  /\ core \in {"running", "quitting", "stopped"}
  /\ fate \in {"none", "Stopped", "StorageError", "Panicked"}
  /\ term \in Nat /\ log \in Seq(EntrySet)
  /\ committed \in Nat /\ applied \in Nat
  /\ responders \in SUBSET Responder /\ pending \in SUBSET Responder
  /\ submitted \in Nat
  /\ smq \in Seq(CmdSet)
  /\ worker \in {"up", "failed"}

\* The entry at the index of responder x is the one its caller asked for.
IsOwn(x) ==
  /\ x[1] \in 1..Len(log)
  /\ log[x[1]].by = x[2]
  /\ call[x[2]].expect \in {0, log[x[1]].term}

Begun(c) == call[c].at # "idle"

WaitsInv ==
  \A c \in Caller :
    /\ call[c].at = "waiting" => call[c].kind \notin OneWayMsg
    /\ call[c].at \in {"sending", "waiting"} => call[c].kind # "shutdown"
    /\ call[c].res = "ok" => call[c].at = "done"
    /\ call[c].expect # 0 => call[c].kind = "write"

ApiInv == \A i \in 1..Len(api) : Begun(api[i])

RespondersInv ==
  \A x \in responders :
    /\ Begun(x[2])
    /\ x[1] > committed => IsOwn(x)

PendingInv == \A x \in pending : Begun(x[2]) /\ call[x[2]].kind = "rpc"

CmdInv(cmd) ==
  /\ cmd.op = "func" => \A x \in cmd.rs : Begun(x[2]) /\ call[x[2]].kind \notin WriteMsg
  /\ cmd.op # "func" => /\ applied <= cmd.last /\ cmd.last <= committed
                        /\ \A x \in cmd.rs : Begun(x[2]) /\ IsOwn(x) /\ x[1] <= cmd.last

WorkerInv == \A n \in 1..Len(smq) : CmdInv(smq[n])
OrderInv ==
  \A m, n \in 1..Len(smq) :
    m < n /\ smq[m].op # "func" /\ smq[n].op # "func" => smq[m].last <= smq[n].last

BoundsInv == applied <= committed /\ committed <= Len(log)

ApiSafe ==
  /\ TypeOK /\ WaitsInv /\ ApiInv /\ RespondersInv /\ PendingInv
  /\ WorkerInv /\ OrderInv /\ BoundsInv
  /\ OkIsOwnEntry /\ NoneForgotten
----------------------------------------------------------------------------
(* What every step keeps.                                                  *)

\* A call keeps its kind, and once it has begun what it expects.
CallsFollow ==
  \A c \in Caller :
    /\ call'[c].kind = call[c].kind
    /\ Begun(c) => call'[c].at # "idle" /\ call'[c].expect = call[c].expect

\* Committed entries stay.
LogKept ==
  /\ committed <= committed' /\ committed' <= Len(log')
  /\ \A i \in 1..committed : log'[i] = log[i]

\* A responder whose entry is committed still belongs to it.
LEMMA OwnKept ==
  ASSUME TypeOK, TypeOK', CallsFollow, LogKept, BoundsInv,
         NEW x \in Responder, Begun(x[2]), IsOwn(x), x[1] <= committed
  PROVE  IsOwn(x)' /\ Begun(x[2])'
<1>1. x[1] \in Nat /\ x[2] \in Caller
  BY DEF Responder
<1>2. x[1] \in 1..committed /\ log'[x[1]] = log[x[1]] /\ x[1] \in 1..Len(log')
  BY <1>1 DEF LogKept, IsOwn, BoundsInv, TypeOK
<1> QED BY <1>1, <1>2 DEF CallsFollow, IsOwn, Begun

\* on_complete ends a call that waits, or takes a membership change to its
\* second step; it touches nothing else.
LEMMA OnCompleteIs ==
  ASSUME NEW s \in CallSet, NEW r \in {"ok", "forward", "refused"}, NEW i \in Nat
  PROVE  /\ OnComplete(s, r, i) \in CallSet
         /\ OnComplete(s, r, i).kind = s.kind
         /\ OnComplete(s, r, i).expect = s.expect
         /\ OnComplete(s, r, i).at # "waiting"
         /\ s.at # "idle" => OnComplete(s, r, i).at # "idle"
         /\ s.at # "waiting" => OnComplete(s, r, i) = s
         /\ s.at = "waiting" =>
              \/ OnComplete(s, r, i).at = "done" /\ OnComplete(s, r, i).res = r
                   /\ OnComplete(s, r, i).index = i
              \/ OnComplete(s, r, i).at = "sending" /\ OnComplete(s, r, i).res = s.res
<1>1. CASE s.at # "waiting"
  BY <1>1 DEF OnComplete
<1>2. CASE s.at = "waiting" /\ s.kind = "change" /\ s.step = 1 /\ r = "ok"
  <2>1. OnComplete(s, r, i) = [s EXCEPT !.at = "sending", !.step = 2]
    BY <1>2 DEF OnComplete
  <2> QED BY <1>2, <2>1 DEF CallSet
<1>3. CASE s.at = "waiting" /\ ~(s.kind = "change" /\ s.step = 1 /\ r = "ok")
  <2>1. OnComplete(s, r, i) = [s EXCEPT !.at = "done", !.res = r, !.index = i]
    BY <1>3 DEF OnComplete
  <2> QED BY <1>3, <2>1 DEF CallSet
<1> QED BY <1>1, <1>2, <1>3

\* A set of responders is answered.
LEMMA CompleteAllIs ==
  ASSUME TypeOK, WaitsInv, NEW drained \in SUBSET Responder,
         NEW r \in {"ok", "forward", "refused"}, CompleteAll(drained, r)
  PROVE  /\ call' \in [Caller -> CallSet] /\ CallsFollow /\ WaitsInv'
         /\ \A c \in Caller :
              /\ c \notin Holds(drained) => call'[c] = call[c]
              /\ c \in Holds(drained) => call'[c].at # "waiting"
              /\ call'[c].res = "ok" /\ call[c].res # "ok" =>
                   r = "ok" /\ \E x \in drained : x[2] = c /\ call'[c].index = x[1]
              /\ call[c].res = "ok" => call'[c] = call[c]
<1> DEFINE At(c) == (CHOOSE x \in drained : x[2] = c)[1]
           One(c) == OnComplete(call[c], r, At(c))
<1>1. call' = [c \in Caller |-> IF c \in Holds(drained) THEN One(c) ELSE call[c]]
  BY Zenon DEF CompleteAll
<1>2. ASSUME NEW c \in Caller, c \in Holds(drained)
      PROVE  At(c) \in Nat /\ \E x \in drained : x[2] = c /\ At(c) = x[1]
  <2>1. PICK y \in drained : y[2] = c
    BY <1>2 DEF Holds
  <2>2. (CHOOSE x \in drained : x[2] = c) \in drained
        /\ (CHOOSE x \in drained : x[2] = c)[2] = c
    BY <2>1
  <2> QED BY <2>2 DEF Responder
<1> HIDE DEF At
<1>3. \A c \in Caller : call[c] \in CallSet
  BY DEF TypeOK
<1>4. ASSUME NEW c \in Caller, c \in Holds(drained)
      PROVE  /\ call'[c] = One(c) /\ One(c) \in CallSet
             /\ One(c).kind = call[c].kind /\ One(c).expect = call[c].expect
             /\ One(c).at # "waiting"
             /\ call[c].at # "idle" => One(c).at # "idle"
             /\ call[c].at # "waiting" => One(c) = call[c]
             /\ call[c].at = "waiting" =>
                  \/ One(c).at = "done" /\ One(c).res = r /\ One(c).index = At(c)
                  \/ One(c).at = "sending" /\ One(c).res = call[c].res
  <2>1. call'[c] = One(c)
    BY <1>1, <1>4
  <2> QED BY <2>1, <1>2, <1>3, <1>4, OnCompleteIs
<1> HIDE DEF One
<1>5. \A c \in Caller : c \notin Holds(drained) => call'[c] = call[c]
  BY <1>1
<1>6. call' \in [Caller -> CallSet]
  BY <1>1, <1>3, <1>4, Zenon
<1>7. CallsFollow
  BY <1>4, <1>5 DEF CallsFollow, Begun
<1>8. WaitsInv'
  <2> SUFFICES ASSUME NEW c \in Caller
               PROVE  /\ call'[c].at = "waiting" => call'[c].kind \notin OneWayMsg
                      /\ call'[c].at \in {"sending", "waiting"} => call'[c].kind # "shutdown"
                      /\ call'[c].res = "ok" => call'[c].at = "done"
                      /\ call'[c].expect # 0 => call'[c].kind = "write"
    BY DEF WaitsInv
  <2>1. CASE c \notin Holds(drained)
    BY <2>1, <1>5 DEF WaitsInv
  <2>2. CASE c \in Holds(drained)
    BY <2>2, <1>4 DEF WaitsInv
  <2> QED BY <2>1, <2>2
<1>9. ASSUME NEW c \in Caller
      PROVE  /\ c \in Holds(drained) => call'[c].at # "waiting"
             /\ call'[c].res = "ok" /\ call[c].res # "ok" =>
                  r = "ok" /\ \E x \in drained : x[2] = c /\ call'[c].index = x[1]
             /\ call[c].res = "ok" => call'[c] = call[c]
  <2>1. CASE c \notin Holds(drained)
    BY <2>1, <1>5
  <2>2. CASE c \in Holds(drained)
    BY <2>2, <1>2, <1>4 DEF WaitsInv
  <2> QED BY <2>1, <2>2
<1> QED BY <1>5, <1>6, <1>7, <1>8, <1>9

\* One call is answered, by whoever takes its message.
LEMMA CompleteIs ==
  ASSUME TypeOK, WaitsInv, NEW c \in Caller,
         NEW r \in {"ok", "forward", "refused"}, Complete(c, r),
         r = "ok" => call[c].kind \notin WriteMsg
  PROVE  /\ call' \in [Caller -> CallSet] /\ CallsFollow /\ WaitsInv'
         /\ \A d \in Caller : d # c => call'[d] = call[d]
         /\ call'[c].at # "waiting"
         /\ \A d \in Caller : call'[d].res = "ok" /\ call[d].kind \in WriteMsg =>
              call'[d] = call[d]
<1>1. call' = [call EXCEPT ![c] = OnComplete(call[c], r, 0)]
  BY DEF Complete
<1> DEFINE one == OnComplete(call[c], r, 0)
<1>2. /\ call[c] \in CallSet /\ one \in CallSet
      /\ one.kind = call[c].kind /\ one.expect = call[c].expect
      /\ one.at # "waiting"
      /\ call[c].at # "idle" => one.at # "idle"
      /\ call[c].at # "waiting" => one = call[c]
      /\ call[c].at = "waiting" => \/ one.at = "done" /\ one.res = r /\ one.index = 0
                                   \/ one.at = "sending" /\ one.res = call[c].res
  <2>1. call[c] \in CallSet
    BY DEF TypeOK
  <2> QED BY <2>1, OnCompleteIs
<1> HIDE DEF one
<1>3. call' = [call EXCEPT ![c] = one]
  BY <1>1 DEF one
<1>4. call' \in [Caller -> CallSet] /\ call'[c] = one
      /\ \A d \in Caller : d # c => call'[d] = call[d]
  BY <1>2, <1>3 DEF TypeOK
<1>5. CallsFollow
  BY <1>2, <1>4 DEF CallsFollow, Begun
<1>6. WaitsInv'
  <2> SUFFICES ASSUME NEW d \in Caller
               PROVE  /\ call'[d].at = "waiting" => call'[d].kind \notin OneWayMsg
                      /\ call'[d].at \in {"sending", "waiting"} => call'[d].kind # "shutdown"
                      /\ call'[d].res = "ok" => call'[d].at = "done"
                      /\ call'[d].expect # 0 => call'[d].kind = "write"
    BY DEF WaitsInv
  <2>1. CASE d # c
    BY <2>1, <1>4 DEF WaitsInv
  <2>2. CASE d = c
    BY <2>2, <1>2, <1>4 DEF WaitsInv
  <2> QED BY <2>1, <2>2
<1>7. \A d \in Caller : call'[d].res = "ok" /\ call[d].kind \in WriteMsg => call'[d] = call[d]
  <2> SUFFICES ASSUME NEW d \in Caller, call'[d].res = "ok", call[d].kind \in WriteMsg
               PROVE  call'[d] = call[d]
    OBVIOUS
  <2>1. CASE d # c
    BY <2>1, <1>4
  <2>2. CASE d = c
    BY <2>2, <1>2, <1>4 DEF WaitsInv
  <2> QED BY <2>1, <2>2
<1> QED BY <1>2, <1>4, <1>5, <1>6, <1>7
----------------------------------------------------------------------------
(* The parts of the invariant under the changes the actions make to what   *)
(* each is about.                                                          *)

\* Responders stay while the entry at their index does.
LEMMA RespondersKept ==
  ASSUME TypeOK, TypeOK', CallsFollow, LogKept, RespondersInv,
         \A x \in responders' :
           /\ x \in responders
           /\ x[1] > committed' => x[1] \in 1..Len(log') /\ log'[x[1]] = log[x[1]]
  PROVE  RespondersInv'
<1> SUFFICES ASSUME NEW x \in responders'
             PROVE  Begun(x[2])' /\ (x[1] > committed' => IsOwn(x)')
  BY DEF RespondersInv
<1>1. x \in responders /\ x[1] \in Nat /\ x[2] \in Caller
  BY DEF TypeOK, Responder
<1>2. Begun(x[2]) /\ (x[1] > committed => IsOwn(x))
  BY <1>1 DEF RespondersInv
<1>3. Begun(x[2])'
  BY <1>1, <1>2 DEF CallsFollow, Begun
<1>4. ASSUME x[1] > committed' PROVE IsOwn(x)'
  <2>1. x[1] > committed
    BY <1>1, <1>4 DEF LogKept, TypeOK
  <2>2. x[1] \in 1..Len(log') /\ log'[x[1]] = log[x[1]]
    BY <1>4
  <2> QED BY <1>1, <1>2, <2>1, <2>2 DEF IsOwn, CallsFollow
<1> QED BY <1>3, <1>4

\* The answers that wait for the disk.
LEMMA PendingKept ==
  ASSUME TypeOK, CallsFollow, PendingInv, pending' \subseteq pending
  PROVE  PendingInv'
<1> SUFFICES ASSUME NEW x \in pending'
             PROVE  call'[x[2]].at # "idle" /\ call'[x[2]].kind = "rpc"
  BY DEF PendingInv, Begun
<1>1. x \in pending /\ x[2] \in Caller
  BY DEF TypeOK, Responder
<1> QED BY <1>1 DEF PendingInv, CallsFollow, Begun

\* The messages in the channel.
LEMMA ApiKept ==
  ASSUME TypeOK, CallsFollow, ApiInv, api' \in {api, <<>>}
  PROVE  ApiInv'
<1> SUFFICES ASSUME NEW i \in 1..Len(api')
             PROVE  call'[api'[i]].at # "idle"
  BY DEF ApiInv, Begun
<1>1. api' = api
  OBVIOUS
<1>2. api[i] \in Caller
  BY <1>1 DEF TypeOK
<1> QED BY <1>1, <1>2 DEF ApiInv, CallsFollow, Begun

\* A command of the worker that stays valid.
LEMMA CmdKept ==
  ASSUME TypeOK, TypeOK', CallsFollow, LogKept, BoundsInv, NEW cmd \in CmdSet, CmdInv(cmd),
         cmd.op # "func" => applied' <= cmd.last
  PROVE  CmdInv(cmd)'
<1>1. \A x \in cmd.rs : x \in Responder /\ x[1] \in Nat /\ x[2] \in Caller
  BY DEF CmdSet, Responder
<1>2. CASE cmd.op = "func"
  BY <1>1, <1>2 DEF CmdInv, CallsFollow, Begun
<1>3. CASE cmd.op # "func"
  <2>1. cmd.last <= committed /\ cmd.last \in Nat
    BY <1>3 DEF CmdInv, CmdSet
  <2>2. cmd.last <= committed'
    BY <2>1 DEF LogKept, TypeOK
  <2>3. ASSUME NEW x \in cmd.rs PROVE Begun(x[2])' /\ IsOwn(x)' /\ x[1] <= cmd.last
    <3>1. Begun(x[2]) /\ IsOwn(x) /\ x[1] <= cmd.last
      BY <1>3 DEF CmdInv
    <3>2. x[1] <= committed
      BY <1>1, <2>1, <3>1 DEF TypeOK
    <3> QED BY <1>1, <3>1, <3>2, OwnKept
  <2> QED BY <1>3, <2>2, <2>3 DEF CmdInv
<1> QED BY <1>2, <1>3

\* The queue of the worker, unchanged or gone.
LEMMA WorkerKept ==
  ASSUME TypeOK, TypeOK', CallsFollow, LogKept, BoundsInv, WorkerInv, OrderInv,
         smq' \in {smq, <<>>}, applied' = applied
  PROVE  WorkerInv' /\ OrderInv'
<1>1. CASE smq' = <<>>
  BY <1>1 DEF WorkerInv, OrderInv
<1>2. CASE smq' = smq
  <2>1. OrderInv'
    BY <1>2 DEF OrderInv
  <2>2. ASSUME NEW n \in 1..Len(smq) PROVE CmdInv(smq[n])'
    <3>1. smq[n] \in CmdSet /\ CmdInv(smq[n])
      BY DEF TypeOK, WorkerInv
    <3>2. PICK cmd \in CmdSet : cmd = smq[n]
      BY <3>1
    <3>3. CmdInv(cmd) /\ (cmd.op # "func" => applied' <= cmd.last)
      BY <3>1, <3>2 DEF CmdInv
    <3>4. CmdInv(cmd)'
      BY <3>3, CmdKept
    <3>5. cmd = smq'[n]
      BY <3>2, <1>2
    <3> QED BY <3>4, <3>5
  <2>3. WorkerInv'
    BY <1>2, <2>2 DEF WorkerInv
  <2> QED BY <2>1, <2>3
<1> QED BY <1>1, <1>2

\* A command is appended to the queue of the worker.
LEMMA WorkerGrows ==
  ASSUME TypeOK, TypeOK', CallsFollow, LogKept, BoundsInv, WorkerInv, OrderInv,
         NEW cmd \in CmdSet, smq' = Append(smq, cmd), CmdInv(cmd)',
         cmd.op # "func" => cmd.last >= committed, applied' = applied
  PROVE  WorkerInv' /\ OrderInv'
<1>1. /\ Len(smq') = Len(smq) + 1 /\ smq'[Len(smq) + 1] = cmd
      /\ \A n \in 1..Len(smq) : smq'[n] = smq[n]
      /\ Len(smq) \in Nat
  BY DEF TypeOK
<1>2. ASSUME NEW n \in 1..Len(smq) PROVE CmdInv(smq[n])'
  <2>1. smq[n] \in CmdSet /\ CmdInv(smq[n])
    BY DEF TypeOK, WorkerInv
  <2>2. PICK old \in CmdSet : old = smq[n]
    BY <2>1
  <2>3. CmdInv(old) /\ (old.op # "func" => applied' <= old.last)
    BY <2>1, <2>2 DEF CmdInv
  <2>4. CmdInv(old)'
    BY <2>3, CmdKept
  <2>5. old = smq'[n]
    BY <2>2, <1>1
  <2> QED BY <2>4, <2>5, <1>1
<1>3. WorkerInv'
  <2> SUFFICES ASSUME NEW n \in 1..Len(smq') PROVE CmdInv(smq[n])'
    BY DEF WorkerInv
  <2>1. CASE n \in 1..Len(smq)
    BY <1>2, <2>1
  <2>2. CASE n = Len(smq) + 1
    <3>1. smq'[n] = cmd
      BY <1>1, <2>2
    <3> QED BY <3>1
  <2> QED BY <1>1, <2>1, <2>2
<1>4. OrderInv'
  <2> SUFFICES ASSUME NEW m \in 1..Len(smq'), NEW n \in 1..Len(smq'), m < n,
                      smq'[m].op # "func", smq'[n].op # "func"
               PROVE  smq'[m].last <= smq'[n].last
    BY DEF OrderInv
  <2>1. CASE n \in 1..Len(smq)
    <3>1. m \in 1..Len(smq)
      BY <1>1, <2>1
    <3> QED BY <1>1, <2>1, <3>1 DEF OrderInv
  <2>2. CASE n = Len(smq) + 1
    <3>1. m \in 1..Len(smq) /\ smq'[m] = smq[m] /\ smq[m] \in CmdSet
      BY <1>1, <2>2 DEF TypeOK
    <3>2. smq[m].last <= committed /\ smq[m].last \in Nat
      BY <3>1 DEF WorkerInv, CmdInv, CmdSet
    <3>3. cmd.last >= committed /\ cmd.last \in Nat
      BY <1>1, <2>2 DEF CmdSet
    <3> QED BY <1>1, <2>2, <3>1, <3>2, <3>3 DEF TypeOK
  <2> QED BY <1>1, <2>1, <2>2
<1> QED BY <1>3, <1>4

\* Answers given before stay true.
LEMMA OkKept ==
  ASSUME TypeOK, TypeOK', CallsFollow, LogKept, BoundsInv, OkIsOwnEntry,
         \A c \in Caller : call'[c].res = "ok" /\ call[c].kind \in WriteMsg =>
           call'[c] = call[c],
         applied <= applied'
  PROVE  OkIsOwnEntry'
<1> SUFFICES ASSUME NEW c \in Caller, call'[c].kind \in WriteMsg, call'[c].res = "ok"
             PROVE  /\ call'[c].index \in 1..applied'
                    /\ log'[call'[c].index].by = c
                    /\ call'[c].expect \in {0, log'[call'[c].index].term}
  BY DEF OkIsOwnEntry
<1>1. call[c].kind \in WriteMsg /\ call'[c] = call[c] /\ call[c].res = "ok"
  BY DEF CallsFollow
<1>2. call[c].index \in 1..applied /\ log[call[c].index].by = c
      /\ call[c].expect \in {0, log[call[c].index].term}
  BY <1>1 DEF OkIsOwnEntry
<1>3. call[c].index \in 1..applied' /\ call[c].index \in 1..committed
  BY <1>2 DEF TypeOK, BoundsInv
<1>4. log'[call[c].index] = log[call[c].index]
  BY <1>3 DEF LogKept
<1> QED BY <1>1, <1>2, <1>3, <1>4

\* Nothing but calls changes, and none of them is answered.
LEMMA NobodyForgets ==
  ASSUME TypeOK, NoneForgotten,
         core' = core, worker' = worker,
         \A c \in Caller : call'[c].at = "waiting" => call[c].at = "waiting",
         \A c \in Caller : call'[c].at = "waiting" /\ c \in Held => c \in Held'
  PROVE  NoneForgotten'
BY DEF NoneForgotten
----------------------------------------------------------------------------
(* The steps of the callers.                                               *)

Rest == <<api, core, fate, coreVars, smq, worker, applied>>

\* One call goes from one of its stages to another, and nobody answers it.
LEMMA CallMoves ==
  ASSUME ApiSafe, NEW c \in Caller, NEW s \in CallSet,
         call' = [call EXCEPT ![c] = s],
         s.kind = call[c].kind, Begun(c) => s.expect = call[c].expect,
         s.at \notin {"idle", "waiting"}, s.at = "sending" => s.kind # "shutdown",
         s.expect # 0 => s.kind = "write", s.res # "ok", UNCHANGED Rest
  PROVE  ApiSafe'
<1>1. call' \in [Caller -> CallSet] /\ call'[c] = s
      /\ \A d \in Caller : d # c => call'[d] = call[d]
  BY DEF ApiSafe, TypeOK
<1>2. UNCHANGED <<api, core, fate, term, log, committed, applied, responders, pending,
                  submitted, smq, worker>>
  BY DEF Rest, coreVars
<1>3. TypeOK'
  BY <1>1, <1>2 DEF ApiSafe, TypeOK
<1>4. CallsFollow
  BY <1>1 DEF CallsFollow, Begun
<1>5. LogKept
  BY <1>2 DEF LogKept, ApiSafe, TypeOK, BoundsInv
<1>6. WaitsInv'
  BY <1>1 DEF WaitsInv, ApiSafe
<1>7. ApiInv'
  BY <1>2, <1>4, ApiKept DEF ApiSafe
<1>8. RespondersInv'
  <2>1. ASSUME NEW x \in responders', x[1] > committed'
        PROVE  x[1] \in 1..Len(log') /\ log'[x[1]] = log[x[1]]
    BY <1>2, <2>1 DEF ApiSafe, RespondersInv, IsOwn
  <2> QED BY <1>2, <1>3, <1>4, <1>5, <2>1, RespondersKept DEF ApiSafe
<1>9. PendingInv'
  BY <1>2, <1>4, PendingKept DEF ApiSafe
<1>10. WorkerInv' /\ OrderInv'
  BY <1>2, <1>3, <1>4, <1>5, WorkerKept DEF ApiSafe
<1>11. BoundsInv'
  BY <1>2 DEF ApiSafe, BoundsInv
<1>12. OkIsOwnEntry'
  <2>1. \A d \in Caller : call'[d].res = "ok" => call'[d] = call[d]
    BY <1>1
  <2>2. applied <= applied'
    BY <1>2 DEF ApiSafe, TypeOK
  <2> QED BY <1>3, <1>4, <1>5, <2>1, <2>2, OkKept DEF ApiSafe
<1>13. NoneForgotten'
  <2>1. Held' = Held
    BY <1>2 DEF Held, HeldByWorker, Holds
  <2>2. \A d \in Caller : call'[d].at = "waiting" => call[d].at = "waiting"
    BY <1>1
  <2> QED BY <1>2, <2>1, <2>2, NobodyForgets DEF ApiSafe
<1> QED BY <1>3, <1>6, <1>7, <1>8, <1>9, <1>10, <1>11, <1>12, <1>13 DEF ApiSafe

\* A call that has not ended has no answer.
LEMMA Unanswered ==
  ASSUME ApiSafe, NEW c \in Caller
  PROVE  /\ call[c] \in CallSet /\ (call[c].at # "done" => call[c].res # "ok")
         /\ call[c].expect # 0 => call[c].kind = "write"
BY DEF ApiSafe, TypeOK, WaitsInv

\* A call begins: whatever it expects was read before.
LEMMA BeginSafe ==
  ASSUME ApiSafe, NEW c \in Caller, NEW kind, kind # "shutdown",
         NEW e \in Nat, e # 0 => kind = "write", Begin(c, kind, e)
  PROVE  ApiSafe'
<1> DEFINE s == [call[c] EXCEPT !.at = "sending", !.expect = e]
<1>1. call[c] \in CallSet /\ call[c].at = "idle" /\ call[c].res # "ok"
      /\ call[c].kind = kind
  BY Unanswered DEF Begin
<1>2. call' = [call EXCEPT ![c] = s]
  BY DEF Begin
<1>3. s \in CallSet /\ s.kind = call[c].kind /\ s.at = "sending" /\ s.res = call[c].res
      /\ s.expect = e
  BY <1>1 DEF CallSet
<1>4. UNCHANGED Rest
  BY DEF Begin, Rest
<1> HIDE DEF s
<1> QED BY <1>1, <1>2, <1>3, <1>4, CallMoves DEF Begun

\* Every call of the API begins this way.
LEMMA CallsSafe ==
  ASSUME ApiSafe, NEW c \in Caller, Calls(c)
  PROVE  ApiSafe'
<1>1. CASE Shutdown(c)
  <2> DEFINE s == [call[c] EXCEPT !.at = "joining"]
  <2>1. call[c] \in CallSet /\ call[c].res # "ok"
        /\ (call[c].expect # 0 => call[c].kind = "write")
    BY <1>1, Unanswered DEF Shutdown
  <2>2. s \in CallSet /\ s.kind = call[c].kind /\ s.at = "joining" /\ s.res = call[c].res
        /\ s.expect = call[c].expect
    BY <2>1 DEF CallSet
  <2>3. call' = [call EXCEPT ![c] = s] /\ UNCHANGED Rest
    BY <1>1 DEF Shutdown, Rest
  <2> HIDE DEF s
  <2> QED BY <2>1, <2>2, <2>3, CallMoves
<1>2. CASE WriteWithLeader(c)
  <2>1. PICK t \in 1..term : Begin(c, "write", t)
    BY <1>2 DEF WriteWithLeader
  <2>2. t \in Nat
    BY DEF ApiSafe, TypeOK
  <2> QED BY <2>1, <2>2, BeginSafe
<1>3. CASE \E k \in Kind \ {"shutdown"} : Begin(c, k, 0)
  BY <1>3, BeginSafe
<1> USE DEF Kind, WriteMsg, CoreMsg, WorkerMsg, OneWayMsg
<1>5. {"write", "change", "state", "init", "rpc", "sm", "snapshot", "writeFf", "external",
       "smFf", "trigger", "elect", "transfer"} \subseteq Kind \ {"shutdown"}
  OBVIOUS
<1>6. Shutdown(c) \/ WriteWithLeader(c) \/ \E k \in Kind \ {"shutdown"} : Begin(c, k, 0)
  BY <1>5 DEF Calls, ClientWrite, ClientWriteFf, ChangeMembership, Initialize, WithRaftState,
     IsInitialized, ExternalRequest, AppendEntries, Vote, ReceiveSnapshot, WithStateMachine,
     ExternalStateMachineRequest, GetSnapshot, BeginReceivingSnapshot, TriggerElect, Trigger,
     TriggerTransferLeader
<1> QED BY <1>1, <1>2, <1>3, <1>6

\* The call is put in the channel: its sender is held there, or the caller
\* does not wait.
LEMMA SendMsgSafe ==
  ASSUME ApiSafe, NEW c \in Caller, SendMsg(c)
  PROVE  ApiSafe'
<1> DEFINE s == IF call[c].kind \in OneWayMsg
                THEN [call[c] EXCEPT !.at = "done", !.res = "ok"]
                ELSE [call[c] EXCEPT !.at = "waiting"]
<1>1. call[c] \in CallSet /\ call[c].at = "sending" /\ call[c].res # "ok"
  BY Unanswered DEF SendMsg
<1>2. call' = [call EXCEPT ![c] = s]
  BY DEF SendMsg, End
<1>3. s \in CallSet /\ s.kind = call[c].kind /\ s.expect = call[c].expect
      /\ s.at \in {"done", "waiting"}
      /\ (s.at = "done" => s.res = "ok" /\ call[c].kind \in OneWayMsg)
      /\ (s.at = "waiting" => s.res = call[c].res /\ call[c].kind \notin OneWayMsg)
  BY <1>1 DEF CallSet
<1> HIDE DEF s
<1>4. call' \in [Caller -> CallSet] /\ call'[c] = s
      /\ \A d \in Caller : d # c => call'[d] = call[d]
  BY <1>2, <1>3 DEF ApiSafe, TypeOK
<1>5. UNCHANGED <<core, fate, term, log, committed, applied, responders, pending,
                  submitted, smq, worker>> /\ api' = Append(api, c)
  BY DEF SendMsg, coreVars
<1>6. TypeOK'
  BY <1>4, <1>5 DEF ApiSafe, TypeOK
<1>7. CallsFollow
  BY <1>3, <1>4 DEF CallsFollow, Begun
<1>8. LogKept
  BY <1>5 DEF LogKept, ApiSafe, TypeOK, BoundsInv
<1>9. call[c].kind # "shutdown"
  BY <1>1 DEF ApiSafe, WaitsInv
<1>10. WaitsInv'
  BY <1>1, <1>3, <1>4, <1>9 DEF WaitsInv, ApiSafe
<1>11. ApiInv'
  <2>1. Len(api') = Len(api) + 1 /\ api'[Len(api) + 1] = c
        /\ \A i \in 1..Len(api) : api'[i] = api[i] /\ api[i] \in Caller
    BY <1>5 DEF ApiSafe, TypeOK
  <2>2. Len(api) \in Nat
    BY DEF ApiSafe, TypeOK
  <2> SUFFICES ASSUME NEW i \in 1..Len(api') PROVE call'[api'[i]].at # "idle"
    BY DEF ApiInv, Begun
  <2>3. CASE i \in 1..Len(api)
    BY <2>1, <2>3, <1>7 DEF ApiSafe, ApiInv, CallsFollow, Begun
  <2>4. CASE i = Len(api) + 1
    BY <2>1, <2>4, <1>3, <1>4
  <2> QED BY <2>1, <2>2, <2>3, <2>4
<1>12. RespondersInv'
  <2>1. ASSUME NEW x \in responders', x[1] > committed'
        PROVE  x[1] \in 1..Len(log') /\ log'[x[1]] = log[x[1]]
    BY <1>5, <2>1 DEF ApiSafe, RespondersInv, IsOwn
  <2> QED BY <1>5, <1>6, <1>7, <1>8, <2>1, RespondersKept DEF ApiSafe
<1>13. PendingInv'
  BY <1>5, <1>7, PendingKept DEF ApiSafe
<1>14. WorkerInv' /\ OrderInv'
  BY <1>5, <1>6, <1>7, <1>8, WorkerKept DEF ApiSafe
<1>15. BoundsInv'
  BY <1>5 DEF ApiSafe, BoundsInv
<1>16. OkIsOwnEntry'
  <2>1. \A d \in Caller : call'[d].res = "ok" /\ call[d].kind \in WriteMsg => call'[d] = call[d]
    BY <1>1, <1>3, <1>4 DEF WriteMsg, OneWayMsg
  <2>2. applied <= applied'
    BY <1>5 DEF ApiSafe, TypeOK
  <2> QED BY <1>6, <1>7, <1>8, <2>1, <2>2, OkKept DEF ApiSafe
<1>17. NoneForgotten'
  <2>1. Range(api') = Range(api) \cup {c}
    <3>1. Len(api') = Len(api) + 1 /\ api'[Len(api) + 1] = c /\ Len(api) \in Nat
          /\ DOMAIN api = 1..Len(api) /\ DOMAIN api' = 1..Len(api')
          /\ \A i \in 1..Len(api) : api'[i] = api[i]
      BY <1>5 DEF ApiSafe, TypeOK
    <3> QED BY <3>1 DEF Range
  <2>2. Held' = Held \cup {c}
    BY <2>1, <1>5 DEF Held, HeldByWorker, Holds
  <2> QED BY <1>4, <1>5, <2>2 DEF ApiSafe, NoneForgotten
<1> QED BY <1>6, <1>10, <1>11, <1>12, <1>13, <1>14, <1>15, <1>16, <1>17 DEF ApiSafe

\* The other stages of a call, and its cancellation.
LEMMA ProceedSafe ==
  ASSUME ApiSafe, NEW c \in Caller, Proceed(c) \/ Cancel(c)
  PROVE  ApiSafe'
<1>1. CASE SendMsg(c)
  BY <1>1, SendMsgSafe
<1>2. ASSUME NEW a \in {"joining", "owner", "watcher", "cancelled"}, call[c].at # "done",
             call' = [call EXCEPT ![c].at = a], UNCHANGED Rest
      PROVE  ApiSafe'
  <2> DEFINE s == [call[c] EXCEPT !.at = a]
  <2>1. call[c] \in CallSet /\ call[c].res # "ok"
        /\ (call[c].expect # 0 => call[c].kind = "write")
    BY <1>2, Unanswered
  <2>2. s \in CallSet /\ s.kind = call[c].kind /\ s.at = a /\ s.res = call[c].res
        /\ s.expect = call[c].expect
    BY <2>1 DEF CallSet
  <2>3. call' = [call EXCEPT ![c] = s] /\ UNCHANGED Rest
    BY <1>2
  <2> HIDE DEF s
  <2> QED BY <2>1, <2>2, <2>3, CallMoves
<1>3. ASSUME NEW r \in {"none", "wrongType", "unreachable", "Stopped", "StorageError", "Panicked"},
             call' = End(call, c, r), UNCHANGED Rest
      PROVE  ApiSafe'
  <2> DEFINE s == [call[c] EXCEPT !.at = "done", !.res = r]
  <2>1. call[c] \in CallSet /\ (call[c].expect # 0 => call[c].kind = "write")
    BY Unanswered
  <2>2. s \in CallSet /\ s.kind = call[c].kind /\ s.at = "done" /\ s.res = r
        /\ s.expect = call[c].expect
    BY <2>1 DEF CallSet
  <2>3. call' = [call EXCEPT ![c] = s] /\ UNCHANGED Rest
    BY <1>3 DEF End
  <2> HIDE DEF s
  <2> QED BY <2>1, <2>2, <2>3, CallMoves
<1>4. fate \in {"none", "Stopped", "StorageError", "Panicked"}
  BY DEF ApiSafe, TypeOK
<1>5. CASE SendFails(c)
  BY <1>2, <1>5 DEF SendFails, Rest
<1>6. CASE RecvFails(c)
  <2>1. UNCHANGED Rest /\ call[c].at # "done"
    BY <1>6 DEF RecvFails, Rest
  <2>2. call' = End(call, c, "wrongType") \/ call' = [call EXCEPT ![c].at = "joining"]
    BY <1>6 DEF RecvFails
  <2> QED BY <1>2, <1>3, <2>1, <2>2
<1>7. CASE JoinCoreTask(c)
  <2>1. UNCHANGED Rest /\ call[c].at # "done"
    BY <1>7 DEF JoinCoreTask, Rest
  <2>2. \/ call' = End(call, c, fate) \/ call' = [call EXCEPT ![c].at = "owner"]
        \/ call' = [call EXCEPT ![c].at = "watcher"]
    BY <1>7 DEF JoinCoreTask
  <2> QED BY <1>2, <1>3, <1>4, <2>1, <2>2
<1>8. CASE CoreExited(c)
  BY <1>3, <1>4, <1>8 DEF CoreExited, Rest
<1>9. CASE WatchEnds(c)
  BY <1>3, <1>4, <1>9 DEF WatchEnds, Rest
<1>10. CASE Cancel(c)
  BY <1>2, <1>10 DEF Cancel, Rest
<1> QED BY <1>1, <1>5, <1>6, <1>7, <1>8, <1>9, <1>10 DEF Proceed
----------------------------------------------------------------------------
(* RaftCore takes a message from the channel.                              *)

Taken(c) == api # <<>> /\ c = Head(api) /\ api' = Tail(api)

\* The rest of the channel.
LEMMA TakenIs ==
  ASSUME TypeOK, ApiInv, NEW c, Taken(c)
  PROVE  /\ c \in Caller /\ Begun(c) /\ api' \in Seq(Caller)
         /\ Range(api) = Range(api') \cup {c}
         /\ CallsFollow => ApiInv'
<1>1. /\ Len(api) \in Nat /\ Len(api) > 0 /\ c = api[1]
      /\ \A i \in 1..Len(api) : api[i] \in Caller
      /\ api' \in Seq(Caller) /\ Len(api') = Len(api) - 1
      /\ \A i \in 1..Len(api') : api'[i] = api[i + 1]
      /\ DOMAIN api = 1..Len(api) /\ DOMAIN api' = 1..Len(api')
  BY DEF TypeOK, Taken
<1>2. c \in Caller /\ Begun(c)
  BY <1>1 DEF ApiInv
<1>3. Range(api) = Range(api') \cup {c}
  <2>1. ASSUME NEW i \in 1..Len(api) PROVE api[i] \in Range(api') \cup {c}
    <3>1. CASE i = 1
      BY <1>1, <3>1
    <3>2. CASE i # 1
      <4>1. i - 1 \in 1..Len(api') /\ (i - 1) + 1 = i
        BY <1>1, <3>2
      <4>2. api'[i - 1] = api[i]
        BY <1>1, <4>1
      <4> QED BY <1>1, <4>1, <4>2 DEF Range
    <3> QED BY <3>1, <3>2
  <2>2. ASSUME NEW i \in 1..Len(api') PROVE api'[i] \in Range(api)
    <3>1. i + 1 \in 1..Len(api)
      BY <1>1
    <3> QED BY <1>1, <3>1 DEF Range
  <2>3. c \in Range(api)
    BY <1>1 DEF Range
  <2> QED BY <1>1, <2>1, <2>2, <2>3 DEF Range
<1>4. ASSUME CallsFollow PROVE ApiInv'
  <2> SUFFICES ASSUME NEW i \in 1..Len(api') PROVE call'[api'[i]].at # "idle"
    BY DEF ApiInv, Begun
  <2>1. i + 1 \in 1..Len(api) /\ api'[i] = api[i + 1]
    BY <1>1
  <2> QED BY <1>1, <1>4, <2>1 DEF ApiInv, CallsFollow, Begun
<1> QED BY <1>1, <1>2, <1>3, <1>4

\* The message is answered at once, or wants no answer.
LEMMA AnsweredSafe ==
  ASSUME ApiSafe, NEW c, Taken(c),
         call' \in [Caller -> CallSet], CallsFollow, WaitsInv',
         \A d \in Caller : d # c => call'[d] = call[d],
         call'[c].at # "waiting",
         \A d \in Caller : call'[d].res = "ok" /\ call[d].kind \in WriteMsg => call'[d] = call[d],
         term' \in Nat,
         UNCHANGED <<core, fate, log, committed, applied, responders, pending, submitted,
                     smq, worker>>
  PROVE  ApiSafe'
<1>1. c \in Caller /\ api' \in Seq(Caller) /\ Range(api) = Range(api') \cup {c} /\ ApiInv'
  BY TakenIs DEF ApiSafe
<1>2. TypeOK'
  BY <1>1 DEF ApiSafe, TypeOK
<1>3. LogKept
  BY DEF LogKept, ApiSafe, TypeOK, BoundsInv
<1>4. RespondersInv'
  <2>1. ASSUME NEW x \in responders', x[1] > committed'
        PROVE  x[1] \in 1..Len(log') /\ log'[x[1]] = log[x[1]]
    BY <2>1 DEF ApiSafe, RespondersInv, IsOwn
  <2> QED BY <1>2, <1>3, <2>1, RespondersKept DEF ApiSafe
<1>5. PendingInv'
  BY PendingKept DEF ApiSafe
<1>6. WorkerInv' /\ OrderInv'
  BY <1>2, <1>3, WorkerKept DEF ApiSafe
<1>7. BoundsInv'
  BY DEF ApiSafe, BoundsInv
<1>8. OkIsOwnEntry'
  <2>1. applied <= applied'
    BY DEF ApiSafe, TypeOK
  <2> QED BY <1>2, <1>3, <2>1, OkKept DEF ApiSafe
<1>9. NoneForgotten'
  <2>1. Held = Held' \cup {c}
    BY <1>1 DEF Held, HeldByWorker, Holds
  <2>2. \A d \in Caller : call'[d].at = "waiting" => call[d].at = "waiting" /\ d # c
    OBVIOUS
  <2> QED BY <2>1, <2>2 DEF ApiSafe, NoneForgotten
<1> QED BY <1>1, <1>2, <1>4, <1>5, <1>6, <1>7, <1>8, <1>9 DEF ApiSafe

\* A queue of responders with one more.
LEMMA HoldsMore ==
  ASSUME NEW q, NEW i, NEW c
  PROVE  Holds(q \cup {<<i, c>>}) = Holds(q) \cup {c}
<1> DEFINE y == <<i, c>>
<1>1. y[2] = c
  OBVIOUS
<1> HIDE DEF y
<1>2. Holds(q \cup {y}) = Holds(q) \cup {c}
  BY <1>1 DEF Holds
<1> QED BY <1>2 DEF y

\* The responder goes on to the log.
LEMMA WriteEntrySafe ==
  ASSUME ApiSafe, NEW c, Taken(c), WriteEntry(c), call[c].kind \in WriteMsg \cup {"writeFf"},
         call[c].expect \in {0, term}, UNCHANGED <<core, fate, worker, applied>>
  PROVE  ApiSafe'
<1>1. c \in Caller /\ Begun(c) /\ api' \in Seq(Caller) /\ Range(api) = Range(api') \cup {c}
  BY TakenIs DEF ApiSafe
<1>2. CASE role # "leader" \/ transfer
  <2>1. Complete(c, "forward") /\ UNCHANGED <<coreVars, smq>>
    BY <1>2 DEF WriteEntry, Reject
  <2>2. /\ call' \in [Caller -> CallSet] /\ CallsFollow /\ WaitsInv'
        /\ \A d \in Caller : d # c => call'[d] = call[d]
        /\ call'[c].at # "waiting"
        /\ \A d \in Caller : call'[d].res = "ok" /\ call[d].kind \in WriteMsg =>
             call'[d] = call[d]
    BY <1>1, <2>1, CompleteIs DEF ApiSafe
  <2>3. UNCHANGED <<log, committed, responders, pending, submitted>> /\ term' \in Nat
    BY <2>1 DEF coreVars, ApiSafe, TypeOK
  <2> QED BY <2>1, <2>2, <2>3, AnsweredSafe
<1>3. CASE ~(role # "leader" \/ transfer)
  <2> DEFINE e == Entry(term, c)
  <2>1. log' = Append(log, e) /\ responders' = responders \cup {<<Len(log) + 1, c>>}
        /\ UNCHANGED <<call, term, committed, pending, submitted, smq>>
    BY <1>3 DEF WriteEntry
  <2>2. e \in EntrySet /\ e.by = c /\ e.term = term
    BY <1>1 DEF Entry, EntrySet, ApiSafe, TypeOK
  <2> HIDE DEF e
  <2>3. /\ Len(log') = Len(log) + 1 /\ log' \in Seq(EntrySet) /\ Len(log) \in Nat
        /\ log'[Len(log) + 1] = e /\ \A i \in 1..Len(log) : log'[i] = log[i]
    BY <2>1, <2>2 DEF ApiSafe, TypeOK
  <2>4. <<Len(log) + 1, c>> \in Responder
    BY <1>1, <2>3 DEF Responder
  <2>5. TypeOK'
    BY <1>1, <2>1, <2>3, <2>4 DEF ApiSafe, TypeOK
  <2>6. CallsFollow
    BY <2>1 DEF CallsFollow, Begun
  <2>7. LogKept
    BY <2>1, <2>3 DEF LogKept, ApiSafe, TypeOK, BoundsInv
  <2>8. WaitsInv'
    BY <2>1 DEF WaitsInv, ApiSafe
  <2>9. ApiInv'
    BY <2>6, TakenIs DEF ApiSafe
  <2>10. RespondersInv'
    <3> SUFFICES ASSUME NEW x \in responders'
                 PROVE  call'[x[2]].at # "idle" /\ (x[1] > committed' => IsOwn(x)')
      BY DEF RespondersInv, Begun
    <3>1. CASE x \in responders
      <4>1. x[1] \in Nat
        BY <3>1 DEF ApiSafe, TypeOK, Responder
      <4>2. Begun(x[2]) /\ (x[1] > committed => IsOwn(x))
        BY <3>1 DEF ApiSafe, RespondersInv
      <4>3. ASSUME x[1] > committed PROVE IsOwn(x)'
        BY <2>1, <2>3, <4>1, <4>2, <4>3 DEF IsOwn
      <4> QED BY <2>1, <4>2, <4>3 DEF Begun
    <3>2. CASE x = <<Len(log) + 1, c>>
      <4>1. x[1] = Len(log) + 1 /\ x[2] = c
        BY <3>2
      <4>2. IsOwn(x)'
        BY <2>1, <2>2, <2>3, <4>1 DEF IsOwn
      <4> QED BY <1>1, <2>1, <4>1, <4>2 DEF Begun
    <3> QED BY <2>1, <3>1, <3>2
  <2>11. PendingInv'
    BY <2>1, <2>6, PendingKept DEF ApiSafe
  <2>12. WorkerInv' /\ OrderInv'
    BY <2>1, <2>5, <2>6, <2>7, WorkerKept DEF ApiSafe
  <2>13. BoundsInv'
    BY <2>1, <2>3 DEF ApiSafe, BoundsInv, TypeOK
  <2>14. OkIsOwnEntry'
    <3>1. applied <= applied'
      BY DEF ApiSafe, TypeOK
    <3> QED BY <2>1, <2>5, <2>6, <2>7, <3>1, OkKept DEF ApiSafe
  <2>15. NoneForgotten'
    <3>1. Holds(responders') = Holds(responders) \cup {c}
      BY <2>1, HoldsMore
    <3>2. Held \subseteq Held'
      BY <1>1, <2>1, <3>1 DEF Held, HeldByWorker, Holds
    <3> QED BY <2>1, <3>2 DEF ApiSafe, NoneForgotten
  <2> QED BY <2>5, <2>8, <2>9, <2>10, <2>11, <2>12, <2>13, <2>14, <2>15 DEF ApiSafe
<1> QED BY <1>2, <1>3

\* The answer waits for the disk.
LEMMA RespondWhenFlushedSafe ==
  ASSUME ApiSafe, NEW c, Taken(c), RespondWhenFlushed(c), call[c].kind = "rpc",
         UNCHANGED <<core, fate, worker, applied>>
  PROVE  ApiSafe'
<1>1. c \in Caller /\ Begun(c) /\ api' \in Seq(Caller) /\ Range(api) = Range(api') \cup {c}
  BY TakenIs DEF ApiSafe
<1>2. /\ submitted' = submitted + 1 /\ pending' = pending \cup {<<submitted + 1, c>>}
      /\ UNCHANGED <<call, term, log, committed, responders, smq>>
  BY DEF RespondWhenFlushed
<1>3. <<submitted + 1, c>> \in Responder
  BY <1>1 DEF Responder, ApiSafe, TypeOK
<1>4. TypeOK'
  <2>1. pending' \in SUBSET Responder
    BY <1>2, <1>3 DEF ApiSafe, TypeOK
  <2>2. submitted' \in Nat
    BY <1>2 DEF ApiSafe, TypeOK
  <2> QED BY <1>1, <1>2, <2>1, <2>2 DEF ApiSafe, TypeOK
<1>5. CallsFollow
  BY <1>2 DEF CallsFollow, Begun
<1>6. LogKept
  BY <1>2 DEF LogKept, ApiSafe, TypeOK, BoundsInv
<1>7. WaitsInv'
  BY <1>2 DEF WaitsInv, ApiSafe
<1>8. ApiInv'
  BY <1>5, TakenIs DEF ApiSafe
<1>9. RespondersInv'
  <2>1. ASSUME NEW x \in responders', x[1] > committed'
        PROVE  x[1] \in 1..Len(log') /\ log'[x[1]] = log[x[1]]
    BY <1>2, <2>1 DEF ApiSafe, RespondersInv, IsOwn
  <2> QED BY <1>2, <1>4, <1>5, <1>6, <2>1, RespondersKept DEF ApiSafe
<1>10. PendingInv'
  <2> SUFFICES ASSUME NEW x \in pending'
               PROVE  call'[x[2]].at # "idle" /\ call'[x[2]].kind = "rpc"
    BY DEF PendingInv, Begun
  <2>1. CASE x \in pending
    BY <1>2, <2>1 DEF ApiSafe, PendingInv, Begun
  <2>2. CASE x = <<submitted + 1, c>>
    <3>1. x[2] = c
      BY <2>2
    <3> QED BY <1>1, <1>2, <3>1 DEF Begun
  <2> QED BY <1>2, <2>1, <2>2
<1>11. WorkerInv' /\ OrderInv'
  BY <1>2, <1>4, <1>5, <1>6, WorkerKept DEF ApiSafe
<1>12. BoundsInv'
  BY <1>2 DEF ApiSafe, BoundsInv
<1>13. OkIsOwnEntry'
  <2>1. applied <= applied'
    BY DEF ApiSafe, TypeOK
  <2> QED BY <1>2, <1>4, <1>5, <1>6, <2>1, OkKept DEF ApiSafe
<1>14. NoneForgotten'
  <2>1. Holds(pending') = Holds(pending) \cup {c}
    BY <1>2, HoldsMore
  <2>2. Held \subseteq Held'
    BY <1>1, <1>2, <2>1 DEF Held, HeldByWorker, Holds
  <2> QED BY <1>2, <2>2 DEF ApiSafe, NoneForgotten
<1> QED BY <1>4, <1>7, <1>8, <1>9, <1>10, <1>11, <1>12, <1>13, <1>14 DEF ApiSafe

\* What the worker holds once a command is appended.
LEMMA HeldByWorkerGrows ==
  ASSUME TypeOK, NEW cmd \in CmdSet, smq' = Append(smq, cmd)
  PROVE  HeldByWorker' = HeldByWorker \cup Holds(cmd.rs)
<1>1. /\ Len(smq') = Len(smq) + 1 /\ smq'[Len(smq) + 1] = cmd
      /\ \A n \in 1..Len(smq) : smq'[n] = smq[n]
      /\ Len(smq) \in Nat
  BY DEF TypeOK
<1>2. 1..Len(smq') = 1..Len(smq) \cup {Len(smq) + 1} /\ Len(smq) + 1 \in 1..Len(smq')
  BY <1>1
<1> DEFINE old == {Holds(smq[n].rs) : n \in 1..Len(smq)}
           new == {Holds(smq'[n].rs) : n \in 1..Len(smq')}
<1>3. new = old \cup {Holds(cmd.rs)}
  BY <1>1, <1>2
<1>4. HeldByWorker = UNION old /\ HeldByWorker' = UNION new
  BY DEF HeldByWorker, Holds
<1> HIDE DEF old, new
<1> QED BY <1>3, <1>4, Zenon

\* The sender goes to the worker, or is dropped because the worker is gone.
LEMMA ForwardToWorkerSafe ==
  ASSUME ApiSafe, NEW c, Taken(c), ForwardToWorker(c), call[c].kind \in WorkerMsg \cup {"smFf"},
         UNCHANGED <<core, fate, worker, applied>>
  PROVE  ApiSafe'
<1>1. c \in Caller /\ Begun(c) /\ api' \in Seq(Caller) /\ Range(api) = Range(api') \cup {c}
  BY TakenIs DEF ApiSafe
<1> DEFINE cmd == [op |-> "func", first |-> 0, last |-> 0, rs |-> {<<0, c>>}]
<1>2. smq' = IF worker = "up" THEN Append(smq, cmd) ELSE smq
  BY DEF ForwardToWorker
<1>3. UNCHANGED <<call, term, log, committed, responders, pending, submitted>>
  BY DEF ForwardToWorker, coreVars
<1>4. cmd \in CmdSet /\ cmd.op = "func" /\ cmd.rs = {<<0, c>>}
  BY <1>1 DEF CmdSet, Responder
<1>5. Holds(cmd.rs) = {c}
  BY <1>4 DEF Holds
<1> HIDE DEF cmd
<1>6. smq' \in Seq(CmdSet)
  BY <1>2, <1>4 DEF ApiSafe, TypeOK
<1>7. TypeOK'
  BY <1>1, <1>3, <1>6 DEF ApiSafe, TypeOK
<1>8. CallsFollow
  BY <1>3 DEF CallsFollow, Begun
<1>9. LogKept
  BY <1>3 DEF LogKept, ApiSafe, TypeOK, BoundsInv
<1>10. WaitsInv'
  BY <1>3 DEF WaitsInv, ApiSafe
<1>11. ApiInv'
  BY <1>8, TakenIs DEF ApiSafe
<1>12. RespondersInv'
  <2>1. ASSUME NEW x \in responders', x[1] > committed'
        PROVE  x[1] \in 1..Len(log') /\ log'[x[1]] = log[x[1]]
    BY <1>3, <2>1 DEF ApiSafe, RespondersInv, IsOwn
  <2> QED BY <1>3, <1>7, <1>8, <1>9, <2>1, RespondersKept DEF ApiSafe
<1>13. PendingInv'
  BY <1>3, <1>8, PendingKept DEF ApiSafe
<1>14. WorkerInv' /\ OrderInv'
  <2>1. CASE worker = "up"
    <3>1. \A x \in cmd.rs : call'[x[2]].at # "idle" /\ call'[x[2]].kind \notin WriteMsg
      BY <1>1, <1>3, <1>4 DEF Begun, WriteMsg, WorkerMsg
    <3>2. CmdInv(cmd)'
      BY <1>4, <3>1 DEF CmdInv, Begun
    <3> QED BY <1>2, <1>4, <1>7, <1>8, <1>9, <2>1, <3>2, WorkerGrows DEF ApiSafe
  <2>2. CASE worker # "up"
    BY <1>2, <1>7, <1>8, <1>9, <2>2, WorkerKept DEF ApiSafe
  <2> QED BY <2>1, <2>2
<1>15. BoundsInv'
  BY <1>3 DEF ApiSafe, BoundsInv
<1>16. OkIsOwnEntry'
  <2>1. applied <= applied'
    BY DEF ApiSafe, TypeOK
  <2> QED BY <1>3, <1>7, <1>8, <1>9, <2>1, OkKept DEF ApiSafe
<1>17. NoneForgotten'
  <2>1. CASE worker = "up"
    <3>1. HeldByWorker' = HeldByWorker \cup {c}
      BY <1>2, <1>4, <1>5, <2>1, HeldByWorkerGrows DEF ApiSafe
    <3>2. Held \subseteq Held'
      BY <1>1, <1>3, <3>1 DEF Held, Holds
    <3> QED BY <1>3, <3>2 DEF ApiSafe, NoneForgotten
  <2>2. CASE worker # "up"
    BY <2>2 DEF NoneForgotten
  <2> QED BY <2>1, <2>2
<1> QED BY <1>7, <1>10, <1>11, <1>12, <1>13, <1>14, <1>15, <1>16, <1>17 DEF ApiSafe

\* A message of any kind.
LEMMA HandleApiMsgSafe ==
  ASSUME ApiSafe, HandleApiMsg
  PROVE  ApiSafe'
<1> DEFINE c == Head(api)
           k == call[c].kind
<1>1. Taken(c) /\ UNCHANGED <<core, fate, worker, applied>>
  BY DEF HandleApiMsg, Taken
<1>2. c \in Caller /\ Begun(c) /\ k \in Kind
  <2>1. c \in Caller /\ Begun(c)
    BY <1>1, TakenIs DEF ApiSafe
  <2> QED BY <2>1 DEF ApiSafe, TypeOK, CallSet
<1>3. (CASE k = "write"        -> HandleClientWrite(c)
        [] k = "writeFf"      -> WriteEntry(c)
        [] k = "change"       -> HandleChange(c)
        [] k = "init"         -> HandleInitialize(c)
        [] k = "state"        -> AnswerNow(c)
        [] k = "rpc"          -> RespondWhenFlushed(c)
        [] k \in WorkerMsg \cup {"smFf"} -> ForwardToWorker(c)
        [] k = "elect"        -> Elect /\ UNCHANGED <<call, smq>>
        [] k = "transfer"     -> TransferLeader
        [] OTHER              -> UNCHANGED <<call, coreVars, smq>>)
  BY DEF HandleApiMsg
<1> HIDE DEF c
<1>4. ASSUME NEW r \in {"ok", "forward", "refused"}, Complete(c, r), r = "ok" => k \notin WriteMsg,
             term' \in Nat, UNCHANGED <<log, committed, responders, pending, submitted, smq>>
      PROVE  ApiSafe'
  <2>1. /\ call' \in [Caller -> CallSet] /\ CallsFollow /\ WaitsInv'
        /\ \A d \in Caller : d # c => call'[d] = call[d]
        /\ call'[c].at # "waiting"
        /\ \A d \in Caller : call'[d].res = "ok" /\ call[d].kind \in WriteMsg =>
             call'[d] = call[d]
    BY <1>2, <1>4, CompleteIs DEF ApiSafe
  <2> QED BY <1>1, <1>4, <2>1, AnsweredSafe
<1>5. term \in Nat /\ term + 1 \in Nat
  BY DEF ApiSafe, TypeOK
<1>6. ASSUME NEW r \in {"forward", "refused"}, Reject(c, r) PROVE ApiSafe'
  BY <1>4, <1>5, <1>6 DEF Reject, coreVars
<1>7. ASSUME k \in OneWayMsg \cup {"shutdown"}, term' \in Nat,
             UNCHANGED <<call, log, committed, responders, pending, submitted, smq>>
      PROVE  ApiSafe'
  <2>1. call[c].at # "waiting"
    BY <1>2, <1>7 DEF ApiSafe, WaitsInv
  <2>2. call' \in [Caller -> CallSet] /\ CallsFollow /\ WaitsInv'
    BY <1>7 DEF ApiSafe, TypeOK, CallsFollow, Begun, WaitsInv
  <2> QED BY <1>1, <1>7, <2>1, <2>2, AnsweredSafe
<1>8. ASSUME Begun(c), k = "change" \/ k = "writeFf" PROVE call[c].expect = 0
  BY <1>2, <1>8 DEF ApiSafe, WaitsInv
<1>9. CASE k = "write"
  <2>1. HandleClientWrite(c)
    BY <1>3, <1>9 DEF WorkerMsg
  <2>2. CASE call[c].expect \notin {0, term}
    BY <1>6, <2>1, <2>2 DEF HandleClientWrite
  <2>3. CASE call[c].expect \in {0, term}
    BY <1>1, <1>9, <2>1, <2>3, WriteEntrySafe DEF HandleClientWrite, WriteMsg
  <2> QED BY <2>2, <2>3
<1>10. CASE k = "writeFf"
  <2>1. WriteEntry(c)
    BY <1>3, <1>10 DEF WorkerMsg
  <2> QED BY <1>1, <1>2, <1>8, <1>10, <2>1, WriteEntrySafe DEF WriteMsg
<1>11. CASE k = "change"
  <2>1. HandleChange(c)
    BY <1>3, <1>11 DEF WorkerMsg
  <2>2. Reject(c, "refused") \/ WriteEntry(c)
    BY <2>1 DEF HandleChange
  <2> QED BY <1>1, <1>2, <1>6, <1>8, <1>11, <2>2, WriteEntrySafe DEF WriteMsg
<1>12. CASE k = "init"
  <2>1. HandleInitialize(c)
    BY <1>3, <1>12 DEF WorkerMsg
  <2> QED BY <1>4, <1>5, <2>1 DEF HandleInitialize, Elect
<1>13. CASE k = "state"
  <2>1. AnswerNow(c)
    BY <1>3, <1>13 DEF WorkerMsg
  <2> QED BY <1>4, <1>5, <1>13, <2>1 DEF AnswerNow, coreVars, WriteMsg
<1>14. CASE k = "rpc"
  <2>1. RespondWhenFlushed(c)
    BY <1>3, <1>14 DEF WorkerMsg
  <2> QED BY <1>1, <1>14, <2>1, RespondWhenFlushedSafe
<1>15. CASE k \in WorkerMsg \cup {"smFf"}
  <2>1. ForwardToWorker(c)
    BY <1>3, <1>15 DEF WorkerMsg
  <2> QED BY <1>1, <1>15, <2>1, ForwardToWorkerSafe
<1>16. CASE k = "elect"
  <2>1. Elect /\ UNCHANGED <<call, smq>>
    BY <1>3, <1>16 DEF WorkerMsg
  <2> QED BY <1>5, <1>7, <1>16, <2>1 DEF Elect, OneWayMsg
<1>17. CASE k = "transfer"
  <2>1. TransferLeader
    BY <1>3, <1>17 DEF WorkerMsg
  <2> QED BY <1>5, <1>7, <1>17, <2>1 DEF TransferLeader, OneWayMsg
<1>18. CASE k \in {"external", "trigger", "shutdown"}
  <2>1. UNCHANGED <<call, coreVars, smq>>
    BY <1>3, <1>18 DEF WorkerMsg
  <2> QED BY <1>5, <1>7, <1>18, <2>1 DEF coreVars, OneWayMsg
<1> QED
  BY <1>2, <1>9, <1>10, <1>11, <1>12, <1>13, <1>14, <1>15, <1>16, <1>17, <1>18
  DEF Kind, WriteMsg, CoreMsg, WorkerMsg, OneWayMsg
----------------------------------------------------------------------------
(* The other steps of RaftCore and of the disk.                            *)

\* Everything RaftCore owns is dropped: whoever waited is no longer promised
\* anything.
LEMMA QuitSafe ==
  ASSUME ApiSafe, NEW why \in {"Stopped", "StorageError", "Panicked"}, Quit(why),
         call' \in [Caller -> CallSet], CallsFollow, WaitsInv',
         \A c \in Caller : call'[c].res = "ok" /\ call[c].kind \in WriteMsg => call'[c] = call[c],
         log' \in Seq(EntrySet), LogKept,
         UNCHANGED <<term, committed, submitted, smq, worker, applied>>
  PROVE  ApiSafe'
<1>1. core' = "quitting" /\ fate' = why /\ api' = <<>> /\ responders' = {} /\ pending' = {}
  BY DEF Quit
<1>2. api' \in Seq(Caller)
  BY <1>1
<1>3. TypeOK'
  BY <1>1, <1>2 DEF ApiSafe, TypeOK
<1>4. ApiInv'
  BY <1>1, ApiKept DEF ApiSafe
<1>5. RespondersInv' /\ PendingInv'
  BY <1>1 DEF RespondersInv, PendingInv
<1>6. WorkerInv' /\ OrderInv'
  BY <1>3, WorkerKept DEF ApiSafe
<1>7. BoundsInv'
  BY DEF ApiSafe, BoundsInv, LogKept
<1>8. OkIsOwnEntry'
  <2>1. applied <= applied'
    BY DEF ApiSafe, TypeOK
  <2> QED BY <1>3, <2>1, OkKept DEF ApiSafe
<1>9. NoneForgotten'
  BY <1>1 DEF NoneForgotten
<1> QED BY <1>3, <1>4, <1>5, <1>6, <1>7, <1>8, <1>9 DEF ApiSafe

\* A step that leaves the calls and the log alone.
LEMMA Idles ==
  ASSUME ApiSafe, UNCHANGED <<call, log, committed>>
  PROVE  /\ call' \in [Caller -> CallSet] /\ CallsFollow /\ WaitsInv' /\ LogKept
         /\ log' \in Seq(EntrySet)
         /\ \A c \in Caller : call'[c] = call[c]
BY DEF ApiSafe, TypeOK, CallsFollow, Begun, WaitsInv, LogKept, BoundsInv

\* RaftCore quits at the request of shutdown() or for a storage error.
LEMMA StopSafe ==
  ASSUME ApiSafe, RecvShutdown \/ StorageError
  PROVE  ApiSafe'
<1>1. UNCHANGED <<call, log, committed>>
      /\ UNCHANGED <<term, submitted, smq, worker, applied>>
  BY DEF RecvShutdown, StorageError
<1>2. Quit("Stopped") \/ Quit("StorageError")
  BY DEF RecvShutdown, StorageError
<1> QED BY <1>1, <1>2, Idles, QuitSafe

\* The vote changes, or the task or the worker ends.
LEMMA QuietSafe ==
  ASSUME ApiSafe, core' \in {"running", "quitting", "stopped"}, worker' \in {"up", "failed"},
         core' = core \/ core' # "running",
         term' \in Nat, smq' = smq \/ (smq' = <<>> /\ worker' = "failed"),
         worker' = worker \/ worker' # "up",
         UNCHANGED <<call, api, fate, log, committed, responders, pending, submitted, applied>>
  PROVE  ApiSafe'
<1>1. /\ call' \in [Caller -> CallSet] /\ CallsFollow /\ WaitsInv' /\ LogKept
      /\ \A c \in Caller : call'[c] = call[c]
  BY Idles
<1>2. smq' \in Seq(CmdSet)
  <2>1. CASE smq' = smq
    BY <2>1 DEF ApiSafe, TypeOK
  <2>2. CASE smq' = <<>>
    BY <2>2
  <2> QED BY <2>1, <2>2
<1>3. TypeOK'
  BY <1>2 DEF ApiSafe, TypeOK
<1>4. ApiInv'
  BY <1>1, ApiKept DEF ApiSafe
<1>5. RespondersInv'
  <2>1. ASSUME NEW x \in responders', x[1] > committed'
        PROVE  x[1] \in 1..Len(log') /\ log'[x[1]] = log[x[1]]
    BY <2>1 DEF ApiSafe, RespondersInv, IsOwn
  <2> QED BY <1>1, <1>3, <2>1, RespondersKept DEF ApiSafe
<1>6. PendingInv'
  BY <1>1, PendingKept DEF ApiSafe
<1>7. WorkerInv' /\ OrderInv'
  BY <1>1, <1>3, WorkerKept DEF ApiSafe
<1>8. BoundsInv'
  BY DEF ApiSafe, BoundsInv
<1>9. OkIsOwnEntry'
  <2>1. applied <= applied'
    BY DEF ApiSafe, TypeOK
  <2> QED BY <1>1, <1>3, <2>1, OkKept DEF ApiSafe
<1>10. NoneForgotten'
  <2>1. CASE core' = "running" /\ worker' = "up"
    <3>1. Held' = Held
      BY <2>1 DEF Held, HeldByWorker, Holds
    <3> QED BY <1>1, <2>1, <3>1 DEF ApiSafe, NoneForgotten
  <2>2. CASE ~(core' = "running" /\ worker' = "up")
    BY <2>2 DEF NoneForgotten
  <2> QED BY <2>1, <2>2
<1> QED BY <1>1, <1>3, <1>4, <1>5, <1>6, <1>7, <1>8, <1>9, <1>10 DEF ApiSafe

\* What a queue holds is answered, or still held.
LEMMA HoldsSplit ==
  ASSUME NEW q, NEW drained, NEW c \in Holds(q)
  PROVE  c \in Holds(drained) \/ c \in Holds(q \ drained)
BY DEF Holds

\* An IO is reported: the answers that waited for it are sent.
LEMMA LocalIOSafe ==
  ASSUME ApiSafe, LocalIO
  PROVE  ApiSafe'
<1> DEFINE done == DrainSatisfied(pending, flushed')
<1>1. CompleteAll(done, "ok") /\ pending' = pending \ done
  BY DEF LocalIO
<1>2. UNCHANGED <<api, core, fate, term, log, committed, responders, submitted, smq, worker,
                  applied>>
  BY DEF LocalIO
<1>3. done \in SUBSET Responder /\ done \subseteq pending
  BY DEF DrainSatisfied, ApiSafe, TypeOK
<1> HIDE DEF done
<1>4. /\ call' \in [Caller -> CallSet] /\ CallsFollow /\ WaitsInv'
      /\ \A c \in Caller :
           /\ c \notin Holds(done) => call'[c] = call[c]
           /\ c \in Holds(done) => call'[c].at # "waiting"
  BY <1>1, <1>3, CompleteAllIs DEF ApiSafe
<1>5. \A c \in Caller : call'[c].res = "ok" /\ call[c].kind \in WriteMsg => call'[c] = call[c]
  <2> SUFFICES ASSUME NEW c \in Caller, call'[c].res = "ok", call[c].kind \in WriteMsg
               PROVE  c \notin Holds(done)
    BY <1>4
  <2>1. ASSUME NEW x \in done, x[2] = c PROVE FALSE
    BY <1>3, <2>1 DEF ApiSafe, PendingInv, WriteMsg
  <2> QED BY <2>1 DEF Holds
<1>6. TypeOK'
  <2>1. pending' \in SUBSET Responder
    BY <1>1 DEF ApiSafe, TypeOK
  <2> QED BY <1>2, <1>4, <2>1 DEF ApiSafe, TypeOK
<1>7. LogKept
  BY <1>2 DEF LogKept, ApiSafe, TypeOK, BoundsInv
<1>8. ApiInv'
  BY <1>2, <1>4, ApiKept DEF ApiSafe
<1>9. RespondersInv'
  <2>1. ASSUME NEW x \in responders', x[1] > committed'
        PROVE  x[1] \in 1..Len(log') /\ log'[x[1]] = log[x[1]]
    BY <1>2, <2>1 DEF ApiSafe, RespondersInv, IsOwn
  <2> QED BY <1>2, <1>4, <1>6, <1>7, <2>1, RespondersKept DEF ApiSafe
<1>10. PendingInv'
  <2>1. pending' \subseteq pending
    BY <1>1
  <2> QED BY <1>4, <2>1, PendingKept DEF ApiSafe
<1>11. WorkerInv' /\ OrderInv'
  BY <1>2, <1>4, <1>6, <1>7, WorkerKept DEF ApiSafe
<1>12. BoundsInv'
  BY <1>2 DEF ApiSafe, BoundsInv
<1>13. OkIsOwnEntry'
  <2>1. applied <= applied'
    BY <1>2 DEF ApiSafe, TypeOK
  <2> QED BY <1>4, <1>5, <1>6, <1>7, <2>1, OkKept DEF ApiSafe
<1>14. NoneForgotten'
  <2> SUFFICES ASSUME core = "running", worker = "up", NEW c \in Caller,
                      call'[c].at = "waiting"
               PROVE  c \in Held'
    BY <1>2 DEF NoneForgotten
  <2>1. c \notin Holds(done) /\ call[c].at = "waiting"
    BY <1>4
  <2>2. c \in Held
    BY <2>1 DEF ApiSafe, NoneForgotten
  <2>3. c \in Holds(pending) => c \in Holds(pending')
    BY <1>1, <2>1, HoldsSplit
  <2>4. HeldByWorker' = HeldByWorker /\ Holds(responders') = Holds(responders)
    BY <1>2 DEF HeldByWorker, Holds
  <2>5. Held' = Range(api) \cup Holds(responders') \cup Holds(pending') \cup HeldByWorker'
    BY <1>2 DEF Held, Holds, HeldByWorker
  <2> QED BY <2>2, <2>3, <2>4, <2>5 DEF Held
<1> QED BY <1>4, <1>6, <1>8, <1>9, <1>10, <1>11, <1>12, <1>13, <1>14 DEF ApiSafe
----------------------------------------------------------------------------
(* The peers commit, truncate and install.                                 *)

\* The commit index goes to i: the responders up to it go to the worker with
\* the entries.  Before, truncation may have drained responders and replaced
\* the entries they waited for.
LEMMA ApplySafe ==
  ASSUME ApiSafe, NEW i \in Nat, NEW rs \in SUBSET responders, ApplyToStateMachine(i, rs),
         committed <= i, i <= Len(log'), log' \in Seq(EntrySet),
         \A j \in 1..committed : log'[j] = log[j],
         \A x \in rs : x[1] > committed => x[1] \in 1..Len(log') /\ log'[x[1]] = log[x[1]],
         call' \in [Caller -> CallSet], CallsFollow, WaitsInv',
         \A c \in Caller : call'[c].res = "ok" /\ call[c].kind \in WriteMsg => call'[c] = call[c],
         \A c \in Caller : call'[c].at = "waiting" =>
           call[c].at = "waiting" /\ (c \in Holds(responders) => c \in Holds(rs)),
         UNCHANGED <<term, submitted, worker, applied>>
  PROVE  ApiSafe'
<1>1. committed \in Nat /\ committed <= Len(log')
  BY DEF ApiSafe, TypeOK
<1>2. ASSUME committed' = i PROVE LogKept
  BY <1>1, <1>2 DEF LogKept
<1>3. ASSUME committed' = committed PROVE LogKept
  BY <1>1, <1>3 DEF LogKept
<1>4. ASSUME NEW why \in {"Panicked", "StorageError"}, Quit(why), UNCHANGED <<committed, smq>>
      PROVE  ApiSafe'
  BY <1>3, <1>4, QuitSafe
<1>5. rs \in SUBSET Responder /\ \A x \in rs : x[1] \in Nat /\ x[2] \in Caller
  BY DEF ApiSafe, TypeOK, Responder
<1>6. ASSUME committed' = i, responders' \subseteq rs,
             UNCHANGED <<core, fate, api, pending>>,
             \/ smq' = smq /\ i = committed
             \/ \E cmd \in CmdSet :
                  /\ smq' = Append(smq, cmd)
                  /\ cmd.op = "apply" /\ cmd.last = i
                  /\ \A x \in cmd.rs : x \in rs /\ x[1] > committed /\ x[1] <= i,
             Holds(rs) \subseteq Holds(responders') \cup HeldByWorker',
             HeldByWorker \subseteq HeldByWorker'
      PROVE  ApiSafe'
  <2>1. LogKept
    BY <1>2, <1>6
  <2>2. smq' \in Seq(CmdSet)
    <3>1. CASE smq' = smq
      BY <3>1 DEF ApiSafe, TypeOK
    <3>2. CASE smq' # smq
      <4>1. PICK cmd \in CmdSet : smq' = Append(smq, cmd)
        BY <1>6, <3>2
      <4> QED BY <4>1 DEF ApiSafe, TypeOK
    <3> QED BY <3>1, <3>2
  <2>3. responders' \in SUBSET Responder
    BY <1>5, <1>6
  <2>4. TypeOK'
    BY <1>6, <2>2, <2>3 DEF ApiSafe, TypeOK
  <2>5. ApiInv'
    BY <1>6, ApiKept DEF ApiSafe
  <2>6. RespondersInv'
    <3>1. ASSUME NEW x \in responders'
          PROVE  /\ x \in responders
                 /\ x[1] > committed' => x[1] \in 1..Len(log') /\ log'[x[1]] = log[x[1]]
      <4>1. x \in rs /\ x[1] \in Nat
        BY <1>5, <1>6
      <4> QED BY <1>1, <1>6, <4>1
    <3> QED BY <2>1, <2>4, <3>1, RespondersKept DEF ApiSafe
  <2>7. PendingInv'
    BY <1>6, PendingKept DEF ApiSafe
  <2>8. WorkerInv' /\ OrderInv'
    <3>1. CASE smq' = smq
      BY <2>1, <2>4, <3>1, WorkerKept DEF ApiSafe
    <3>2. CASE smq' # smq
      <4>1. PICK cmd \in CmdSet :
              /\ smq' = Append(smq, cmd)
              /\ cmd.op = "apply" /\ cmd.last = i
              /\ \A x \in cmd.rs : x \in rs /\ x[1] > committed /\ x[1] <= i
        BY <1>6, <3>2
      <4>2. ASSUME NEW x \in cmd.rs PROVE call'[x[2]].at # "idle" /\ IsOwn(x)' /\ x[1] <= i
        <5>1. x \in rs /\ x[1] > committed /\ x[1] <= i /\ x[1] \in Nat /\ x[2] \in Caller
              /\ x \in responders
          BY <1>5, <4>1
        <5>2. Begun(x[2]) /\ IsOwn(x)
          BY <5>1 DEF ApiSafe, RespondersInv
        <5>3. x[1] \in 1..Len(log') /\ log'[x[1]] = log[x[1]]
          BY <5>1
        <5> QED BY <5>1, <5>2, <5>3 DEF CallsFollow, IsOwn, Begun
      <4>3. applied' <= i
        BY <1>1 DEF ApiSafe, TypeOK, BoundsInv
      <4>4. CmdInv(cmd)'
        BY <1>6, <4>1, <4>2, <4>3 DEF CmdInv, Begun
      <4> QED BY <1>6, <2>1, <2>4, <4>1, <4>4, WorkerGrows DEF ApiSafe
    <3> QED BY <3>1, <3>2
  <2>9. BoundsInv'
    BY <1>1, <1>6 DEF ApiSafe, BoundsInv, TypeOK
  <2>10. OkIsOwnEntry'
    <3>1. applied <= applied'
      BY DEF ApiSafe, TypeOK
    <3> QED BY <2>1, <2>4, <3>1, OkKept DEF ApiSafe
  <2>11. NoneForgotten'
    <3> SUFFICES ASSUME core = "running", worker = "up", NEW c \in Caller,
                        call'[c].at = "waiting"
                 PROVE  c \in Held'
      BY <1>6 DEF NoneForgotten
    <3>1. c \in Held /\ (c \in Holds(responders) => c \in Holds(rs))
      BY DEF ApiSafe, NoneForgotten
    <3>2. Held' = Range(api) \cup Holds(responders') \cup Holds(pending) \cup HeldByWorker'
      BY <1>6 DEF Held, Holds, HeldByWorker
    <3> QED BY <1>6, <3>1, <3>2 DEF Held
  <2> QED BY <2>4, <2>5, <2>6, <2>7, <2>8, <2>9, <2>10, <2>11 DEF ApiSafe
<1>7. CASE i = committed
  <2>1. committed' = i /\ responders' = rs /\ UNCHANGED <<core, fate, api, pending, smq>>
    BY <1>7 DEF ApplyToStateMachine
  <2>2. HeldByWorker' = HeldByWorker /\ Holds(responders') = Holds(rs)
    BY <2>1 DEF HeldByWorker, Holds
  <2> QED BY <1>6, <1>7, <2>1, <2>2
<1>8. CASE i > committed /\ \E x \in rs : x[1] <= committed
  <2>1. Quit("Panicked") /\ UNCHANGED <<committed, smq>>
    BY <1>1, <1>5, <1>8 DEF ApplyToStateMachine
  <2> QED BY <1>4, <2>1
<1>9. CASE i > committed /\ worker = "failed" /\ \A x \in rs : x[1] > committed
  <2>1. Quit("StorageError") /\ UNCHANGED <<committed, smq>>
    BY <1>1, <1>9 DEF ApplyToStateMachine
  <2> QED BY <1>4, <2>1
<1>10. CASE i > committed /\ worker # "failed" /\ \A x \in rs : x[1] > committed
  <2> DEFINE up == DrainUpto(rs, i)
             cmd == [op |-> "apply", first |-> committed + 1, last |-> i, rs |-> up]
  <2>1. committed' = i /\ smq' = Append(smq, cmd) /\ responders' = rs \ up
        /\ UNCHANGED <<core, fate, api, pending>>
    BY <1>1, <1>10 DEF ApplyToStateMachine
  <2>2. up \subseteq rs /\ \A x \in up : x[1] <= i /\ x[1] > committed
    BY <1>10 DEF DrainUpto
  <2> HIDE DEF up
  <2>3. up \in SUBSET Responder
    BY <1>5, <2>2
  <2>4. cmd \in CmdSet /\ cmd.op = "apply" /\ cmd.last = i /\ cmd.rs = up
    BY <1>1, <2>3 DEF CmdSet
  <2> HIDE DEF cmd
  <2>5. HeldByWorker' = HeldByWorker \cup Holds(up)
    BY <2>1, <2>4, HeldByWorkerGrows DEF ApiSafe
  <2>6. Holds(rs) \subseteq Holds(responders') \cup HeldByWorker'
    BY <2>1, <2>5, HoldsSplit
  <2>7. responders' \subseteq rs
    BY <2>1
  <2>8. \A x \in cmd.rs : x \in rs /\ x[1] > committed /\ x[1] <= i
    BY <2>2, <2>4
  <2> QED BY <1>6, <2>1, <2>4, <2>5, <2>6, <2>7, <2>8
<1>11. i = committed \/ i > committed
  BY <1>1
<1>12. (\E x \in rs : x[1] <= committed) \/ \A x \in rs : x[1] > committed
  BY <1>1, <1>5
<1> QED BY <1>7, <1>8, <1>9, <1>10, <1>11, <1>12

\* Truncation tells the callers of the entries it takes away.
LEMMA TruncateIs ==
  ASSUME ApiSafe, NEW since, TruncateLog(since)
  PROVE  /\ call' \in [Caller -> CallSet] /\ CallsFollow /\ WaitsInv'
         /\ \A c \in Caller : call'[c].res = "ok" => call'[c] = call[c]
         /\ \A c \in Caller : call'[c].at = "waiting" =>
              /\ call[c].at = "waiting"
              /\ c \in Holds(responders) =>
                   c \in Holds(responders \ DrainFrom(responders, since))
<1> DEFINE drained == DrainFrom(responders, since)
<1>1. drained \in SUBSET Responder
  BY DEF DrainFrom, ApiSafe, TypeOK
<1>2. CompleteAll(drained, "forward")
  BY DEF TruncateLog
<1> HIDE DEF drained
<1>3. /\ call' \in [Caller -> CallSet] /\ CallsFollow /\ WaitsInv'
      /\ \A c \in Caller :
           /\ c \notin Holds(drained) => call'[c] = call[c]
           /\ c \in Holds(drained) => call'[c].at # "waiting"
           /\ call'[c].res = "ok" => call'[c] = call[c]
  BY <1>1, <1>2, CompleteAllIs DEF ApiSafe
<1>4. ASSUME NEW c \in Caller, call'[c].at = "waiting"
      PROVE  /\ call[c].at = "waiting"
             /\ c \in Holds(responders) => c \in Holds(responders \ drained)
  BY <1>3, <1>4, HoldsSplit
<1> QED BY <1>3, <1>4 DEF drained

\* The log after entries of the leader follow the first k of ours.
LEMMA SpliceIs ==
  ASSUME ApiSafe, NEW k \in 0..Len(log), NEW n \in Nat
  PROVE  LET s == SubSeq(log, 1, k) \o Fill(term, n)
         IN  s \in Seq(EntrySet) /\ Len(s) = k + n /\ \A j \in 1..k : s[j] = log[j]
<1> DEFINE a == SubSeq(log, 1, k)
           b == Fill(term, n)
<1>1. log \in Seq(EntrySet) /\ term \in Nat /\ Len(log) \in Nat
  BY DEF ApiSafe, TypeOK
<1>2. Entry(term, NoCaller) \in EntrySet
  BY <1>1 DEF Entry, EntrySet
<1> HIDE DEF EntrySet
<1>3. a \in Seq(EntrySet) /\ Len(a) = k /\ \A j \in 1..k : a[j] = log[j]
  BY <1>1
<1>4. b \in Seq(EntrySet) /\ Len(b) = n
  BY <1>2 DEF Fill
<1> HIDE DEF a, b
<1>5. a \o b \in Seq(EntrySet) /\ Len(a \o b) = k + n /\ \A j \in 1..k : (a \o b)[j] = a[j]
  BY <1>3, <1>4
<1> QED BY <1>3, <1>5 DEF a, b

\* A quorum has the entry at i: the log stays, the commit index moves.
LEMMA QuorumGrantedSafe ==
  ASSUME ApiSafe, NEW i \in 1..MaxIndex, QuorumGranted(i)
  PROVE  ApiSafe'
<1>1. ApplyToStateMachine(i, responders) /\ UNCHANGED <<call, log, term, submitted, worker, applied>>
      /\ i \in (committed + 1)..Len(log)
  BY DEF QuorumGranted
<1>2. i \in Nat /\ committed <= i /\ i <= Len(log') /\ log' \in Seq(EntrySet)
  BY <1>1 DEF ApiSafe, TypeOK
<1>3. \A x \in responders : x[1] > committed => x[1] \in 1..Len(log') /\ log'[x[1]] = log[x[1]]
  BY <1>1 DEF ApiSafe, RespondersInv, IsOwn
<1>4. call' \in [Caller -> CallSet] /\ CallsFollow /\ WaitsInv'
  BY <1>1 DEF ApiSafe, TypeOK, CallsFollow, Begun, WaitsInv
<1> QED BY <1>1, <1>2, <1>3, <1>4, ApplySafe

\* The blank entry of a new leader.
LEMMA EstablishLeaderSafe ==
  ASSUME ApiSafe, EstablishLeader
  PROVE  ApiSafe'
<1> DEFINE e == Entry(term, NoCaller)
<1>1. log' = Append(log, e)
      /\ UNCHANGED <<call, api, core, fate, term, committed, responders, pending, submitted, smq,
                     worker, applied>>
  BY DEF EstablishLeader, OnlyVoteChanges
<1>2. e \in EntrySet
  BY DEF Entry, EntrySet, ApiSafe, TypeOK
<1> HIDE DEF e
<1>3. /\ Len(log') = Len(log) + 1 /\ log' \in Seq(EntrySet) /\ Len(log) \in Nat
      /\ \A i \in 1..Len(log) : log'[i] = log[i]
  BY <1>1, <1>2 DEF ApiSafe, TypeOK
<1>4. call' \in [Caller -> CallSet] /\ CallsFollow /\ WaitsInv'
  BY <1>1 DEF ApiSafe, TypeOK, CallsFollow, Begun, WaitsInv
<1>5. TypeOK'
  BY <1>1, <1>3 DEF ApiSafe, TypeOK
<1>6. LogKept
  BY <1>1, <1>3 DEF LogKept, ApiSafe, TypeOK, BoundsInv
<1>7. ApiInv'
  BY <1>1, <1>4, ApiKept DEF ApiSafe
<1>8. RespondersInv'
  <2>1. ASSUME NEW x \in responders', x[1] > committed'
        PROVE  x[1] \in 1..Len(log') /\ log'[x[1]] = log[x[1]]
    <3>1. x[1] \in 1..Len(log)
      BY <1>1, <2>1 DEF ApiSafe, RespondersInv, IsOwn
    <3> QED BY <1>3, <3>1
  <2> QED BY <1>1, <1>4, <1>5, <1>6, <2>1, RespondersKept DEF ApiSafe
<1>9. PendingInv'
  BY <1>1, <1>4, PendingKept DEF ApiSafe
<1>10. WorkerInv' /\ OrderInv'
  BY <1>1, <1>4, <1>5, <1>6, WorkerKept DEF ApiSafe
<1>11. BoundsInv'
  BY <1>1, <1>3 DEF ApiSafe, BoundsInv, TypeOK
<1>12. OkIsOwnEntry'
  <2>1. applied <= applied'
    BY <1>1 DEF ApiSafe, TypeOK
  <2> QED BY <1>1, <1>4, <1>5, <1>6, <2>1, OkKept DEF ApiSafe
<1>13. NoneForgotten'
  <2>1. Held' = Held
    BY <1>1 DEF Held, HeldByWorker, Holds
  <2> QED BY <1>1, <2>1 DEF ApiSafe, NoneForgotten
<1> QED BY <1>4, <1>5, <1>7, <1>8, <1>9, <1>10, <1>11, <1>12, <1>13 DEF ApiSafe

\* The leader's entries: those they replace take their responders along.
LEMMA FollowerAppendSafe ==
  ASSUME ApiSafe, NEW keep \in 0..MaxIndex, NEW n \in 0..MaxIndex, NEW commit \in 0..MaxIndex,
         FollowerAppend(keep, n, commit)
  PROVE  ApiSafe'
<1> DEFINE conflict == n > 0 /\ keep < Len(log)
           rs == IF conflict THEN responders \ DrainFrom(responders, keep + 1)
                 ELSE responders
<1>1. /\ ApplyToStateMachine(commit, rs)
      /\ IF conflict THEN TruncateLog(keep + 1) ELSE UNCHANGED call
      /\ log' = IF n = 0 THEN log ELSE SubSeq(log, 1, keep) \o Fill(term, n)
      /\ UNCHANGED <<term, submitted, worker, applied>>
      /\ keep >= committed /\ commit \in committed..(keep + n)
  BY DEF FollowerAppend
<1>2. keep <= Len(log)
  BY DEF FollowerAppend, ApiSafe, TypeOK
<1>3. keep \in Nat /\ n \in Nat /\ commit \in Nat /\ committed \in Nat /\ Len(log) \in Nat
      /\ keep \in 0..Len(log) /\ committed <= commit
  BY <1>1, <1>2, ApiAssumption DEF ApiSafe, TypeOK
<1>4. /\ log' \in Seq(EntrySet) /\ commit <= Len(log')
      /\ \A j \in 1..keep : log'[j] = log[j]
      /\ ~conflict => Len(log') >= Len(log) /\ \A j \in 1..Len(log) : log'[j] = log[j]
      /\ keep <= Len(log')
  <2>1. CASE n = 0
    BY <1>1, <1>3, <2>1 DEF ApiSafe, TypeOK
  <2>2. CASE n # 0
    <3>1. log' \in Seq(EntrySet) /\ Len(log') = keep + n /\ \A j \in 1..keep : log'[j] = log[j]
      BY <1>1, <1>3, <2>2, SpliceIs
    <3> QED BY <1>1, <1>3, <2>2, <3>1
  <2> QED BY <2>1, <2>2
<1>5. rs \in SUBSET responders
  OBVIOUS
<1>6. \A x \in rs : x[1] > committed => x[1] \in 1..Len(log') /\ log'[x[1]] = log[x[1]]
  <2> SUFFICES ASSUME NEW x \in rs, x[1] > committed
               PROVE  x[1] \in 1..Len(log') /\ log'[x[1]] = log[x[1]]
    OBVIOUS
  <2>1. x \in responders /\ x[1] \in Nat /\ x[1] \in 1..Len(log)
    BY <1>5 DEF ApiSafe, TypeOK, Responder, RespondersInv, IsOwn
  <2>2. CASE conflict
    <3>1. x \notin DrainFrom(responders, keep + 1)
      BY <2>2
    <3>2. x[1] <= keep
      BY <1>3, <2>1, <3>1 DEF DrainFrom
    <3> QED BY <1>3, <1>4, <2>1, <3>2
  <2>3. CASE ~conflict
    BY <1>3, <1>4, <2>1, <2>3
  <2> QED BY <2>2, <2>3
<1>7. /\ call' \in [Caller -> CallSet] /\ CallsFollow /\ WaitsInv'
      /\ \A c \in Caller : call'[c].res = "ok" => call'[c] = call[c]
      /\ \A c \in Caller : call'[c].at = "waiting" =>
           call[c].at = "waiting" /\ (c \in Holds(responders) => c \in Holds(rs))
  <2>1. CASE conflict
    BY <1>1, <2>1, TruncateIs
  <2>2. CASE ~conflict
    BY <1>1, <2>2 DEF ApiSafe, TypeOK, CallsFollow, Begun, WaitsInv
  <2> QED BY <2>1, <2>2
<1>8. \A j \in 1..committed : log'[j] = log[j]
  BY <1>1, <1>3, <1>4
<1> HIDE DEF rs, conflict
<1> QED BY <1>1, <1>3, <1>4, <1>5, <1>6, <1>7, <1>8, ApplySafe

\* A snapshot: either everything uncommitted is truncated with its responders,
\* or no entry above the snapshot is touched.
LEMMA InstallFullSnapshotSafe ==
  ASSUME ApiSafe, NEW i \in 0..MaxIndex, NEW m \in 0..MaxIndex, InstallFullSnapshot(i, m)
  PROVE  ApiSafe'
<1> DEFINE conflict == i <= Len(log) /\ m < i
           cmd == [op |-> "install", first |-> i, last |-> i, rs |-> {}]
<1>1. /\ IF conflict
         THEN /\ log' = SubSeq(log, 1, committed) \o Fill(term, i - committed)
              /\ TruncateLog(committed + 1)
              /\ responders' = responders \ DrainFrom(responders, committed + 1)
         ELSE /\ log' = IF m >= i THEN log ELSE SubSeq(log, 1, m) \o Fill(term, i - m)
              /\ UNCHANGED <<call, responders>>
      /\ committed' = i /\ smq' = Append(smq, cmd)
      /\ UNCHANGED <<api, core, fate, term, pending, submitted, worker, applied>>
      /\ i \in (committed + 1)..MaxIndex /\ m >= committed
  BY DEF InstallFullSnapshot
<1>2. m <= Len(log)
  BY DEF InstallFullSnapshot, ApiSafe, TypeOK
<1>3. i \in Nat /\ m \in Nat /\ committed \in Nat /\ Len(log) \in Nat /\ i > committed
      /\ committed <= Len(log) /\ m \in 0..Len(log) /\ committed \in 0..Len(log)
      /\ i - committed \in Nat
  BY <1>1, <1>2, ApiAssumption DEF ApiSafe, TypeOK, BoundsInv
<1>4. /\ log' \in Seq(EntrySet) /\ i <= Len(log')
      /\ \A j \in 1..committed : log'[j] = log[j]
      /\ ~conflict /\ i <= Len(log) => log' = log
      /\ ~conflict /\ Len(log) < i => Len(log') = i
  <2>1. CASE conflict
    <3>1. log' \in Seq(EntrySet) /\ Len(log') = committed + (i - committed)
          /\ \A j \in 1..committed : log'[j] = log[j]
      <4>1. log' = SubSeq(log, 1, committed) \o Fill(term, i - committed)
        BY <1>1, <2>1
      <4>2. PICK n \in Nat : n = i - committed
        BY <1>3
      <4> QED BY <1>3, <4>1, <4>2, SpliceIs
    <3> QED BY <1>3, <2>1, <3>1
  <2>2. CASE ~conflict /\ m >= i
    BY <1>1, <1>3, <2>2 DEF ApiSafe, TypeOK
  <2>3. CASE ~conflict /\ m < i
    <3>1. i - m \in Nat
      BY <1>3, <2>3
    <3>2. log' \in Seq(EntrySet) /\ Len(log') = m + (i - m)
          /\ \A j \in 1..m : log'[j] = log[j]
      <4>1. log' = SubSeq(log, 1, m) \o Fill(term, i - m)
        BY <1>1, <1>3, <2>3
      <4>2. PICK n \in Nat : n = i - m
        BY <3>1
      <4> QED BY <1>3, <4>1, <4>2, SpliceIs
    <3> QED BY <1>1, <1>3, <2>3, <3>2
  <2> QED BY <1>3, <2>1, <2>2, <2>3
<1>5. /\ call' \in [Caller -> CallSet] /\ CallsFollow /\ WaitsInv'
      /\ \A c \in Caller : call'[c].res = "ok" => call'[c] = call[c]
      /\ \A c \in Caller : call'[c].at = "waiting" =>
           call[c].at = "waiting" /\ (c \in Holds(responders) => c \in Holds(responders'))
  <2>1. CASE conflict
    BY <1>1, <2>1, TruncateIs
  <2>2. CASE ~conflict
    BY <1>1, <2>2 DEF ApiSafe, TypeOK, CallsFollow, Begun, WaitsInv, Holds
  <2> QED BY <2>1, <2>2
<1>6. responders' \subseteq responders
  BY <1>1
<1>7. cmd \in CmdSet /\ cmd.op = "install" /\ cmd.last = i /\ cmd.rs = {}
  BY <1>3 DEF CmdSet
<1> HIDE DEF cmd
<1>8. smq' \in Seq(CmdSet)
  BY <1>1, <1>7 DEF ApiSafe, TypeOK
<1>9. responders' \in SUBSET Responder
  BY <1>6 DEF ApiSafe, TypeOK
<1>10. TypeOK'
  BY <1>1, <1>3, <1>4, <1>5, <1>8, <1>9 DEF ApiSafe, TypeOK
<1>11. LogKept
  BY <1>1, <1>3, <1>4 DEF LogKept
<1>12. ApiInv'
  BY <1>1, <1>5, ApiKept DEF ApiSafe
<1>13. RespondersInv'
  <2>1. ASSUME NEW x \in responders', x[1] > committed'
        PROVE  x[1] \in 1..Len(log') /\ log'[x[1]] = log[x[1]]
    <3>1. x \in responders /\ x[1] \in Nat /\ x[1] > i
      BY <1>1, <1>6, <2>1 DEF ApiSafe, TypeOK, Responder
    <3>2. x[1] \in 1..Len(log)
      BY <1>3, <3>1 DEF ApiSafe, RespondersInv, IsOwn
    <3>3. ~conflict
      <4>1. ASSUME conflict PROVE x[1] < committed + 1
        BY <1>1, <1>3, <3>1, <4>1 DEF DrainFrom
      <4> QED BY <1>3, <3>1, <4>1
    <3> QED BY <1>3, <1>4, <3>1, <3>2, <3>3
  <2> QED BY <1>5, <1>6, <1>10, <1>11, <2>1, RespondersKept DEF ApiSafe
<1>14. PendingInv'
  BY <1>1, <1>5, PendingKept DEF ApiSafe
<1>15. WorkerInv' /\ OrderInv'
  <2>1. applied' <= i
    BY <1>1, <1>3 DEF ApiSafe, TypeOK, BoundsInv
  <2>2. CmdInv(cmd)'
    BY <1>1, <1>3, <1>7, <2>1 DEF CmdInv
  <2>3. cmd.last >= committed
    BY <1>3, <1>7
  <2> QED BY <1>1, <1>5, <1>7, <1>10, <1>11, <2>2, <2>3, WorkerGrows DEF ApiSafe
<1>16. BoundsInv'
  BY <1>1, <1>3, <1>4 DEF ApiSafe, BoundsInv, TypeOK
<1>17. OkIsOwnEntry'
  <2>1. applied <= applied'
    BY <1>1 DEF ApiSafe, TypeOK
  <2> QED BY <1>5, <1>10, <1>11, <2>1, OkKept DEF ApiSafe
<1>18. NoneForgotten'
  <2>1. HeldByWorker \subseteq HeldByWorker'
    BY <1>1, <1>7, HeldByWorkerGrows DEF ApiSafe
  <2>2. Held' = Range(api) \cup Holds(responders') \cup Holds(pending) \cup HeldByWorker'
    BY <1>1 DEF Held, Holds, HeldByWorker
  <2> SUFFICES ASSUME core = "running", worker = "up", NEW c \in Caller,
                      call'[c].at = "waiting"
               PROVE  c \in Held'
    BY <1>1 DEF NoneForgotten
  <2>3. c \in Held /\ (c \in Holds(responders) => c \in Holds(responders'))
    BY <1>5 DEF ApiSafe, NoneForgotten
  <2> QED BY <2>1, <2>2, <2>3 DEF Held
<1> QED BY <1>5, <1>10, <1>12, <1>13, <1>14, <1>15, <1>16, <1>17, <1>18 DEF ApiSafe
----------------------------------------------------------------------------
(* The worker.                                                             *)

\* A command is executed and its responders are answered: those of an apply
\* command find their entry applied.
LEMMA WorkerLoopSafe ==
  ASSUME ApiSafe, WorkerLoop
  PROVE  ApiSafe'
<1> DEFINE cmd == Head(smq)
<1>1. /\ CompleteAll(cmd.rs, "ok") /\ smq' = Tail(smq) /\ smq # <<>>
      /\ applied' = IF cmd.op = "func" THEN applied ELSE cmd.last
  BY DEF WorkerLoop
<1>2. UNCHANGED <<api, core, fate, term, log, committed, responders, pending, submitted, worker>>
  BY DEF WorkerLoop, coreVars
<1>3. /\ Len(smq) \in Nat /\ Len(smq) > 0 /\ cmd = smq[1] /\ cmd \in CmdSet
      /\ smq' \in Seq(CmdSet) /\ Len(smq') = Len(smq) - 1
      /\ \A n \in 1..Len(smq') : smq'[n] = smq[n + 1] /\ smq[n + 1] \in CmdSet
  BY <1>1 DEF ApiSafe, TypeOK
<1> HIDE DEF cmd
<1>4. CmdInv(cmd)
  BY <1>3 DEF ApiSafe, WorkerInv
<1>5. cmd.rs \in SUBSET Responder /\ cmd.last \in Nat
  BY <1>3 DEF CmdSet
<1>6. /\ call' \in [Caller -> CallSet] /\ CallsFollow /\ WaitsInv'
      /\ \A c \in Caller :
           /\ c \notin Holds(cmd.rs) => call'[c] = call[c]
           /\ c \in Holds(cmd.rs) => call'[c].at # "waiting"
           /\ call'[c].res = "ok" /\ call[c].res # "ok" =>
                \E x \in cmd.rs : x[2] = c /\ call'[c].index = x[1]
           /\ call[c].res = "ok" => call'[c] = call[c]
  BY <1>1, <1>5, CompleteAllIs DEF ApiSafe
<1>7. applied' \in Nat /\ applied <= applied' /\ applied' <= committed
  BY <1>1, <1>4, <1>5 DEF CmdInv, ApiSafe, TypeOK, BoundsInv
<1>8. TypeOK'
  BY <1>2, <1>3, <1>6, <1>7 DEF ApiSafe, TypeOK
<1>9. LogKept
  BY <1>2 DEF LogKept, ApiSafe, TypeOK, BoundsInv
<1>10. ApiInv'
  BY <1>2, <1>6, ApiKept DEF ApiSafe
<1>11. RespondersInv'
  <2>1. ASSUME NEW x \in responders', x[1] > committed'
        PROVE  x[1] \in 1..Len(log') /\ log'[x[1]] = log[x[1]]
    BY <1>2, <2>1 DEF ApiSafe, RespondersInv, IsOwn
  <2> QED BY <1>2, <1>6, <1>8, <1>9, <2>1, RespondersKept DEF ApiSafe
<1>12. PendingInv'
  BY <1>2, <1>6, PendingKept DEF ApiSafe
<1>13. WorkerInv'
  <2> SUFFICES ASSUME NEW n \in 1..Len(smq') PROVE CmdInv(smq[n])'
    BY DEF WorkerInv
  <2>1. n + 1 \in 1..Len(smq) /\ n + 1 > 1 /\ 1 \in 1..Len(smq)
    BY <1>3
  <2>2. PICK old \in CmdSet : old = smq[n + 1] /\ old = smq'[n]
    BY <1>3
  <2>3. CmdInv(old)
    BY <2>1, <2>2 DEF ApiSafe, WorkerInv
  <2>4. ASSUME old.op # "func" PROVE applied' <= old.last
    <3>1. CASE cmd.op = "func"
      BY <1>1, <2>3, <2>4, <3>1 DEF CmdInv
    <3>2. CASE cmd.op # "func"
      BY <1>1, <1>3, <2>1, <2>2, <2>4, <3>2 DEF ApiSafe, OrderInv
    <3> QED BY <3>1, <3>2
  <2>5. CmdInv(old)'
    BY <1>6, <1>8, <1>9, <2>3, <2>4, CmdKept DEF ApiSafe
  <2> QED BY <2>2, <2>5
<1>14. OrderInv'
  <2> SUFFICES ASSUME NEW m \in 1..Len(smq'), NEW n \in 1..Len(smq'), m < n,
                      smq'[m].op # "func", smq'[n].op # "func"
               PROVE  smq'[m].last <= smq'[n].last
    BY DEF OrderInv
  <2>1. m + 1 \in 1..Len(smq) /\ n + 1 \in 1..Len(smq) /\ m + 1 < n + 1
        /\ smq'[m] = smq[m + 1] /\ smq'[n] = smq[n + 1]
    BY <1>3
  <2> QED BY <2>1 DEF ApiSafe, OrderInv
<1>15. BoundsInv'
  BY <1>2, <1>7 DEF ApiSafe, BoundsInv
<1>16. OkIsOwnEntry'
  <2> SUFFICES ASSUME NEW c \in Caller, call'[c].kind \in WriteMsg, call'[c].res = "ok"
               PROVE  /\ call'[c].index \in 1..applied'
                      /\ log'[call'[c].index].by = c
                      /\ call'[c].expect \in {0, log'[call'[c].index].term}
    BY DEF OkIsOwnEntry
  <2>1. call[c].kind \in WriteMsg
    BY <1>6 DEF CallsFollow
  <2>2. CASE call[c].res = "ok"
    <3>1. call[c].index \in 1..applied /\ log[call[c].index].by = c
          /\ call[c].expect \in {0, log[call[c].index].term} /\ call'[c] = call[c]
      BY <1>6, <2>1, <2>2 DEF ApiSafe, OkIsOwnEntry
    <3>2. call[c].index \in 1..applied'
      BY <1>7, <3>1 DEF ApiSafe, TypeOK
    <3> QED BY <1>2, <3>1, <3>2
  <2>3. CASE call[c].res # "ok"
    <3>1. PICK x \in cmd.rs : x[2] = c /\ call'[c].index = x[1]
      BY <1>6, <2>3
    <3>2. cmd.op # "func"
      BY <1>4, <2>1, <3>1 DEF CmdInv
    <3>3. IsOwn(x) /\ x[1] <= cmd.last /\ applied' = cmd.last /\ Begun(c)
      BY <1>1, <1>4, <3>1, <3>2 DEF CmdInv
    <3>4. x[1] \in 1..applied'
      BY <1>7, <3>3 DEF IsOwn
    <3> QED BY <1>2, <1>6, <3>1, <3>3, <3>4 DEF IsOwn, CallsFollow
  <2> QED BY <2>2, <2>3
<1>17. NoneForgotten'
  <2> SUFFICES ASSUME core = "running", worker = "up", NEW c \in Caller,
                      call'[c].at = "waiting"
               PROVE  c \in Held'
    BY <1>2 DEF NoneForgotten
  <2>1. c \notin Holds(cmd.rs) /\ call[c].at = "waiting"
    BY <1>6
  <2>2. c \in Held
    BY <2>1 DEF ApiSafe, NoneForgotten
  <2>3. c \in HeldByWorker => c \in HeldByWorker'
    <3> SUFFICES ASSUME NEW n \in 1..Len(smq), c \in Holds(smq[n].rs)
                 PROVE  \E k \in 1..Len(smq') : c \in Holds(smq'[k].rs)
      BY DEF HeldByWorker, Holds
    <3>1. n # 1
      BY <1>3, <2>1
    <3>2. n - 1 \in 1..Len(smq') /\ (n - 1) + 1 = n
      BY <1>3, <3>1
    <3>3. smq'[n - 1] = smq[n]
      BY <1>3, <3>2
    <3> QED BY <3>2, <3>3
  <2>4. Held' = Range(api) \cup Holds(responders) \cup Holds(pending) \cup HeldByWorker'
    BY <1>2 DEF Held, Holds, HeldByWorker
  <2> QED BY <2>2, <2>3, <2>4 DEF Held
<1> QED BY <1>6, <1>8, <1>10, <1>11, <1>12, <1>13, <1>14, <1>15, <1>16, <1>17 DEF ApiSafe
----------------------------------------------------------------------------
\* A fresh handle: no call has begun, and every queue is empty.
LEMMA InitSafe == Init => ApiSafe
<1> SUFFICES ASSUME Init PROVE ApiSafe
  OBVIOUS
<1>1. PICK plan \in Plans : call = [c \in Caller |-> Idle(plan.calls[c])]
  BY DEF Init
<1>2. plan.calls \in [Caller -> Kind]
  BY ApiAssumption
<1>3. \A k \in Kind : Idle(k) \in CallSet /\ Idle(k).at = "idle" /\ Idle(k).res = "none"
        /\ Idle(k).expect = 0
  BY DEF Idle, CallSet
<1> HIDE DEF CallSet
<1>4. call \in [Caller -> CallSet]
      /\ \A c \in Caller : call[c].at = "idle" /\ call[c].res = "none" /\ call[c].expect = 0
  BY <1>1, <1>2, <1>3
<1>5. Entry(1, NoCaller) \in EntrySet
  BY DEF Entry, EntrySet
<1> HIDE DEF EntrySet
<1>6. log \in Seq(EntrySet) /\ Len(log) = 1
  BY <1>5 DEF Init
<1>7. api = <<>> /\ smq = <<>> /\ api \in Seq(Caller) /\ smq \in Seq(CmdSet)
  BY DEF Init
<1>8. TypeOK
  BY <1>4, <1>6, <1>7 DEF Init, TypeOK
<1>9. WaitsInv /\ ApiInv /\ RespondersInv /\ PendingInv /\ WorkerInv /\ OrderInv
  BY <1>4, <1>7 DEF Init, WaitsInv, ApiInv, RespondersInv, PendingInv, WorkerInv, OrderInv
<1>10. BoundsInv
  BY <1>6 DEF Init, BoundsInv
<1>11. OkIsOwnEntry /\ NoneForgotten
  BY <1>4 DEF OkIsOwnEntry, NoneForgotten
<1> QED BY <1>8, <1>9, <1>10, <1>11 DEF ApiSafe

\* Every step keeps the invariant.
LEMMA NextSafe == ApiSafe /\ [Next]_vars => ApiSafe'
<1> SUFFICES ASSUME ApiSafe, [Next]_vars PROVE ApiSafe'
  OBVIOUS
<1>1. term \in Nat /\ term + 1 \in Nat
      /\ core \in {"running", "quitting", "stopped"} /\ worker \in {"up", "failed"}
  BY DEF ApiSafe, TypeOK
<1>2. CASE UNCHANGED vars
  <2>1. /\ core' \in {"running", "quitting", "stopped"} /\ (core' = core \/ core' # "running")
        /\ term' \in Nat /\ smq' = smq /\ worker' = worker
        /\ UNCHANGED <<call, api, fate, log, committed, responders, pending, submitted, applied>>
    BY <1>1, <1>2 DEF vars, coreVars
  <2> QED BY <1>1, <2>1, QuietSafe
<1>3. ASSUME NEW c \in Caller, Calls(c) \/ Proceed(c) \/ Cancel(c) PROVE ApiSafe'
  BY <1>3, CallsSafe, ProceedSafe
<1>4. CASE HandleApiMsg
  BY <1>4, HandleApiMsgSafe
<1>5. CASE RecvShutdown \/ StorageError
  BY <1>5, StopSafe
<1>6. CASE LocalIO
  BY <1>6, LocalIOSafe
<1>7. CASE CoreStops
  <2>1. /\ core' \in {"running", "quitting", "stopped"} /\ (core' = core \/ core' # "running")
        /\ term' \in Nat /\ smq' = smq /\ worker' = worker
        /\ UNCHANGED <<call, api, fate, log, committed, responders, pending, submitted, applied>>
    BY <1>1, <1>7 DEF CoreStops, coreVars
  <2> QED BY <1>1, <2>1, QuietSafe
<1>8. CASE HigherVote
  <2>1. /\ core' \in {"running", "quitting", "stopped"} /\ (core' = core \/ core' # "running")
        /\ term' \in Nat /\ smq' = smq /\ worker' = worker
        /\ UNCHANGED <<call, api, fate, log, committed, responders, pending, submitted, applied>>
    BY <1>1, <1>8 DEF HigherVote, OnlyVoteChanges
  <2> QED BY <1>1, <2>1, QuietSafe
<1>9. CASE TickElection
  <2>1. /\ core' \in {"running", "quitting", "stopped"} /\ (core' = core \/ core' # "running")
        /\ term' \in Nat /\ smq' = smq /\ worker' = worker
        /\ UNCHANGED <<call, api, fate, log, committed, responders, pending, submitted, applied>>
    BY <1>1, <1>9 DEF TickElection, Elect
  <2> QED BY <1>1, <2>1, QuietSafe
<1>10. CASE EstablishLeader
  BY <1>10, EstablishLeaderSafe
<1>11. ASSUME NEW i \in 1..MaxIndex, QuorumGranted(i) PROVE ApiSafe'
  BY <1>11, QuorumGrantedSafe
<1>12. ASSUME NEW keep \in 0..MaxIndex, NEW n \in 0..MaxIndex, NEW commit \in 0..MaxIndex,
              FollowerAppend(keep, n, commit)
       PROVE  ApiSafe'
  BY <1>12, FollowerAppendSafe
<1>13. ASSUME NEW i \in 0..MaxIndex, NEW m \in 0..MaxIndex, InstallFullSnapshot(i, m)
       PROVE  ApiSafe'
  BY <1>13, InstallFullSnapshotSafe
<1>14. CASE WorkerLoop
  BY <1>14, WorkerLoopSafe
<1>15. CASE WorkerFails
  <2>1. /\ core' \in {"running", "quitting", "stopped"} /\ worker' \in {"up", "failed"}
        /\ core' = core \/ core' # "running"
        /\ term' \in Nat /\ (smq' = smq \/ (smq' = <<>> /\ worker' = "failed"))
        /\ worker' = worker \/ worker' # "up"
        /\ UNCHANGED <<call, api, fate, log, committed, responders, pending, submitted, applied>>
    BY <1>1, <1>15 DEF WorkerFails, coreVars
  <2> QED BY <2>1, QuietSafe
<1> QED
  BY <1>2, <1>3, <1>4, <1>5, <1>6, <1>7, <1>8, <1>9, <1>10, <1>11, <1>12, <1>13, <1>14, <1>15
  DEF Next, Core, Peers

\* The queues that hold senders, and the entries they are kept with, whatever
\* the callers do and the peers send.
THEOREM ApiInvariant == Spec => []ApiSafe
BY InitSafe, NextSafe, PTL DEF Spec

\* Raft::client_write answers Ok only when the entry of this very call is
\* applied under the index of the answer, and was appended in the term of the
\* leader the caller asked for.
THEOREM Answers == Spec => []OkIsOwnEntry
<1>1. ApiSafe => OkIsOwnEntry
  BY DEF ApiSafe
<1> QED BY <1>1, ApiInvariant, PTL

\* While RaftCore and the worker run, a caller that waits has a sender that
\* somebody holds: recv_msg fails only when the task is gone.
THEOREM Senders == Spec => []NoneForgotten
<1>1. ApiSafe => NoneForgotten
  BY DEF ApiSafe
<1> QED BY <1>1, ApiInvariant, PTL
============================================================================
