------------------------------ MODULE Session ------------------------------
(***************************************************************************)
(* The login of clients at the proxy: ProxyServer hands out one of its     *)
(* client ids per client process (meta-server/proxy_server.py, client.py). *)
(* The proxy is a single-threaded XML-RPC server, so each of its methods   *)
(* is one step; a client makes several calls, and other clients come in    *)
(* between.                                                                *)
(***************************************************************************)
EXTENDS Naturals, FiniteSets

CONSTANTS
  Client,   \* client processes that may run at the same time
  Count,    \* client_count: the ids are 0..Count-1
  NoId      \* None

ASSUME SessionAssumption ==
  /\ Count \in Nat \ {0}
  /\ NoId \notin 0..(Count - 1)

VARIABLES
  slots,    \* client_ids of the proxy
  pc,       \* where a client is: "off", "login", "getId" or "loop"
  id        \* self.id of a client

sessionVars == <<slots, pc, id>>
Id   == 0..(Count - 1)

SessionInit ==
  /\ slots = [i \in Id |-> FALSE]
  /\ pc = [c \in Client |-> "off"]
  /\ id = [c \in Client |-> NoId]

Launch(c) ==
  /\ pc[c] = "off"
  /\ pc' = [pc EXCEPT ![c] = "login"]
  /\ UNCHANGED <<slots, id>>

\* authenticate.  A client that is refused goes on to its command loop all
\* the same, without an id.
Authenticate(c, ok) ==
  /\ pc[c] = "login"
  /\ pc' = [pc EXCEPT ![c] = IF ok THEN "getId" ELSE "loop"]
  /\ UNCHANGED <<slots, id>>

\* get_id: the first free id, or None when there is none.
GetId(c) ==
  /\ pc[c] = "getId"
  /\ IF \A i \in Id : slots[i]
     THEN UNCHANGED <<slots, id>>
     ELSE \E i \in Id : /\ ~slots[i]
                        /\ \A j \in Id : j < i => slots[j]
                        /\ slots' = [slots EXCEPT ![i] = TRUE]
                        /\ id' = [id EXCEPT ![c] = i]
  /\ pc' = [pc EXCEPT ![c] = "loop"]

Leave(c) ==
  /\ pc' = [pc EXCEPT ![c] = "off"]
  /\ id' = [id EXCEPT ![c] = NoId]

\* A mutant: exit frees the first slot.
ExitFirstSlot(c) ==
  /\ pc[c] = "loop"
  /\ slots' = IF id[c] = NoId THEN slots ELSE [slots EXCEPT ![0] = FALSE]
  /\ Leave(c)

\* EXIT typed as such: the proxy frees the id and the client ends.  Without
\* an id the proxy's method raises TypeError, and the client ends on that.
Exit(c) ==
  /\ pc[c] = "loop"
  /\ slots' = IF id[c] = NoId THEN slots ELSE [slots EXCEPT ![id[c]] = FALSE]
  /\ Leave(c)

\* A data command indexes the proxy's servers with the id: without one the
\* call fails and the client ends.
CommandWithoutId(c) ==
  /\ pc[c] = "loop" /\ id[c] = NoId
  /\ Leave(c)
  /\ UNCHANGED slots

\* Ctrl-C ends the loop, or the login, without a word to the proxy.
Interrupt(c) ==
  /\ pc[c] # "off"
  /\ Leave(c)
  /\ UNCHANGED slots

SessionNext ==
  \E c \in Client : \/ Launch(c)
                    \/ \E ok \in BOOLEAN : Authenticate(c, ok)
                    \/ GetId(c)
                    \/ Exit(c)
                    \/ CommandWithoutId(c)
                    \/ Interrupt(c)

SessionSpec == SessionInit /\ [][SessionNext]_sessionVars
----------------------------------------------------------------------------
SessionTypeOK ==
  /\ slots \in [Id -> BOOLEAN]
  /\ pc \in [Client -> {"off", "login", "getId", "loop"}]
  /\ id \in [Client -> Id \cup {NoId}]

\* Two clients in their command loops never have the same id: they would use
\* the same server, and the first EXIT would free the id under the other.
\* get_id and exit keep this even when clients are interrupted.
NoSharedId ==
  \A c, d \in Client : c # d /\ id[c] # NoId => id[c] # id[d]

\* A client in its command loop has an id unless it was refused one, and the
\* id it has is marked at the proxy: it will not be handed out again.
HeldIsMarked ==
  \A c \in Client : id[c] # NoId => slots[id[c]] /\ pc[c] = "loop"
============================================================================
