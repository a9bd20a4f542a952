------------------------------ MODULE WebServer -----------------------------
(***************************************************************************)
(* The dashboard server of netzer-cli (src/netzer-cli/src/web/mod.rs): the *)
(* channel the capture thread broadcasts into, the broadcaster thread that *)
(* fans every message out to the registered sockets, the listener, and one *)
(* handler thread per connection that answers a request or upgrades it and *)
(* registers the socket under the mutex.                                   *)
(*                                                                         *)
(* A message is its number, 1, 2, 3, ...; a client is a connection, by its *)
(* number in the order they are accepted.  Of what was written to a socket *)
(* the model keeps the control frames (head), the number of the last       *)
(* packet frame (pos) and whether it ends inside of a frame (torn).        *)
(***************************************************************************)
EXTENDS Integers, Sequences, FiniteSets, SequencesExt

CONSTANTS
  MaxConnections,   \* bound: connections accepted
  MaxMsgs           \* bound: messages the capture thread broadcasts

ASSUME WebAssumption == {MaxConnections, MaxMsgs} \subseteq Nat

Clients == 1 .. MaxConnections

VARIABLES
  sent,        \* number of messages broadcast
  queue,       \* the mpsc channel
  lock,        \* owner of the mutex around clients, or FREE
  clients,     \* the vector of registered sockets
  bpc,         \* where the broadcaster is
  cur,         \* the message it received last
  idx,         \* its position in clients
  to_remove,   \* indexes of the sockets it failed to write to
  listener,    \* the listener thread
  hpc,         \* where the handler of each connection is
  peer,        \* the other end of each connection: reading, or gone for good
  head,        \* responses and control frames written to each socket
  pos,         \* the last packet frame written to each socket
  torn,        \* has a frame been cut short on this socket?
  failed       \* history: sockets a broadcast failed for

channel == <<sent, queue>>
shared == <<lock, clients>>
broadcaster == <<bpc, cur, idx, to_remove, failed>>
handlers == <<listener, hpc, peer>>
sockets == <<head, pos, torn>>
vars == <<channel, shared, broadcaster, handlers, sockets>>

FREE == 0
BROADCASTER == -1

Init ==
  /\ sent = 0
  /\ queue = <<>>
  /\ lock = FREE
  /\ clients = <<>>
  /\ bpc = "recv"
  /\ cur = 0
  /\ idx = 1
  /\ to_remove = <<>>
  /\ failed = {}
  /\ listener = "bind"
  /\ hpc = [c \in Clients |-> "none"]
  /\ peer = [c \in Clients |-> "none"]
  /\ head = [c \in Clients |-> <<>>]
  /\ pos = [c \in Clients |-> 0]
  /\ torn = [c \in Clients |-> FALSE]

-----------------------------------------------------------------------------
(* The capture thread. *)

\* broadcast: send into the unbounded channel; never waits.
Broadcast ==
  /\ sent < MaxMsgs
  /\ sent' = sent + 1
  /\ queue' = Append(queue, sent + 1)
  /\ UNCHANGED <<shared, broadcaster, handlers, sockets>>

-----------------------------------------------------------------------------
(* The broadcaster thread. *)

\* rx.recv returns a message.
Receive ==
  /\ bpc = "recv"
  /\ queue # <<>>
  /\ cur' = Head(queue)
  /\ queue' = Tail(queue)
  /\ bpc' = "lock"
  /\ UNCHANGED <<sent, shared, idx, to_remove, failed, handlers, sockets>>

\* lock().unwrap(); an empty to_remove; the loop over clients starts.
LockClients ==
  /\ bpc = "lock"
  /\ lock = FREE
  /\ lock' = BROADCASTER
  /\ idx' = 1
  /\ to_remove' = <<>>
  /\ bpc' = "write"
  /\ UNCHANGED <<channel, clients, cur, failed, handlers, sockets>>

\* write_all and flush take the whole frame.
WriteWhole ==
  /\ bpc = "write"
  /\ idx <= Len(clients)
  /\ peer[clients[idx]] = "reading"
  /\ pos' = [pos EXCEPT ![clients[idx]] = cur]
  /\ idx' = idx + 1
  /\ UNCHANGED <<channel, shared, bpc, cur, to_remove, failed, handlers, head, torn>>

\* seeded fault: the error is ignored, the socket stays registered
WriteFails_Ignored ==
  /\ bpc = "write"
  /\ idx <= Len(clients)
  /\ \E cut \in BOOLEAN : torn' = [torn EXCEPT ![clients[idx]] = @ \/ cut]
  /\ idx' = idx + 1
  /\ failed' = failed \cup {clients[idx]}
  /\ UNCHANGED <<channel, shared, bpc, cur, to_remove, handlers, head, pos>>

\* seeded fault: the error ends the thread
WriteFails_Ends ==
  /\ bpc = "write"
  /\ idx <= Len(clients)
  /\ bpc' = "ended"
  /\ lock' = FREE
  /\ failed' = failed \cup {clients[idx]}
  /\ UNCHANGED <<channel, clients, cur, idx, to_remove, handlers, sockets>>

\* write_all fails: the peer is gone, or it has not drained its buffer for
\* 100 ms (the write timeout), and then part of the frame may have been written.
WriteFails ==
  /\ bpc = "write"
  /\ idx <= Len(clients)
  /\ \E cut \in BOOLEAN : torn' = [torn EXCEPT ![clients[idx]] = @ \/ cut]
  /\ to_remove' = Append(to_remove, idx)
  /\ idx' = idx + 1
  /\ failed' = failed \cup {clients[idx]}
  /\ UNCHANGED <<channel, shared, bpc, cur, handlers, head, pos>>

WritesDone ==
  /\ bpc = "write"
  /\ idx > Len(clients)
  /\ bpc' = "remove"
  /\ UNCHANGED <<channel, shared, cur, idx, to_remove, failed, handlers, sockets>>

\* seeded fault: the indexes are removed in the order they were found
RemoveFailed_Forward ==
  /\ bpc = "remove"
  /\ to_remove # <<>>
  /\ clients' = RemoveAt(clients, Head(to_remove))
  /\ to_remove' = Tail(to_remove)
  /\ UNCHANGED <<channel, lock, bpc, cur, idx, failed, handlers, sockets>>

\* cls.remove(idx), from the last index to the first; the socket is closed.
RemoveFailed ==
  /\ bpc = "remove"
  /\ to_remove # <<>>
  /\ clients' = RemoveAt(clients, Last(to_remove))
  /\ to_remove' = Front(to_remove)
  /\ UNCHANGED <<channel, lock, bpc, cur, idx, failed, handlers, sockets>>

\* The guard goes out of scope and the thread waits for the next message.
UnlockClients ==
  /\ bpc = "remove"
  /\ to_remove = <<>>
  /\ lock' = FREE
  /\ bpc' = "recv"
  /\ UNCHANGED <<channel, clients, cur, idx, to_remove, failed, handlers, sockets>>

Broadcaster ==
  \/ Receive \/ LockClients \/ WriteWhole \/ WriteFails \/ WritesDone
  \/ RemoveFailed \/ UnlockClients

-----------------------------------------------------------------------------
(* The listener thread and the peers. *)

\* bind succeeds, or the port is taken and the thread ends; the broadcaster and
\* the capture thread go on all the same.
Bind ==
  /\ listener = "bind"
  /\ listener' \in {"accepting", "ended"}
  /\ UNCHANGED <<channel, shared, broadcaster, hpc, peer, sockets>>

\* A connection is accepted and its handler thread is spawned.
Accept(c) ==
  /\ listener = "accepting"
  /\ hpc[c] = "none"
  /\ \A d \in 1 .. c - 1 : hpc[d] # "none"
  /\ hpc' = [hpc EXCEPT ![c] = "read"]
  /\ peer' = [peer EXCEPT ![c] = "reading"]
  /\ UNCHANGED <<channel, shared, broadcaster, listener, sockets>>

\* The peer is gone: it has closed its end, and said so when something came.  Until
\* then the socket takes what is written.  This side learns of it when it writes.
PeerLeaves(c) ==
  /\ peer[c] = "reading"
  /\ hpc[c] # "closed"
  /\ peer' = [peer EXCEPT ![c] = "gone"]
  /\ UNCHANGED <<channel, shared, broadcaster, listener, hpc, sockets>>

-----------------------------------------------------------------------------
(* The handler threads. *)

\* What the one call of read may have seen of a request: an upgrade request
\* that comes in two segments looks like one without its key, or like nothing
\* the server knows.
Seen(request) ==
  CASE request = "index" -> {"index", "unknown"}
    [] request = "ws" -> {"ws", "ws_no_key", "unknown"}
    [] OTHER -> {request}

Requests == {"index", "ws", "ws_no_key", "unknown"}

Response(seen) ==
  CASE seen = "index" -> "200"
    [] seen = "ws_no_key" -> "400"
    [] seen = "unknown" -> "404"

\* The request is answered and the stream dropped; nobody looks whether the
\* write succeeded.
Answer(c) ==
  /\ hpc[c] = "read"
  /\ \E request \in Requests : \E seen \in Seen(request) \ {"ws"} :
       head' = IF peer[c] = "reading"
                 THEN [head EXCEPT ![c] = Append(@, Response(seen))] ELSE head
  /\ hpc' = [hpc EXCEPT ![c] = "closed"]
  /\ UNCHANGED <<channel, shared, broadcaster, listener, peer, pos, torn>>

\* seeded fault: the socket is registered before anything is written to it
Upgrade_Registers(c) ==
  /\ hpc[c] = "read"
  /\ lock = FREE
  /\ clients' = Append(clients, c)
  /\ pos' = [pos EXCEPT ![c] = IF bpc = "lock" THEN cur - 1 ELSE cur]
  /\ hpc' = [hpc EXCEPT ![c] = "upgrade"]
  /\ UNCHANGED <<channel, lock, broadcaster, listener, peer, head, torn>>

\* An upgrade request with its key, in one segment: compute the accept key,
\* set the write timeout.
Upgrade(c) ==
  /\ hpc[c] = "read"
  /\ hpc' = [hpc EXCEPT ![c] = "upgrade"]
  /\ UNCHANGED <<channel, shared, broadcaster, listener, peer, sockets>>

\* read fails: the handler ends.
ReadFails(c) ==
  /\ hpc[c] = "read"
  /\ peer[c] = "gone"
  /\ hpc' = [hpc EXCEPT ![c] = "closed"]
  /\ UNCHANGED <<channel, shared, broadcaster, listener, peer, sockets>>

\* The 101 response is written, or fails and the stream is dropped.  It fits
\* the empty send buffer, so only a peer that is gone makes it fail.
WriteSwitching(c) ==
  /\ hpc[c] = "upgrade"
  /\ IF peer[c] = "reading"
       THEN /\ head' = [head EXCEPT ![c] = Append(@, "101")]
            /\ hpc' = [hpc EXCEPT ![c] = "system"]
       ELSE /\ hpc' = [hpc EXCEPT ![c] = "closed"]
            /\ UNCHANGED head
  /\ UNCHANGED <<channel, shared, broadcaster, listener, peer, pos, torn>>

\* The system frame is written; the stream is registered even if that failed.
WriteSystem(c) ==
  /\ hpc[c] = "system"
  /\ head' = IF peer[c] = "reading"
               THEN [head EXCEPT ![c] = Append(@, "system")] ELSE head
  /\ hpc' = [hpc EXCEPT ![c] = "lock"]
  /\ UNCHANGED <<channel, shared, broadcaster, listener, peer, pos, torn>>

HandlerLocks(c) ==
  /\ hpc[c] = "lock"
  /\ lock = FREE
  /\ lock' = c
  /\ hpc' = [hpc EXCEPT ![c] = "push"]
  /\ UNCHANGED <<channel, clients, broadcaster, listener, peer, sockets>>

\* cls.push(stream), unlock, end of the thread.  The socket will get what the
\* broadcaster has not written yet, the message it waits for the lock with
\* included: pos starts behind that.
Push(c) ==
  /\ hpc[c] = "push"
  /\ clients' = Append(clients, c)
  /\ pos' = [pos EXCEPT ![c] = IF bpc = "lock" THEN cur - 1 ELSE cur]
  /\ lock' = FREE
  /\ hpc' = [hpc EXCEPT ![c] = "registered"]
  /\ UNCHANGED <<channel, broadcaster, listener, peer, head, torn>>

Handler(c) ==
  \/ Answer(c) \/ Upgrade(c) \/ ReadFails(c) \/ WriteSwitching(c)
  \/ WriteSystem(c) \/ HandlerLocks(c) \/ Push(c)

-----------------------------------------------------------------------------
Next ==
  \/ Broadcast
  \/ Broadcaster
  \/ Bind
  \/ \E c \in Clients : Accept(c) \/ PeerLeaves(c) \/ Handler(c)

Spec == Init /\ [][Next]_vars

\* The broadcaster has nothing else to do, and a handler that holds the mutex
\* only has to push; nothing makes peers connect or packets come.
FairSpec ==
  /\ Spec
  /\ WF_vars(Broadcaster)
  /\ \A c \in Clients : WF_vars(Push(c))

-----------------------------------------------------------------------------
(* Properties. *)

\* Every variable has its type.  The indexes still to be removed are inside the
\* vector: Vec::remove would panic otherwise, with the mutex held (mod.rs:163).
TypeOK ==
  /\ sent \in 0 .. MaxMsgs
  /\ queue \in Seq(1 .. MaxMsgs)
  /\ lock \in {FREE, BROADCASTER} \cup Clients
  /\ clients \in Seq(Clients)
  /\ bpc \in {"recv", "lock", "write", "remove"}
  /\ cur \in 0 .. MaxMsgs
  /\ idx \in 1 .. MaxConnections + 1
  /\ to_remove \in Seq(1 .. Len(clients))
  /\ failed \subseteq Clients
  /\ listener \in {"bind", "accepting", "ended"}
  /\ hpc \in [Clients -> {"none", "read", "upgrade", "system", "lock", "push",
                          "registered", "closed"}]
  /\ peer \in [Clients -> {"none", "reading", "gone"}]
  /\ head \in [Clients -> Seq({"200", "400", "404", "101", "system"})]
  /\ pos \in [Clients -> 0 .. MaxMsgs]
  /\ torn \in [Clients -> BOOLEAN]

Registered == {c \in Clients : hpc[c] = "registered"}

\* Between two rounds the vector holds every socket a handler registered, once,
\* except those a broadcast failed for: several may fail in one round, and they
\* are removed by index from a vector that shrinks (mod.rs:162).
RemovedExactly ==
  bpc \in {"recv", "lock"} =>
    /\ ToSet(clients) = Registered \ failed
    /\ Len(clients) = Cardinality(Registered \ failed)

\* Nothing is written behind a frame that was cut short by the write timeout:
\* the peer could not tell where the next frame starts (mod.rs:156).
NothingAfterTorn ==
  [][\A c \in Clients :
       torn[c] => pos'[c] = pos[c] /\ head'[c] = head[c]]_vars

\* The broadcaster, another thread than the handler, writes packet frames only
\* behind the 101 response and the system frame (mod.rs:236, :241, :244).
HandshakeFirst ==
  [][\A c \in ToSet(clients) :
       pos'[c] # pos[c] => head[c] = <<"101", "system">>]_vars

\* A registered socket gets every message from the one that was next when it
\* was registered, in the order of the broadcasts, no gap, no repetition, in
\* step with the other sockets, until a write to it fails.
PS == INSTANCE PubSub
        WITH published <- sent,
             member <- [c \in Clients |->
                          IF c \in failed THEN "left"
                          ELSE IF c \in Registered THEN "in" ELSE "out"]

ImplementsPubSub == PS!Spec

\* Every message broadcast reaches every registered socket that does not fail,
\* however many others fail, time out or register meanwhile.
EveryMessageServed ==
  \A c \in Clients : \A n \in 1 .. MaxMsgs :
    (c \in Registered /\ sent >= n) ~> (c \in failed \/ pos[c] >= n)

\* A socket whose peer has left does not stay in the vector for ever: the next
\* message still to come finds it out.
GoneClientReaped ==
  \A c \in Clients :
    (c \in Registered /\ peer[c] = "gone" /\ queue # <<>>) ~> c \notin ToSet(clients)

=============================================================================
