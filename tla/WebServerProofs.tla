-------------------------- MODULE WebServerProofs ---------------------------
(***************************************************************************)
(* Proofs about WebServer, for any number of connections and messages:     *)
(* WebInv is an inductive invariant.  The vector of sockets, the failures  *)
(* of the round and the indexes to remove describe the same sockets, and a *)
(* socket's position in the feed follows from where the broadcaster is.    *)
(***************************************************************************)
EXTENDS WebServer, WsProtocol, FiniteSetTheorems, SequenceTheorems, TLAPS

(* The mutex is held by who is in its critical section, and nobody else. *)
LockOwned ==
  /\ lock = BROADCASTER <=> bpc \in {"write", "remove"}
  /\ \A c \in Clients : lock = c <=> hpc[c] = "push"

(* The vector holds sockets of handlers that have ended, each once. *)
VectorInv ==
  /\ \A i \in 1 .. Len(clients) : hpc[clients[i]] = "registered"
  /\ \A i, j \in 1 .. Len(clients) : clients[i] = clients[j] => i = j

(* The indexes to remove, in increasing order, all behind the loop. *)
IndexesInv ==
  /\ \A i, j \in 1 .. Len(to_remove) : i < j => to_remove[i] < to_remove[j]
  /\ bpc \in {"recv", "lock"} => to_remove = <<>>
  /\ bpc = "write" =>
       /\ idx \in 1 .. Len(clients) + 1
       /\ \A i \in 1 .. Len(to_remove) : to_remove[i] < idx

(* A socket that failed is in the vector only while its index is to be removed. *)
FailedInv ==
  /\ \A c \in failed : hpc[c] = "registered"
  /\ \A i \in 1 .. Len(clients) :
       clients[i] \in failed <=> \E j \in 1 .. Len(to_remove) : to_remove[j] = i
  /\ \A c \in Registered \ failed : \E i \in 1 .. Len(clients) : clients[i] = c

(* What has been written to a socket, by the state of its handler. *)
SocketInv ==
  \A c \in Clients :
    /\ torn[c] => c \in failed
    /\ hpc[c] \in {"none", "read", "upgrade"} => head[c] = <<>>
    /\ hpc[c] = "system" => head[c] = <<"101">>
    /\ hpc[c] \in {"lock", "push", "registered"} /\ peer[c] = "reading"
         => head[c] = <<"101", "system">>

(* The messages still to come are numbered from the next one. *)
QueueInv ==
  /\ Len(queue) = sent - cur
  /\ \A i \in 1 .. Len(queue) : queue[i] = cur + i
  /\ bpc # "recv" => cur > 0

(* The last message every socket of the vector has been sent, before the loop
   gets to it. *)
Base == IF bpc \in {"lock", "write"} THEN cur - 1 ELSE cur

(* Sockets in front of the loop are at the current message, the others at Base;
   nobody is ahead. *)
PositionInv ==
  /\ \A i \in 1 .. Len(clients) :
       clients[i] \notin failed =>
         pos[clients[i]] = IF bpc = "write" /\ i < idx THEN cur ELSE Base
  /\ \A c \in Clients :
       pos[c] <= IF bpc = "write" THEN cur ELSE Base

WebInv ==
  /\ TypeOK
  /\ LockOwned
  /\ VectorInv
  /\ IndexesInv
  /\ FailedInv
  /\ SocketInv
  /\ QueueInv
  /\ PositionInv

-----------------------------------------------------------------------------
(* Sequences. *)

(* What RemoveAt leaves: everything behind the index moves up. *)
LEMMA RemoveAtFacts ==
  ASSUME NEW S, NEW s \in Seq(S), NEW n \in 1 .. Len(s)
  PROVE  /\ RemoveAt(s, n) \in Seq(S)
         /\ Len(RemoveAt(s, n)) = Len(s) - 1
         /\ \A i \in 1 .. Len(s) - 1 :
              RemoveAt(s, n)[i] = IF i < n THEN s[i] ELSE s[i + 1]
<1>. DEFINE a == SubSeq(s, 1, n - 1)
            b == SubSeq(s, n + 1, Len(s))
<1>1. Len(s) \in Nat /\ n \in Nat
  OBVIOUS
<1>2. /\ a \in Seq(S) /\ Len(a) = n - 1
      /\ \A i \in 1 .. n - 1 : a[i] = s[i]
  <2>1. \A i \in 1 .. n - 1 : s[i] \in S
    OBVIOUS
  <2>2. /\ SubSeq(s, 1, n - 1) \in Seq(S)
        /\ Len(SubSeq(s, 1, n - 1)) = IF 1 <= n - 1 THEN n - 1 - 1 + 1 ELSE 0
        /\ \A i \in 1 .. n - 1 - 1 + 1 : SubSeq(s, 1, n - 1)[i] = s[1 + i - 1]
    BY <1>1, <2>1, SubSeqProperties
  <2>. QED  BY <1>1, <2>2
<1>3. /\ b \in Seq(S) /\ Len(b) = Len(s) - n
      /\ \A i \in 1 .. Len(s) - n : b[i] = s[n + i]
  <2>1. \A i \in n + 1 .. Len(s) : s[i] \in S
    OBVIOUS
  <2>2. /\ SubSeq(s, n + 1, Len(s)) \in Seq(S)
        /\ Len(SubSeq(s, n + 1, Len(s))) = IF n + 1 <= Len(s) THEN Len(s) - (n + 1) + 1 ELSE 0
        /\ \A i \in 1 .. Len(s) - (n + 1) + 1 : SubSeq(s, n + 1, Len(s))[i] = s[n + 1 + i - 1]
    BY <1>1, <2>1, SubSeqProperties
  <2>. QED  BY <1>1, <2>2
<1>4. RemoveAt(s, n) = a \o b
  BY DEF RemoveAt
<1>5. /\ a \o b \in Seq(S)
      /\ Len(a \o b) = Len(a) + Len(b)
      /\ \A i \in 1 .. Len(a) + Len(b) :
           (a \o b)[i] = IF i <= Len(a) THEN a[i] ELSE b[i - Len(a)]
  BY <1>2, <1>3, ConcatProperties
<1>. HIDE DEF a, b
<1>6. Len(a) + Len(b) = Len(s) - 1
  BY <1>1, <1>2, <1>3
<1>7. ASSUME NEW i \in 1 .. Len(s) - 1
      PROVE  (a \o b)[i] = IF i < n THEN s[i] ELSE s[i + 1]
  <2>1. CASE i < n
    BY <1>1, <1>2, <1>5, <1>6, <2>1
  <2>2. CASE ~(i < n)
    <3>1. i - Len(a) \in 1 .. Len(s) - n /\ n + (i - Len(a)) = i + 1 /\ ~(i <= Len(a))
      BY <1>1, <1>2, <2>2
    <3>2. (a \o b)[i] = b[i - Len(a)]
      BY <1>5, <1>6, <3>1
    <3>. QED  BY <1>3, <2>2, <3>1, <3>2
  <2>. QED  BY <2>1, <2>2
<1>. QED  BY <1>4, <1>5, <1>6, <1>7

(* A sequence without repetitions is as long as its set is large. *)
LEMMA InjectiveLen ==
  ASSUME NEW S, NEW s \in Seq(S),
         \A i, j \in 1 .. Len(s) : s[i] = s[j] => i = j
  PROVE  IsFiniteSet(ToSet(s)) /\ Cardinality(ToSet(s)) = Len(s)
<1>1. Len(s) \in Nat /\ DOMAIN s = 1 .. Len(s) /\ s \in [1 .. Len(s) -> S]
  BY LenProperties
<1>2. s \in [1 .. Len(s) -> ToSet(s)]
  BY <1>1 DEF ToSet
<1>3. s \in Bijection(1 .. Len(s), ToSet(s))
  BY <1>1, <1>2 DEF Bijection, Injection, Surjection, IsInjective, ToSet
<1>4. ExistsBijection(1 .. Len(s), ToSet(s))
  BY <1>3 DEF ExistsBijection
<1>5. IsFiniteSet(1 .. Len(s)) /\ Cardinality(1 .. Len(s)) = Len(s)
  BY <1>1, FS_Interval
<1>. QED  BY <1>4, <1>5, FS_Bijection

(* There are no more sockets in the vector than connections. *)
LEMMA VectorBound ==
  ASSUME TypeOK, VectorInv
  PROVE  Len(clients) \in Nat /\ Len(clients) <= MaxConnections
<1>1. clients \in Seq(Clients) /\ Len(clients) \in Nat
  BY DEF TypeOK
<1>2. Cardinality(ToSet(clients)) = Len(clients)
  BY <1>1, InjectiveLen DEF VectorInv
<1>3. IsFiniteSet(Clients) /\ Cardinality(Clients) = MaxConnections
  BY FS_Interval, WebAssumption DEF Clients
<1>4. ToSet(clients) \in SUBSET Clients
  <2>1. \A i \in 1 .. Len(clients) : clients[i] \in Clients
    BY <1>1
  <2>2. DOMAIN clients = 1 .. Len(clients)
    BY <1>1
  <2>. QED  BY <2>1, <2>2 DEF ToSet
<1>. QED  BY <1>1, <1>2, <1>3, <1>4, FS_Subset

-----------------------------------------------------------------------------
(* WebInv is inductive: one lemma per action of the specification. *)

LEMMA InitWeb == Init => WebInv
<1>. SUFFICES ASSUME Init PROVE WebInv
  OBVIOUS
<1>1. TypeOK
  BY WebAssumption DEF Init, TypeOK, Clients, FREE, BROADCASTER
<1>2. LockOwned
  BY WebAssumption DEF Init, LockOwned, Clients, FREE, BROADCASTER
<1>3. VectorInv /\ IndexesInv
  BY DEF Init, VectorInv, IndexesInv
<1>4. FailedInv
  BY DEF Init, FailedInv, Registered
<1>5. SocketInv
  BY DEF Init, SocketInv
<1>6. QueueInv
  BY DEF Init, QueueInv
<1>7. PositionInv
  BY WebAssumption DEF Init, PositionInv, Base, Clients
<1>. QED  BY <1>1, <1>2, <1>3, <1>4, <1>5, <1>6, <1>7 DEF WebInv

LEMMA BroadcastWeb ==
  ASSUME WebInv, Broadcast
  PROVE  WebInv'
<1>0. /\ TypeOK /\ LockOwned /\ VectorInv /\ IndexesInv
      /\ FailedInv /\ SocketInv /\ QueueInv /\ PositionInv
  BY DEF WebInv
<1>a. /\ sent' = sent + 1
      /\ UNCHANGED <<lock, clients, bpc, cur, idx, to_remove, failed, listener, hpc, peer,
                     head, pos, torn>>
  BY DEF Broadcast, shared, broadcaster, handlers, sockets
<1>b. /\ sent' \in 1 .. MaxMsgs
      /\ queue' = Append(queue, sent')
      /\ queue \in Seq(1 .. MaxMsgs) /\ sent \in Nat /\ cur \in Nat
  BY <1>0, WebAssumption DEF Broadcast, TypeOK
<1>c. /\ queue' \in Seq(1 .. MaxMsgs)
      /\ Len(queue') = Len(queue) + 1 /\ Len(queue) \in Nat
      /\ \A i \in 1 .. Len(queue) : queue'[i] = queue[i]
      /\ queue'[Len(queue) + 1] = sent'
  BY <1>b
<1>1. TypeOK'
  BY <1>0, <1>a, <1>b, <1>c DEF TypeOK
<1>2. LockOwned' /\ VectorInv' /\ IndexesInv'
  BY <1>0, <1>a DEF LockOwned, VectorInv, IndexesInv
<1>3. FailedInv' /\ SocketInv'
  BY <1>0, <1>a DEF FailedInv, SocketInv, Registered
<1>4. QueueInv'
  BY <1>0, <1>a, <1>b, <1>c DEF QueueInv
<1>5. PositionInv'
  BY <1>0, <1>a DEF PositionInv, Base
<1>. QED  BY <1>1, <1>2, <1>3, <1>4, <1>5 DEF WebInv

LEMMA ReceiveWeb ==
  ASSUME WebInv, Receive
  PROVE  WebInv'
<1>0. /\ TypeOK /\ LockOwned /\ VectorInv /\ IndexesInv
      /\ FailedInv /\ SocketInv /\ QueueInv /\ PositionInv
  BY DEF WebInv
<1>a. /\ bpc = "recv" /\ bpc' = "lock"
      /\ UNCHANGED <<sent, lock, clients, idx, to_remove, failed, listener, hpc, peer,
                     head, pos, torn>>
  BY DEF Receive, shared, handlers, sockets
<1>b. /\ queue \in Seq(1 .. MaxMsgs) /\ queue # <<>>
      /\ cur' = Head(queue) /\ queue' = Tail(queue)
  BY <1>0 DEF Receive, TypeOK
<1>c. /\ Len(queue) \in Nat /\ Len(queue) > 0
      /\ cur' = queue[1] /\ cur' \in 1 .. MaxMsgs
      /\ queue' \in Seq(1 .. MaxMsgs)
      /\ Len(queue') = Len(queue) - 1
      /\ \A i \in 1 .. Len(queue') : queue'[i] = queue[i + 1]
  <2>1. Len(queue) \in Nat /\ Len(queue) > 0
    BY <1>b
  <2>2. queue[1] \in 1 .. MaxMsgs /\ Head(queue) = queue[1]
    <3>1. 1 \in 1 .. Len(queue)
      BY <2>1
    <3>2. queue[1] \in 1 .. MaxMsgs
      BY <1>b, <3>1, ElementOfSeq
    <3>3. Head(queue) = queue[1]
      OBVIOUS
    <3>. QED  BY <3>2, <3>3
  <2>. QED  BY <1>b, <2>1, <2>2, HeadTailProperties
<1>d. cur' = cur + 1 /\ cur \in Nat /\ sent \in Nat
  BY <1>0, <1>c, WebAssumption DEF QueueInv, TypeOK
<1>1. TypeOK'
  BY <1>0, <1>a, <1>c DEF TypeOK
<1>2. LockOwned' /\ VectorInv' /\ IndexesInv'
  BY <1>0, <1>a DEF LockOwned, VectorInv, IndexesInv
<1>3. FailedInv' /\ SocketInv'
  BY <1>0, <1>a DEF FailedInv, SocketInv, Registered
<1>4. QueueInv'
  <2>. SUFFICES ASSUME NEW i \in 1 .. Len(queue')
                PROVE  queue'[i] = cur' + i
    BY <1>0, <1>a, <1>c, <1>d DEF QueueInv
  <2>1. i + 1 \in 1 .. Len(queue)
    BY <1>c
  <2>. QED  BY <1>0, <1>c, <1>d, <2>1 DEF QueueInv
<1>5. PositionInv'
  BY <1>0, <1>a, <1>d DEF PositionInv, Base
<1>. QED  BY <1>1, <1>2, <1>3, <1>4, <1>5 DEF WebInv

LEMMA LockClientsWeb ==
  ASSUME WebInv, LockClients
  PROVE  WebInv'
<1>0. /\ TypeOK /\ LockOwned /\ VectorInv /\ IndexesInv
      /\ FailedInv /\ SocketInv /\ QueueInv /\ PositionInv
  BY DEF WebInv
<1>a. /\ bpc = "lock" /\ bpc' = "write" /\ lock = FREE /\ lock' = BROADCASTER
      /\ idx' = 1 /\ to_remove' = <<>>
      /\ UNCHANGED <<sent, queue, clients, cur, failed, listener, hpc, peer, head, pos, torn>>
  BY DEF LockClients, channel, handlers, sockets
<1>b. to_remove = <<>> /\ Len(clients) \in Nat
  BY <1>0, <1>a DEF IndexesInv, TypeOK
<1>1. TypeOK'
  BY <1>0, <1>a, WebAssumption DEF TypeOK
<1>2. LockOwned'
  BY <1>0, <1>a DEF LockOwned, FREE, BROADCASTER, Clients
<1>3. VectorInv' /\ IndexesInv'
  BY <1>0, <1>a, <1>b DEF VectorInv, IndexesInv
<1>4. FailedInv' /\ SocketInv'
  BY <1>0, <1>a, <1>b DEF FailedInv, SocketInv, Registered
<1>5. QueueInv'
  BY <1>0, <1>a DEF QueueInv
<1>6. PositionInv'
  <2>1. /\ Base = cur - 1 /\ Base' = cur - 1 /\ cur \in Nat
    BY <1>0, <1>a DEF Base, TypeOK
  <2>2. \A c \in Clients : pos[c] \in Int
    BY <1>0 DEF TypeOK
  <2>. QED  BY <1>0, <1>a, <2>1, <2>2 DEF PositionInv
<1>. QED  BY <1>1, <1>2, <1>3, <1>4, <1>5, <1>6 DEF WebInv

(* The socket the loop is at: it has not failed, and no other index has it. *)
LEMMA CurrentSocket ==
  ASSUME WebInv, bpc = "write", idx <= Len(clients)
  PROVE  /\ idx \in 1 .. Len(clients)
         /\ clients[idx] \in Clients
         /\ clients[idx] \notin failed
         /\ hpc[clients[idx]] = "registered"
         /\ \A i \in 1 .. Len(clients) : clients[i] = clients[idx] => i = idx
<1>0. /\ TypeOK /\ LockOwned /\ VectorInv /\ IndexesInv
      /\ FailedInv /\ SocketInv /\ QueueInv /\ PositionInv
  BY DEF WebInv
<1>1. idx \in 1 .. Len(clients) /\ clients \in Seq(Clients) /\ Len(clients) \in Nat
  BY <1>0 DEF IndexesInv, TypeOK
<1>2. \A j \in 1 .. Len(to_remove) : to_remove[j] # idx
  <2>1. to_remove \in Seq(1 .. Len(clients))
    BY <1>0 DEF TypeOK
  <2>. QED  BY <1>0, <1>1, <2>1 DEF IndexesInv
<1>3. clients[idx] \notin failed
  BY <1>0, <1>1, <1>2 DEF FailedInv
<1>. QED  BY <1>0, <1>1, <1>3 DEF VectorInv

LEMMA WriteWholeWeb ==
  ASSUME WebInv, WriteWhole
  PROVE  WebInv'
<1>0. /\ TypeOK /\ LockOwned /\ VectorInv /\ IndexesInv
      /\ FailedInv /\ SocketInv /\ QueueInv /\ PositionInv
  BY DEF WebInv
<1>. DEFINE c == clients[idx]
<1>a. /\ bpc = "write" /\ idx <= Len(clients) /\ idx' = idx + 1
      /\ pos' = [pos EXCEPT ![c] = cur]
      /\ UNCHANGED <<sent, queue, lock, clients, bpc, cur, to_remove, failed, listener, hpc,
                     peer, head, torn>>
  BY DEF WriteWhole, channel, shared, handlers
<1>b. /\ idx \in 1 .. Len(clients) /\ c \in Clients
      /\ \A i \in 1 .. Len(clients) : clients[i] = c => i = idx
  BY <1>a, CurrentSocket
<1>c. Len(clients) \in Nat /\ Len(clients) <= MaxConnections
  BY <1>0, VectorBound
<1>. HIDE DEF c
<1>1. TypeOK'
  <2>1. cur \in 0 .. MaxMsgs /\ pos \in [Clients -> 0 .. MaxMsgs]
    BY <1>0 DEF TypeOK
  <2>2. pos' \in [Clients -> 0 .. MaxMsgs]
    BY <1>a, <2>1, Zenon
  <2>3. idx' \in 1 .. MaxConnections + 1
    BY <1>a, <1>b, <1>c, WebAssumption
  <2>. QED  BY <1>0, <1>a, <2>2, <2>3 DEF TypeOK
<1>2. LockOwned' /\ VectorInv'
  BY <1>0, <1>a DEF LockOwned, VectorInv
<1>3. IndexesInv'
  <2>1. to_remove \in Seq(1 .. Len(clients))
    BY <1>0 DEF TypeOK
  <2>. QED  BY <1>0, <1>a, <1>b, <1>c, <2>1 DEF IndexesInv
<1>4. FailedInv' /\ SocketInv' /\ QueueInv'
  BY <1>0, <1>a DEF FailedInv, SocketInv, Registered, QueueInv
<1>5. PositionInv'
  <2>1. pos \in [Clients -> Nat] /\ cur \in Nat /\ clients \in Seq(Clients)
    BY <1>0 DEF TypeOK
  <2>2. ASSUME NEW i \in 1 .. Len(clients), clients[i] \notin failed
        PROVE  pos'[clients[i]] = IF i < idx + 1 THEN cur ELSE Base
    <3>1. CASE i = idx
      <4>1. clients[i] = c
        BY <3>1 DEF c
      <4>. QED  BY <1>a, <1>b, <2>1, <3>1, <4>1
    <3>2. CASE i # idx
      <4>1. clients[i] # c /\ clients[i] \in Clients
        BY <1>b, <2>1, <3>2
      <4>2. pos'[clients[i]] = pos[clients[i]]
        BY <1>a, <2>1, <4>1
      <4>3. pos[clients[i]] = IF i < idx THEN cur ELSE Base
        BY <1>0, <1>a, <2>2 DEF PositionInv
      <4>4. i < idx + 1 <=> i < idx
        BY <1>b, <1>c, <3>2
      <4>. QED  BY <4>2, <4>3, <4>4
    <3>. QED  BY <3>1, <3>2
  <2>3. ASSUME NEW d \in Clients
        PROVE  pos'[d] <= cur
    BY <1>0, <1>a, <2>1 DEF PositionInv
  <2>4. Base' = Base
    BY <1>a DEF Base
  <2>. QED  BY <1>a, <2>2, <2>3, <2>4 DEF PositionInv
<1>. QED  BY <1>1, <1>2, <1>3, <1>4, <1>5 DEF WebInv

LEMMA WriteFailsWeb ==
  ASSUME WebInv, WriteFails
  PROVE  WebInv'
<1>0. /\ TypeOK /\ LockOwned /\ VectorInv /\ IndexesInv
      /\ FailedInv /\ SocketInv /\ QueueInv /\ PositionInv
  BY DEF WebInv
<1>. DEFINE c == clients[idx]
<1>a. /\ bpc = "write" /\ idx <= Len(clients) /\ idx' = idx + 1
      /\ to_remove' = Append(to_remove, idx)
      /\ failed' = failed \cup {c}
      /\ UNCHANGED <<sent, queue, lock, clients, bpc, cur, listener, hpc, peer, head, pos>>
  BY DEF WriteFails, channel, shared, handlers
<1>b. /\ idx \in 1 .. Len(clients) /\ c \in Clients /\ hpc[c] = "registered"
      /\ \A i \in 1 .. Len(clients) : clients[i] = c => i = idx
  BY <1>a, CurrentSocket
<1>c. Len(clients) \in Nat /\ Len(clients) <= MaxConnections
  BY <1>0, VectorBound
<1>d. /\ torn' \in [Clients -> BOOLEAN]
      /\ \A d \in Clients : d # c => torn'[d] = torn[d]
  <2>1. PICK cut \in BOOLEAN : torn' = [torn EXCEPT ![c] = @ \/ cut]
    BY DEF WriteFails
  <2>2. torn \in [Clients -> BOOLEAN]
    BY <1>0 DEF TypeOK
  <2>3. (torn[c] \/ cut) \in BOOLEAN
    OBVIOUS
  <2>. QED  BY <2>1, <2>2, <2>3, Zenon
<1>e. to_remove \in Seq(1 .. Len(clients)) /\ Len(to_remove) \in Nat
  BY <1>0 DEF TypeOK
<1>f. /\ to_remove' \in Seq(1 .. Len(clients))
      /\ Len(to_remove') = Len(to_remove) + 1
      /\ \A j \in 1 .. Len(to_remove) : to_remove'[j] = to_remove[j]
      /\ to_remove'[Len(to_remove) + 1] = idx
  BY <1>a, <1>b, <1>e
<1>. HIDE DEF c
<1>g. \A j \in 1 .. Len(to_remove') : j \in 1 .. Len(to_remove) \/ j = Len(to_remove) + 1
  BY <1>e, <1>f
<1>1. TypeOK'
  <2>1. idx' \in 1 .. MaxConnections + 1
    BY <1>a, <1>b, <1>c, WebAssumption
  <2>2. failed' \subseteq Clients
    BY <1>0, <1>a, <1>b DEF TypeOK
  <2>3. to_remove' \in Seq(1 .. Len(clients'))
    BY <1>a, <1>f
  <2>. QED  BY <1>0, <1>a, <1>d, <2>1, <2>2, <2>3 DEF TypeOK
<1>2. LockOwned' /\ VectorInv'
  BY <1>0, <1>a DEF LockOwned, VectorInv
<1>3. IndexesInv'
  <2>1. \A j \in 1 .. Len(to_remove) : to_remove[j] < idx /\ to_remove[j] \in 1 .. Len(clients)
    BY <1>0, <1>a, <1>e DEF IndexesInv
  <2>2. \A j \in 1 .. Len(to_remove') : to_remove'[j] < idx + 1
    <3>. SUFFICES ASSUME NEW j \in 1 .. Len(to_remove')
                  PROVE  to_remove'[j] < idx + 1
      OBVIOUS
    <3>0. idx \in Nat
      BY <1>b
    <3>1. CASE j \in 1 .. Len(to_remove)
      <4>1. to_remove[j] < idx /\ to_remove[j] \in Nat
        BY <2>1, <3>1, <1>c
      <4>. QED  BY <1>f, <3>0, <3>1, <4>1
    <3>2. CASE j = Len(to_remove) + 1
      BY <1>f, <3>0, <3>2
    <3>. QED  BY <1>g, <3>1, <3>2
  <2>3. \A i, j \in 1 .. Len(to_remove') : i < j => to_remove'[i] < to_remove'[j]
    <3>. SUFFICES ASSUME NEW i \in 1 .. Len(to_remove'), NEW j \in 1 .. Len(to_remove'), i < j
                  PROVE  to_remove'[i] < to_remove'[j]
      OBVIOUS
    <3>1. i \in 1 .. Len(to_remove) /\ to_remove'[i] = to_remove[i]
      BY <1>e, <1>f
    <3>2. CASE j \in 1 .. Len(to_remove)
      BY <1>0, <1>f, <3>1, <3>2 DEF IndexesInv
    <3>3. CASE j = Len(to_remove) + 1
      BY <1>f, <2>1, <3>1, <3>3
    <3>. QED  BY <1>g, <3>2, <3>3
  <2>4. idx + 1 \in 1 .. Len(clients) + 1
    BY <1>b, <1>c
  <2>. QED  BY <1>a, <2>2, <2>3, <2>4 DEF IndexesInv
<1>4. FailedInv'
  <2>1. \A d \in failed' : hpc'[d] = "registered"
    BY <1>0, <1>a, <1>b DEF FailedInv
  <2>2. ASSUME NEW i \in 1 .. Len(clients)
        PROVE  clients[i] \in failed' <=> \E j \in 1 .. Len(to_remove') : to_remove'[j] = i
    <3>1. CASE i = idx
      <4>1. clients[i] \in failed'
        BY <1>a, <3>1 DEF c
      <4>. QED  BY <1>e, <1>f, <3>1, <4>1
    <3>2. CASE i # idx
      <4>1. clients[i] \in failed' <=> clients[i] \in failed
        BY <1>a, <1>b, <3>2
      <4>2. clients[i] \in failed <=> \E j \in 1 .. Len(to_remove) : to_remove[j] = i
        BY <1>0 DEF FailedInv
      <4>3. (\E j \in 1 .. Len(to_remove') : to_remove'[j] = i)
              <=> \E j \in 1 .. Len(to_remove) : to_remove[j] = i
        <5>1. 1 .. Len(to_remove) \subseteq 1 .. Len(to_remove')
          BY <1>e, <1>f
        <5>. QED  BY <1>f, <1>g, <3>2, <5>1
      <4>. QED  BY <4>1, <4>2, <4>3
    <3>. QED  BY <3>1, <3>2
  <2>3. \A d \in Registered' \ failed' : \E i \in 1 .. Len(clients) : clients[i] = d
    BY <1>0, <1>a DEF FailedInv, Registered
  <2>. QED  BY <1>a, <2>1, <2>2, <2>3 DEF FailedInv
<1>5. SocketInv' /\ QueueInv'
  BY <1>0, <1>a, <1>d DEF SocketInv, QueueInv
<1>6. PositionInv'
  <2>1. ASSUME NEW i \in 1 .. Len(clients), clients[i] \notin failed'
        PROVE  pos[clients[i]] = IF i < idx + 1 THEN cur ELSE Base
    <3>1. clients[i] \notin failed /\ i # idx
      BY <1>a, <2>1 DEF c
    <3>2. i < idx + 1 <=> i < idx
      BY <1>b, <1>c, <3>1
    <3>. QED  BY <1>0, <1>a, <3>1, <3>2 DEF PositionInv
  <2>2. Base' = Base
    BY <1>a DEF Base
  <2>. QED  BY <1>0, <1>a, <2>1, <2>2 DEF PositionInv
<1>. QED  BY <1>1, <1>2, <1>3, <1>4, <1>5, <1>6 DEF WebInv

LEMMA WritesDoneWeb ==
  ASSUME WebInv, WritesDone
  PROVE  WebInv'
<1>0. /\ TypeOK /\ LockOwned /\ VectorInv /\ IndexesInv
      /\ FailedInv /\ SocketInv /\ QueueInv /\ PositionInv
  BY DEF WebInv
<1>a. /\ bpc = "write" /\ bpc' = "remove" /\ idx > Len(clients)
      /\ UNCHANGED <<sent, queue, lock, clients, cur, idx, to_remove, failed, listener, hpc,
                     peer, head, pos, torn>>
  BY DEF WritesDone, channel, shared, handlers, sockets
<1>1. TypeOK'
  BY <1>0, <1>a DEF TypeOK
<1>2. LockOwned' /\ VectorInv' /\ IndexesInv'
  BY <1>0, <1>a DEF LockOwned, VectorInv, IndexesInv
<1>3. FailedInv' /\ SocketInv' /\ QueueInv'
  BY <1>0, <1>a DEF FailedInv, SocketInv, Registered, QueueInv
<1>4. PositionInv'
  <2>1. /\ Base' = cur /\ Base = cur - 1 /\ cur \in Nat
        /\ Len(clients) \in Nat /\ idx \in Nat
    BY <1>0, <1>a DEF Base, TypeOK
  <2>2. \A i \in 1 .. Len(clients) : i < idx
    BY <1>a, <2>1
  <2>. QED  BY <1>0, <1>a, <2>1, <2>2 DEF PositionInv
<1>. QED  BY <1>1, <1>2, <1>3, <1>4 DEF WebInv

LEMMA RemoveFailedWeb ==
  ASSUME WebInv, RemoveFailed
  PROVE  WebInv'
<1>0. /\ TypeOK /\ LockOwned /\ VectorInv /\ IndexesInv
      /\ FailedInv /\ SocketInv /\ QueueInv /\ PositionInv
  BY DEF WebInv
<1>. DEFINE l == Len(to_remove)
            n == to_remove[l]
<1>a. /\ bpc = "remove" /\ to_remove # <<>>
      /\ clients' = RemoveAt(clients, n)
      /\ to_remove' = SubSeq(to_remove, 1, l - 1)
      /\ UNCHANGED <<sent, queue, lock, bpc, cur, idx, failed, listener, hpc, peer,
                     head, pos, torn>>
  BY DEF RemoveFailed, channel, handlers, sockets, Last, Front
<1>b. /\ to_remove \in Seq(1 .. Len(clients)) /\ clients \in Seq(Clients)
      /\ l \in Nat /\ l > 0 /\ Len(clients) \in Nat
  BY <1>0, <1>a DEF TypeOK
<1>c. n \in 1 .. Len(clients)
  <2>1. l \in 1 .. l
    BY <1>b
  <2>. QED  BY <1>b, <2>1, ElementOfSeq
<1>d. \A j \in 1 .. l : j \in 1 .. l - 1 \/ j = l
  BY <1>b
<1>e. \A j \in 1 .. l - 1 : to_remove[j] < n /\ to_remove[j] \in 1 .. Len(clients)
  <2>1. \A j \in 1 .. l - 1 : j \in 1 .. l /\ l \in 1 .. l /\ j < l
    BY <1>b
  <2>2. \A j \in 1 .. l : to_remove[j] \in 1 .. Len(clients)
    BY <1>b, ElementOfSeq
  <2>. QED  BY <1>0, <2>1, <2>2 DEF IndexesInv
<1>f. /\ Len(to_remove') = l - 1
      /\ \A j \in 1 .. l - 1 : to_remove'[j] = to_remove[j]
      /\ to_remove' \in Seq(1 .. Len(clients) - 1)
  <2>1. \A j \in 1 .. l - 1 : to_remove[j] \in 1 .. Len(clients) - 1
    BY <1>b, <1>c, <1>e
  <2>2. l - 1 \in Int /\ 1 \in Int
    BY <1>b
  <2>3. /\ SubSeq(to_remove, 1, l - 1) \in Seq(1 .. Len(clients) - 1)
        /\ Len(SubSeq(to_remove, 1, l - 1)) = IF 1 <= l - 1 THEN l - 1 - 1 + 1 ELSE 0
        /\ \A j \in 1 .. l - 1 - 1 + 1 : SubSeq(to_remove, 1, l - 1)[j] = to_remove[1 + j - 1]
    BY <1>b, <2>1, <2>2, SubSeqProperties
  <2>. HIDE DEF l
  <2>4. (IF 1 <= l - 1 THEN l - 1 - 1 + 1 ELSE 0) = l - 1 /\ l - 1 - 1 + 1 = l - 1
    BY <1>b
  <2>5. \A j \in 1 .. l - 1 : 1 + j - 1 = j
    BY <1>b
  <2>. QED  BY <1>a, <2>3, <2>4, <2>5
<1>g. /\ clients' \in Seq(Clients)
      /\ Len(clients') = Len(clients) - 1
      /\ \A i \in 1 .. Len(clients) - 1 :
           clients'[i] = IF i < n THEN clients[i] ELSE clients[i + 1]
  BY <1>a, <1>b, <1>c, RemoveAtFacts
<1>. HIDE DEF l, n
<1>h. ASSUME NEW i \in 1 .. Len(clients)
      PROVE  clients[i] \in failed <=> (i = n \/ \E j \in 1 .. l - 1 : to_remove[j] = i)
  <2>1. l \in 1 .. l
    BY <1>b
  <2>2. 1 .. l - 1 \subseteq 1 .. l
    BY <1>b
  <2>. QED  BY <1>0, <1>d, <2>1, <2>2 DEF FailedInv, l, n
<1>1. TypeOK'
  BY <1>0, <1>a, <1>f, <1>g DEF TypeOK
<1>2. LockOwned' /\ SocketInv' /\ QueueInv'
  BY <1>0, <1>a DEF LockOwned, SocketInv, QueueInv
<1>3. VectorInv'
  <2>. DEFINE up(k) == IF k < n THEN k ELSE k + 1
  <2>0. \A k \in 1 .. Len(clients') : /\ up(k) \in 1 .. Len(clients)
                                      /\ clients'[k] = clients[up(k)]
    BY <1>b, <1>c, <1>g
  <2>1. ASSUME NEW i \in 1 .. Len(clients')
        PROVE  hpc'[clients'[i]] = "registered"
    BY <1>0, <1>a, <2>0 DEF VectorInv
  <2>2. ASSUME NEW i \in 1 .. Len(clients'), NEW j \in 1 .. Len(clients'),
               clients'[i] = clients'[j]
        PROVE  i = j
    <3>1. up(i) = up(j)
      BY <1>0, <2>0, <2>2 DEF VectorInv
    <3>2. i \in Nat /\ j \in Nat /\ n \in Nat
      BY <1>b, <1>c, <1>g
    <3>. QED  BY <3>1, <3>2
  <2>. QED  BY <2>1, <2>2 DEF VectorInv
<1>4. IndexesInv'
  <2>1. \A i, j \in 1 .. l - 1 : i < j => to_remove'[i] < to_remove'[j]
    <3>1. 1 .. l - 1 \subseteq 1 .. l
      BY <1>b
    <3>. QED  BY <1>0, <1>f, <3>1 DEF IndexesInv, l
  <2>. QED  BY <1>a, <1>f, <2>1 DEF IndexesInv
<1>5. FailedInv'
  <2>1. \A c \in failed' : hpc'[c] = "registered"
    BY <1>0, <1>a DEF FailedInv
  <2>2. ASSUME NEW i \in 1 .. Len(clients')
        PROVE  clients'[i] \in failed' <=> \E j \in 1 .. Len(to_remove') : to_remove'[j] = i
    <3>0. /\ i \in 1 .. Len(clients) /\ i + 1 \in 1 .. Len(clients)
          /\ i \in 1 .. Len(clients) - 1 /\ n \in Nat
      BY <1>b, <1>c, <1>g
    <3>1. CASE i < n
      <4>1. clients'[i] = clients[i] /\ i # n
        BY <1>g, <3>0, <3>1
      <4>. QED  BY <1>a, <1>f, <1>h, <3>0, <4>1
    <3>2. CASE ~(i < n)
      <4>1. clients'[i] = clients[i + 1] /\ i + 1 # n
        BY <1>g, <3>0, <3>2
      <4>2. ~ \E j \in 1 .. l - 1 : to_remove[j] = i \/ to_remove[j] = i + 1
        BY <1>e, <3>0, <3>2
      <4>. QED  BY <1>a, <1>f, <1>h, <3>0, <4>1, <4>2
    <3>. QED  BY <3>1, <3>2
  <2>3. ASSUME NEW d \in Registered' \ failed'
        PROVE  \E i \in 1 .. Len(clients') : clients'[i] = d
    <3>1. PICK i \in 1 .. Len(clients) : clients[i] = d
      BY <1>0, <1>a DEF FailedInv, Registered
    <3>2. i # n
      BY <1>a, <1>h, <3>1
    <3>3. CASE i < n
      <4>1. i \in 1 .. Len(clients')
        BY <1>b, <1>c, <1>g, <3>3
      <4>. QED  BY <1>g, <3>1, <3>3, <4>1
    <3>4. CASE ~(i < n)
      <4>1. i - 1 \in 1 .. Len(clients') /\ ~(i - 1 < n) /\ (i - 1) + 1 = i
        BY <1>b, <1>c, <1>g, <3>2, <3>4
      <4>. QED  BY <1>g, <3>1, <4>1
    <3>. QED  BY <3>3, <3>4
  <2>. QED  BY <2>1, <2>2, <2>3 DEF FailedInv
<1>6. PositionInv'
  <2>1. Base = cur /\ Base' = cur
    BY <1>a DEF Base
  <2>2. ASSUME NEW i \in 1 .. Len(clients'), clients'[i] \notin failed
        PROVE  pos[clients'[i]] = cur
    <3>1. i \in 1 .. Len(clients) /\ i + 1 \in 1 .. Len(clients) /\ i \in 1 .. Len(clients) - 1
      BY <1>b, <1>g
    <3>. QED  BY <1>0, <1>a, <1>g, <2>1, <2>2, <3>1 DEF PositionInv
  <2>. QED  BY <1>0, <1>a, <2>1, <2>2 DEF PositionInv
<1>. QED  BY <1>1, <1>2, <1>3, <1>4, <1>5, <1>6 DEF WebInv

LEMMA UnlockClientsWeb ==
  ASSUME WebInv, UnlockClients
  PROVE  WebInv'
<1>0. /\ TypeOK /\ LockOwned /\ VectorInv /\ IndexesInv
      /\ FailedInv /\ SocketInv /\ QueueInv /\ PositionInv
  BY DEF WebInv
<1>a. /\ bpc = "remove" /\ bpc' = "recv" /\ to_remove = <<>> /\ lock' = FREE
      /\ UNCHANGED <<sent, queue, clients, cur, idx, to_remove, failed, listener, hpc,
                     peer, head, pos, torn>>
  BY DEF UnlockClients, channel, handlers, sockets
<1>1. TypeOK'
  BY <1>0, <1>a DEF TypeOK
<1>2. LockOwned'
  BY <1>0, <1>a, WebAssumption DEF LockOwned, FREE, BROADCASTER, Clients
<1>3. VectorInv' /\ IndexesInv' /\ SocketInv' /\ QueueInv'
  BY <1>0, <1>a DEF VectorInv, IndexesInv, SocketInv, QueueInv
<1>4. FailedInv'
  BY <1>0, <1>a DEF FailedInv, Registered
<1>5. PositionInv'
  BY <1>0, <1>a DEF PositionInv, Base
<1>. QED  BY <1>1, <1>2, <1>3, <1>4, <1>5 DEF WebInv

(* A step of the listener, a peer or a handler that registers nobody. *)
Quiet ==
  /\ UNCHANGED <<channel, clients, broadcaster, pos, torn>>
  /\ \A c \in Clients : hpc'[c] = "registered" <=> hpc[c] = "registered"

LEMMA QuietWeb ==
  ASSUME WebInv, Quiet, TypeOK', LockOwned', SocketInv'
  PROVE  WebInv'
<1>0. /\ TypeOK /\ LockOwned /\ VectorInv /\ IndexesInv
      /\ FailedInv /\ SocketInv /\ QueueInv /\ PositionInv
  BY DEF WebInv
<1>a. /\ UNCHANGED <<sent, queue, clients, bpc, cur, idx, to_remove, failed, pos, torn>>
      /\ Registered' = Registered
  BY DEF Quiet, channel, broadcaster, Registered
<1>1. VectorInv'
  <2>1. \A i \in 1 .. Len(clients) : clients[i] \in Clients
    BY <1>0 DEF TypeOK
  <2>. QED  BY <1>0, <1>a, <2>1 DEF VectorInv, Quiet
<1>2. IndexesInv' /\ QueueInv' /\ PositionInv'
  BY <1>0, <1>a DEF IndexesInv, QueueInv, PositionInv, Base
<1>3. FailedInv'
  <2>1. failed \subseteq Clients
    BY <1>0 DEF TypeOK
  <2>2. \A c \in failed' : hpc'[c] = "registered"
    BY <1>0, <1>a, <2>1 DEF FailedInv, Quiet
  <2>. QED  BY <1>0, <1>a, <2>2 DEF FailedInv
<1>. QED  BY <1>1, <1>2, <1>3 DEF WebInv

LEMMA BindWeb ==
  ASSUME WebInv, Bind
  PROVE  WebInv'
<1>0. TypeOK /\ LockOwned /\ SocketInv
  BY DEF WebInv
<1>a. /\ listener' \in {"bind", "accepting", "ended"}
      /\ UNCHANGED <<channel, shared, broadcaster, hpc, peer, sockets>>
  BY DEF Bind
<1>1. TypeOK'
  BY <1>0, <1>a DEF TypeOK, channel, shared, broadcaster, sockets
<1>2. LockOwned' /\ SocketInv' /\ Quiet
  BY <1>0, <1>a DEF LockOwned, SocketInv, Quiet, channel, shared, broadcaster, sockets
<1>. QED  BY <1>1, <1>2, QuietWeb

(* The states a handler steps through, and what follows for its socket. *)
LEMMA HandlerWeb ==
  ASSUME WebInv, NEW c \in Clients, NEW h,
         h \in {"read", "upgrade", "system", "lock", "closed"},
         hpc[c] \in {"none", "read", "upgrade", "system"},
         hpc' = [hpc EXCEPT ![c] = h],
         peer' \in [Clients -> {"none", "reading", "gone"}],
         \A d \in Clients : d # c => peer'[d] = peer[d],
         head' \in [Clients -> Seq({"200", "400", "404", "101", "system"})],
         \A d \in Clients : d # c => head'[d] = head[d],
         h \in {"read", "upgrade"} => head'[c] = <<>>,
         h = "system" => head'[c] = <<"101">>,
         h = "lock" /\ peer'[c] = "reading" => head'[c] = <<"101", "system">>,
         UNCHANGED <<channel, shared, broadcaster, listener, pos, torn>>
  PROVE  WebInv'
<1>0. TypeOK /\ LockOwned /\ SocketInv
  BY DEF WebInv
<1>a. /\ hpc \in [Clients -> {"none", "read", "upgrade", "system", "lock", "push",
                             "registered", "closed"}]
      /\ UNCHANGED <<lock, bpc, failed, torn>>
  BY <1>0 DEF TypeOK, shared, broadcaster
<1>b. hpc'[c] = h /\ \A d \in Clients : d # c => hpc'[d] = hpc[d]
  BY <1>a
<1>1. TypeOK'
  <2>1. hpc' \in [Clients -> {"none", "read", "upgrade", "system", "lock", "push",
                             "registered", "closed"}]
    BY <1>a
  <2>. QED  BY <1>0, <2>1 DEF TypeOK, channel, shared, broadcaster
<1>2. LockOwned'
  BY <1>0, <1>a, <1>b DEF LockOwned
<1>3. SocketInv'
  <2>. SUFFICES ASSUME NEW d \in Clients
                PROVE  /\ torn[d] => d \in failed
                       /\ hpc'[d] \in {"none", "read", "upgrade"} => head'[d] = <<>>
                       /\ hpc'[d] = "system" => head'[d] = <<"101">>
                       /\ hpc'[d] \in {"lock", "push", "registered"} /\ peer'[d] = "reading"
                            => head'[d] = <<"101", "system">>
    BY <1>a DEF SocketInv
  <2>1. CASE d = c
    BY <1>0, <1>b, <2>1 DEF SocketInv
  <2>2. CASE d # c
    BY <1>0, <1>b, <2>2 DEF SocketInv
  <2>. QED  BY <2>1, <2>2
<1>4. Quiet
  BY <1>b DEF Quiet, shared
<1>. QED  BY <1>1, <1>2, <1>3, <1>4, QuietWeb

LEMMA AcceptWeb ==
  ASSUME WebInv, NEW c \in Clients, Accept(c)
  PROVE  WebInv'
<1>0. TypeOK /\ SocketInv
  BY DEF WebInv
<1>1. /\ hpc[c] = "none" /\ hpc' = [hpc EXCEPT ![c] = "read"]
      /\ peer' = [peer EXCEPT ![c] = "reading"] /\ head' = head
      /\ UNCHANGED <<channel, shared, broadcaster, listener, pos, torn>>
  BY DEF Accept, sockets
<1>2. /\ peer' \in [Clients -> {"none", "reading", "gone"}]
      /\ \A d \in Clients : d # c => peer'[d] = peer[d]
      /\ head' \in [Clients -> Seq({"200", "400", "404", "101", "system"})]
      /\ head[c] = <<>>
  BY <1>0, <1>1 DEF TypeOK, SocketInv
<1>. QED  BY <1>1, <1>2, HandlerWeb

LEMMA PeerLeavesWeb ==
  ASSUME WebInv, NEW c \in Clients, PeerLeaves(c)
  PROVE  WebInv'
<1>0. TypeOK /\ LockOwned /\ SocketInv
  BY DEF WebInv
<1>a. /\ peer' = [peer EXCEPT ![c] = "gone"]
      /\ UNCHANGED <<channel, shared, broadcaster, listener, hpc, sockets>>
  BY DEF PeerLeaves
<1>b. /\ peer' \in [Clients -> {"none", "reading", "gone"}]
      /\ \A d \in Clients : peer'[d] = "reading" => peer[d] = "reading"
  BY <1>0, <1>a DEF TypeOK
<1>1. TypeOK'
  BY <1>0, <1>a, <1>b DEF TypeOK, channel, shared, broadcaster, sockets
<1>2. LockOwned' /\ SocketInv' /\ Quiet
  BY <1>0, <1>a, <1>b DEF LockOwned, SocketInv, Quiet, channel, shared, broadcaster, sockets
<1>. QED  BY <1>1, <1>2, QuietWeb

(* What a write to the head of a socket leaves, if its peer still reads. *)
LEMMA HeadFacts ==
  ASSUME TypeOK, NEW c \in Clients, NEW m \in {"200", "400", "404", "101", "system"},
         head' = IF peer[c] = "reading" THEN [head EXCEPT ![c] = Append(@, m)] ELSE head
  PROVE  /\ head' \in [Clients -> Seq({"200", "400", "404", "101", "system"})]
         /\ \A d \in Clients : d # c => head'[d] = head[d]
         /\ peer[c] = "reading" => head'[c] = Append(head[c], m)
<1>1. head \in [Clients -> Seq({"200", "400", "404", "101", "system"})]
  BY DEF TypeOK
<1>2. Append(head[c], m) \in Seq({"200", "400", "404", "101", "system"})
  BY <1>1, AppendProperties
<1>. QED  BY <1>1, <1>2

LEMMA AnswerWeb ==
  ASSUME WebInv, NEW c \in Clients, Answer(c)
  PROVE  WebInv'
<1>0. TypeOK
  BY DEF WebInv
<1>1. /\ hpc[c] = "read" /\ hpc' = [hpc EXCEPT ![c] = "closed"]
      /\ UNCHANGED <<channel, shared, broadcaster, listener, peer, pos, torn>>
  BY DEF Answer
<1>2. PICK request \in Requests :
        \E seen \in Seen(request) \ {"ws"} :
          head' = IF peer[c] = "reading"
                    THEN [head EXCEPT ![c] = Append(@, Response(seen))] ELSE head
  BY DEF Answer
<1>3. PICK seen \in Seen(request) \ {"ws"} :
        head' = IF peer[c] = "reading"
                  THEN [head EXCEPT ![c] = Append(@, Response(seen))] ELSE head
  BY <1>2
<1>4. Response(seen) \in {"200", "400", "404", "101", "system"}
  <2>1. seen \in {"index", "ws_no_key", "unknown"}
    BY DEF Seen, Requests
  <2>. QED  BY <2>1 DEF Response
<1>5. /\ head' \in [Clients -> Seq({"200", "400", "404", "101", "system"})]
      /\ \A d \in Clients : d # c => head'[d] = head[d]
  BY <1>0, <1>3, <1>4, HeadFacts
<1>6. peer' \in [Clients -> {"none", "reading", "gone"}] /\ peer' = peer
  BY <1>0, <1>1 DEF TypeOK
<1>. QED  BY <1>1, <1>5, <1>6, HandlerWeb

LEMMA UpgradeWeb ==
  ASSUME WebInv, NEW c \in Clients, Upgrade(c) \/ ReadFails(c)
  PROVE  WebInv'
<1>0. TypeOK /\ SocketInv
  BY DEF WebInv
<1>. PICK h \in {"upgrade", "closed"} :
       /\ hpc[c] = "read" /\ hpc' = [hpc EXCEPT ![c] = h]
       /\ UNCHANGED <<channel, shared, broadcaster, listener, peer, sockets>>
  BY DEF Upgrade, ReadFails
<1>1. /\ peer' \in [Clients -> {"none", "reading", "gone"}] /\ peer' = peer
      /\ head' \in [Clients -> Seq({"200", "400", "404", "101", "system"})] /\ head' = head
      /\ head[c] = <<>>
      /\ UNCHANGED <<pos, torn>>
  BY <1>0 DEF TypeOK, SocketInv, sockets
<1>. QED  BY <1>1, HandlerWeb

LEMMA WriteSwitchingWeb ==
  ASSUME WebInv, NEW c \in Clients, WriteSwitching(c)
  PROVE  WebInv'
<1>0. TypeOK /\ SocketInv
  BY DEF WebInv
<1>1. /\ hpc[c] = "upgrade" /\ head[c] = <<>>
      /\ UNCHANGED <<channel, shared, broadcaster, listener, peer, pos, torn>>
      /\ peer' \in [Clients -> {"none", "reading", "gone"}] /\ peer' = peer
  BY <1>0 DEF WriteSwitching, SocketInv, TypeOK
<1>2. head' = IF peer[c] = "reading" THEN [head EXCEPT ![c] = Append(@, "101")] ELSE head
  BY DEF WriteSwitching
<1>3. /\ head' \in [Clients -> Seq({"200", "400", "404", "101", "system"})]
      /\ \A d \in Clients : d # c => head'[d] = head[d]
      /\ peer[c] = "reading" => head'[c] = Append(head[c], "101")
  BY <1>0, <1>2, HeadFacts
<1>4. Append(<<>>, "101") = <<"101">>
  OBVIOUS
<1>5. CASE peer[c] = "reading"
  <2>1. hpc' = [hpc EXCEPT ![c] = "system"]
    BY <1>5 DEF WriteSwitching
  <2>. QED  BY <1>1, <1>3, <1>4, <1>5, <2>1, HandlerWeb
<1>6. CASE peer[c] # "reading"
  <2>1. hpc' = [hpc EXCEPT ![c] = "closed"]
    BY <1>6 DEF WriteSwitching
  <2>. QED  BY <1>1, <1>3, <2>1, HandlerWeb
<1>. QED  BY <1>5, <1>6

LEMMA WriteSystemWeb ==
  ASSUME WebInv, NEW c \in Clients, WriteSystem(c)
  PROVE  WebInv'
<1>0. TypeOK /\ SocketInv
  BY DEF WebInv
<1>1. /\ hpc[c] = "system" /\ head[c] = <<"101">>
      /\ hpc' = [hpc EXCEPT ![c] = "lock"]
      /\ UNCHANGED <<channel, shared, broadcaster, listener, peer, pos, torn>>
      /\ peer' \in [Clients -> {"none", "reading", "gone"}] /\ peer' = peer
  BY <1>0 DEF WriteSystem, SocketInv, TypeOK
<1>2. head' = IF peer[c] = "reading" THEN [head EXCEPT ![c] = Append(@, "system")] ELSE head
  BY DEF WriteSystem
<1>3. /\ head' \in [Clients -> Seq({"200", "400", "404", "101", "system"})]
      /\ \A d \in Clients : d # c => head'[d] = head[d]
      /\ peer[c] = "reading" => head'[c] = Append(head[c], "system")
  BY <1>0, <1>2, HeadFacts
<1>4. Append(<<"101">>, "system") = <<"101", "system">>
  <2>1. \A m, n : Append(<<m>>, n) = <<m, n>>
    <3>. TAKE m, n
    <3>1. <<m>> \in Seq({m, n}) /\ Len(<<m>>) = 1 /\ <<m>>[1] = m
      OBVIOUS
    <3>2. /\ Append(<<m>>, n) \in Seq({m, n}) /\ Len(Append(<<m>>, n)) = 2
          /\ Append(<<m>>, n)[1] = m /\ Append(<<m>>, n)[2] = n
      BY <3>1, AppendProperties
    <3>3. /\ <<m, n>> \in Seq({m, n}) /\ Len(<<m, n>>) = 2
          /\ <<m, n>>[1] = m /\ <<m, n>>[2] = n
      OBVIOUS
    <3>4. \A i \in 1 .. 2 : i = 1 \/ i = 2
      OBVIOUS
    <3>. QED  BY <3>2, <3>3, <3>4, SeqEqual
  <2>. QED  BY <2>1, Zenon
<1>. QED  BY <1>1, <1>3, <1>4, HandlerWeb

LEMMA HandlerLocksWeb ==
  ASSUME WebInv, NEW c \in Clients, HandlerLocks(c)
  PROVE  WebInv'
<1>0. TypeOK /\ LockOwned /\ SocketInv
  BY DEF WebInv
<1>a. /\ hpc[c] = "lock" /\ lock = FREE /\ lock' = c
      /\ hpc' = [hpc EXCEPT ![c] = "push"]
      /\ UNCHANGED <<channel, clients, broadcaster, listener, peer, sockets>>
  BY DEF HandlerLocks
<1>b. hpc \in [Clients -> {"none", "read", "upgrade", "system", "lock", "push",
                         "registered", "closed"}]
  BY <1>0 DEF TypeOK
<1>c. hpc'[c] = "push" /\ \A d \in Clients : d # c => hpc'[d] = hpc[d]
  BY <1>a, <1>b
<1>d. FREE \notin Clients /\ BROADCASTER \notin Clients
  BY WebAssumption DEF FREE, BROADCASTER, Clients
<1>1. TypeOK'
  <2>1. hpc' \in [Clients -> {"none", "read", "upgrade", "system", "lock", "push",
                             "registered", "closed"}]
    BY <1>a, <1>b
  <2>. QED  BY <1>0, <1>a, <2>1 DEF TypeOK, channel, broadcaster, sockets
<1>2. LockOwned'
  BY <1>0, <1>a, <1>c, <1>d DEF LockOwned, broadcaster, FREE, BROADCASTER
<1>3. SocketInv'
  BY <1>0, <1>a, <1>c DEF SocketInv, broadcaster, sockets
<1>4. Quiet
  BY <1>a, <1>c DEF Quiet, sockets
<1>. QED  BY <1>1, <1>2, <1>3, <1>4, QuietWeb

(* A handler that registers finds the broadcaster outside of its round. *)
LEMMA PushFacts ==
  ASSUME WebInv, NEW c \in Clients, Push(c)
  PROVE  /\ bpc \in {"recv", "lock"} /\ lock = c /\ hpc[c] = "push"
         /\ c \notin failed
         /\ Base \in 0 .. MaxMsgs /\ Base <= sent
         /\ pos' = [pos EXCEPT ![c] = Base]
         /\ \A d \in Clients : pos[d] <= Base
         /\ \A d \in Registered \ failed : pos[d] = Base
<1>0. /\ TypeOK /\ LockOwned /\ VectorInv /\ IndexesInv
      /\ FailedInv /\ SocketInv /\ QueueInv /\ PositionInv
  BY DEF WebInv
<1>1. hpc[c] = "push" /\ lock = c /\ c # BROADCASTER
  BY <1>0, WebAssumption DEF Push, LockOwned, BROADCASTER, Clients
<1>2. bpc \in {"recv", "lock"}
  BY <1>0, <1>1 DEF LockOwned, TypeOK
<1>3. c \notin failed
  BY <1>0, <1>1 DEF FailedInv
<1>4. Base \in 0 .. MaxMsgs /\ Base <= sent
  <2>1. cur \in 0 .. MaxMsgs /\ sent \in Nat /\ Len(queue) \in Nat /\ MaxMsgs \in Nat
    BY <1>0, WebAssumption DEF TypeOK
  <2>2. cur <= sent
    BY <1>0, <2>1 DEF QueueInv
  <2>. QED  BY <1>0, <1>2, <2>1, <2>2 DEF QueueInv, Base
<1>5. pos' = [pos EXCEPT ![c] = Base]
  BY <1>2 DEF Push, Base
<1>6. \A d \in Clients : pos[d] <= Base
  BY <1>0, <1>2 DEF PositionInv
<1>7. \A d \in Registered \ failed : pos[d] = Base
  BY <1>0, <1>2 DEF FailedInv, PositionInv
<1>. QED  BY <1>1, <1>2, <1>3, <1>4, <1>5, <1>6, <1>7

LEMMA PushWeb ==
  ASSUME WebInv, NEW c \in Clients, Push(c)
  PROVE  WebInv'
<1>0. /\ TypeOK /\ LockOwned /\ VectorInv /\ IndexesInv
      /\ FailedInv /\ SocketInv /\ QueueInv /\ PositionInv
  BY DEF WebInv
<1>a. /\ clients' = Append(clients, c) /\ lock' = FREE
      /\ hpc' = [hpc EXCEPT ![c] = "registered"]
      /\ UNCHANGED <<sent, queue, bpc, cur, idx, to_remove, failed, listener, peer, head, torn>>
  BY DEF Push, channel, broadcaster
<1>b. /\ bpc \in {"recv", "lock"} /\ lock = c /\ hpc[c] = "push" /\ c \notin failed
      /\ Base \in 0 .. MaxMsgs
      /\ pos' = [pos EXCEPT ![c] = Base]
      /\ \A d \in Clients : pos[d] <= Base
  BY PushFacts
<1>c. /\ hpc \in [Clients -> {"none", "read", "upgrade", "system", "lock", "push",
                             "registered", "closed"}]
      /\ pos \in [Clients -> 0 .. MaxMsgs] /\ clients \in Seq(Clients)
      /\ Len(clients) \in Nat
  BY <1>0 DEF TypeOK
<1>d. hpc'[c] = "registered" /\ \A d \in Clients : d # c => hpc'[d] = hpc[d]
  BY <1>a, <1>c
<1>e. pos'[c] = Base /\ \A d \in Clients : d # c => pos'[d] = pos[d]
  BY <1>b, <1>c
<1>f. /\ clients' \in Seq(Clients)
      /\ Len(clients') = Len(clients) + 1
      /\ \A i \in 1 .. Len(clients) : clients'[i] = clients[i]
      /\ clients'[Len(clients) + 1] = c
  BY <1>a, <1>c, AppendProperties
<1>g. \A i \in 1 .. Len(clients') :
        \/ i \in 1 .. Len(clients)
        \/ i = Len(clients) + 1 /\ i \notin 1 .. Len(clients)
  BY <1>c, <1>f
<1>h. \A i \in 1 .. Len(clients) : clients[i] \in Clients /\ clients[i] # c
  BY <1>0, <1>b, <1>c DEF VectorInv
<1>i. to_remove = <<>> /\ Base' = Base
  BY <1>0, <1>a, <1>b DEF IndexesInv, Base
<1>1. TypeOK'
  <2>1. hpc' \in [Clients -> {"none", "read", "upgrade", "system", "lock", "push",
                             "registered", "closed"}]
    BY <1>a, <1>c
  <2>2. pos' \in [Clients -> 0 .. MaxMsgs]
    BY <1>b, <1>c
  <2>3. to_remove' \in Seq(1 .. Len(clients'))
    BY <1>a, <1>i
  <2>. QED  BY <1>0, <1>a, <1>f, <2>1, <2>2, <2>3 DEF TypeOK
<1>2. LockOwned'
  BY <1>0, <1>a, <1>b, <1>d, WebAssumption DEF LockOwned, FREE, BROADCASTER, Clients
<1>3. VectorInv'
  BY <1>0, <1>d, <1>f, <1>g, <1>h DEF VectorInv
<1>4. IndexesInv'
  BY <1>a, <1>b, <1>i DEF IndexesInv
<1>5. FailedInv'
  <2>1. \A d \in failed : hpc'[d] = "registered"
    BY <1>0, <1>b, <1>d DEF FailedInv, TypeOK
  <2>2. \A i \in 1 .. Len(clients') : clients'[i] \notin failed
    BY <1>0, <1>b, <1>f, <1>g, <1>i DEF FailedInv
  <2>3. \A d \in Registered' \ failed : \E i \in 1 .. Len(clients') : clients'[i] = d
    <3>. SUFFICES ASSUME NEW d \in Registered' \ failed
                  PROVE  \E i \in 1 .. Len(clients') : clients'[i] = d
      OBVIOUS
    <3>1. CASE d = c
      <4>1. Len(clients) + 1 \in 1 .. Len(clients')
        BY <1>c, <1>f
      <4>. QED  BY <1>f, <3>1, <4>1
    <3>2. CASE d # c
      <4>1. d \in Registered \ failed
        BY <1>d, <3>2 DEF Registered
      <4>2. PICK i \in 1 .. Len(clients) : clients[i] = d
        BY <1>0, <4>1 DEF FailedInv
      <4>3. i \in 1 .. Len(clients')
        BY <1>c, <1>f
      <4>. QED  BY <1>f, <4>2, <4>3
    <3>. QED  BY <3>1, <3>2
  <2>4. ~ \E j \in 1 .. Len(to_remove) : TRUE
    BY <1>i
  <2>. QED  BY <1>a, <2>1, <2>2, <2>3, <2>4 DEF FailedInv
<1>6. SocketInv'
  BY <1>0, <1>a, <1>b, <1>d DEF SocketInv
<1>7. QueueInv'
  BY <1>0, <1>a DEF QueueInv
<1>8. PositionInv'
  <2>1. \A i \in 1 .. Len(clients) : clients[i] \notin failed => pos[clients[i]] = Base
    BY <1>0, <1>b DEF PositionInv
  <2>2. \A i \in 1 .. Len(clients') : clients'[i] \notin failed => pos'[clients'[i]] = Base
    BY <1>e, <1>f, <1>g, <1>h, <2>1
  <2>3. \A d \in Clients : pos'[d] <= Base
    BY <1>b, <1>e
  <2>. QED  BY <1>a, <1>b, <1>i, <2>2, <2>3 DEF PositionInv
<1>. QED  BY <1>1, <1>2, <1>3, <1>4, <1>5, <1>6, <1>7, <1>8 DEF WebInv

-----------------------------------------------------------------------------
(* The steps of the specification, by who takes them. *)
LEMMA Steps ==
  ASSUME Next
  PROVE  \/ Broadcast \/ Receive \/ LockClients \/ WriteWhole \/ WriteFails
         \/ WritesDone \/ RemoveFailed \/ UnlockClients \/ Bind
         \/ \E c \in Clients :
              \/ Accept(c) \/ PeerLeaves(c) \/ Answer(c) \/ Upgrade(c) \/ ReadFails(c)
              \/ WriteSwitching(c) \/ WriteSystem(c) \/ HandlerLocks(c) \/ Push(c)
BY DEF Next, Broadcaster, Handler

LEMMA StutterWeb ==
  ASSUME WebInv, UNCHANGED vars
  PROVE  WebInv'
<1>1. UNCHANGED <<sent, queue, lock, clients, bpc, cur, idx, to_remove, failed, listener,
                  hpc, peer, head, pos, torn>>
  BY DEF vars, channel, shared, broadcaster, handlers, sockets
<1>2. TypeOK'
  BY <1>1 DEF WebInv, TypeOK
<1>3. LockOwned' /\ VectorInv' /\ IndexesInv'
  BY <1>1 DEF WebInv, LockOwned, VectorInv, IndexesInv
<1>4. FailedInv' /\ SocketInv' /\ QueueInv' /\ PositionInv'
  BY <1>1 DEF WebInv, FailedInv, SocketInv, QueueInv, PositionInv, Registered, Base
<1>. QED  BY <1>2, <1>3, <1>4 DEF WebInv

LEMMA StepWeb ==
  ASSUME WebInv, [Next]_vars
  PROVE  WebInv'
<1>1. CASE UNCHANGED vars
  BY <1>1, StutterWeb
<1>2. CASE Next
  <2>1. CASE \/ Broadcast \/ Receive \/ LockClients \/ WriteWhole \/ WriteFails
             \/ WritesDone \/ RemoveFailed \/ UnlockClients \/ Bind
    BY <2>1, BroadcastWeb, ReceiveWeb, LockClientsWeb, WriteWholeWeb, WriteFailsWeb,
       WritesDoneWeb, RemoveFailedWeb, UnlockClientsWeb, BindWeb
  <2>2. ASSUME NEW c \in Clients,
               \/ Accept(c) \/ PeerLeaves(c) \/ Answer(c) \/ Upgrade(c) \/ ReadFails(c)
               \/ WriteSwitching(c) \/ WriteSystem(c) \/ HandlerLocks(c) \/ Push(c)
        PROVE  WebInv'
    BY <2>2, AcceptWeb, PeerLeavesWeb, AnswerWeb, UpgradeWeb, WriteSwitchingWeb,
       WriteSystemWeb, HandlerLocksWeb, PushWeb
  <2>. QED  BY <1>2, <2>1, <2>2, Steps
<1>. QED  BY <1>1, <1>2

(* The conjunction of the parts above holds in every reachable state of the
   server of src/netzer-cli/src/web/mod.rs. *)
THEOREM WebInvariant == Spec => []WebInv
<1>. QED  BY InitWeb, StepWeb, PTL DEF Spec

(* Every variable has its type, the indexes to remove are in bounds among them:
   Vec::remove (mod.rs:163) never panics with the mutex held. *)
THEOREM WebTypes == Spec => []TypeOK
<1>1. WebInv => TypeOK
  BY DEF WebInv
<1>. QED  BY <1>1, WebInvariant, PTL

(* Whatever number of sockets fail in a round, exactly those are gone from the
   vector when it ends (mod.rs:162). *)
THEOREM FailedSocketsRemoved == Spec => []RemovedExactly
<1>1. ASSUME WebInv PROVE RemovedExactly
  <2>. SUFFICES ASSUME bpc \in {"recv", "lock"}
                PROVE  /\ ToSet(clients) = Registered \ failed
                       /\ Len(clients) = Cardinality(Registered \ failed)
    BY DEF RemovedExactly
  <2>0. TypeOK /\ VectorInv /\ IndexesInv /\ FailedInv
    BY <1>1 DEF WebInv
  <2>1. clients \in Seq(Clients) /\ DOMAIN clients = 1 .. Len(clients)
    BY <2>0 DEF TypeOK
  <2>2. to_remove = <<>> /\ 1 .. Len(to_remove) = {}
    BY <2>0 DEF IndexesInv
  <2>3. \A i \in 1 .. Len(clients) : clients[i] \in Registered \ failed
    BY <2>0, <2>1, <2>2 DEF FailedInv, VectorInv, Registered
  <2>4. \A c \in Registered \ failed : \E i \in 1 .. Len(clients) : clients[i] = c
    BY <2>0 DEF FailedInv
  <2>5. ToSet(clients) = Registered \ failed
    BY <2>1, <2>3, <2>4 DEF ToSet
  <2>6. Cardinality(ToSet(clients)) = Len(clients)
    BY <2>0, <2>1, InjectiveLen DEF VectorInv
  <2>. QED  BY <2>5, <2>6
<1>. QED  BY <1>1, WebInvariant, PTL

(* Nothing follows a frame the write timeout has cut short (mod.rs:156). *)
THEOREM TornSocketsSilent == Spec => NothingAfterTorn
<1>1. ASSUME WebInv, [Next]_vars
      PROVE  [\A c \in Clients : torn[c] => pos'[c] = pos[c] /\ head'[c] = head[c]]_vars
  <2>. SUFFICES ASSUME NEW c \in Clients, torn[c], Next
                PROVE  pos'[c] = pos[c] /\ head'[c] = head[c]
    BY <1>1
  <2>0. TypeOK /\ SocketInv /\ FailedInv
    BY <1>1 DEF WebInv
  <2>1. c \in failed /\ hpc[c] = "registered"
    BY <2>0 DEF SocketInv, FailedInv
  <2>2. /\ pos \in [Clients -> 0 .. MaxMsgs]
        /\ head \in [Clients -> Seq({"200", "400", "404", "101", "system"})]
    BY <2>0 DEF TypeOK
  <2>3. CASE WriteWhole
    <3>1. clients[idx] # c
      BY <1>1, <2>1, <2>3, CurrentSocket DEF WriteWhole
    <3>. QED  BY <2>2, <2>3, <3>1 DEF WriteWhole
  <2>4. CASE Broadcast \/ Receive \/ LockClients \/ WritesDone \/ RemoveFailed
             \/ UnlockClients \/ Bind
    BY <2>4 DEF Broadcast, Receive, LockClients, WritesDone, RemoveFailed, UnlockClients,
                Bind, sockets
  <2>5. CASE WriteFails
    BY <2>5 DEF WriteFails
  <2>6. ASSUME NEW d \in Clients,
               \/ Accept(d) \/ PeerLeaves(d) \/ Answer(d) \/ Upgrade(d) \/ ReadFails(d)
               \/ WriteSwitching(d) \/ WriteSystem(d) \/ HandlerLocks(d) \/ Push(d)
        PROVE  pos'[c] = pos[c] /\ head'[c] = head[c]
    <3>1. CASE Accept(d) \/ PeerLeaves(d) \/ Upgrade(d) \/ ReadFails(d) \/ HandlerLocks(d)
      BY <3>1 DEF Accept, PeerLeaves, Upgrade, ReadFails, HandlerLocks, sockets
    <3>2. CASE Answer(d) \/ WriteSwitching(d) \/ WriteSystem(d)
      <4>1. d # c /\ pos' = pos
        BY <2>1, <3>2 DEF Answer, WriteSwitching, WriteSystem
      <4>2. CASE Answer(d)
        BY <2>2, <4>1, <4>2 DEF Answer
      <4>3. CASE WriteSwitching(d)
        BY <2>2, <4>1, <4>3 DEF WriteSwitching
      <4>4. CASE WriteSystem(d)
        BY <2>2, <4>1, <4>4 DEF WriteSystem
      <4>. QED  BY <3>2, <4>1, <4>2, <4>3, <4>4
    <3>3. CASE Push(d)
      <4>1. d # c /\ head' = head
        BY <2>1, <3>3 DEF Push
      <4>2. pos' = [pos EXCEPT ![d] = Base]
        BY <1>1, <3>3, PushFacts
      <4>. QED  BY <2>2, <4>1, <4>2
    <3>. QED  BY <2>6, <3>1, <3>2, <3>3
  <2>. QED  BY <2>3, <2>4, <2>5, <2>6, Steps
<1>. QED  BY <1>1, WebInvariant, PTL DEF Spec, NothingAfterTorn

(* A packet frame comes behind the 101 response and the system frame, which
   another thread has written (mod.rs:236, :241, :244). *)
THEOREM HandshakeBeforeFeed == Spec => HandshakeFirst
<1>1. ASSUME WebInv, [Next]_vars
      PROVE  [\A c \in ToSet(clients) :
                pos'[c] # pos[c] => head[c] = <<"101", "system">>]_vars
  <2>. SUFFICES ASSUME NEW c \in ToSet(clients), pos'[c] # pos[c], Next
                PROVE  head[c] = <<"101", "system">>
    BY <1>1
  <2>0. TypeOK /\ SocketInv /\ VectorInv
    BY <1>1 DEF WebInv
  <2>1. c \in Clients /\ hpc[c] = "registered"
    <3>1. clients \in Seq(Clients) /\ DOMAIN clients = 1 .. Len(clients)
      BY <2>0 DEF TypeOK
    <3>. QED  BY <2>0, <3>1 DEF ToSet, VectorInv
  <2>2. pos \in [Clients -> 0 .. MaxMsgs]
    BY <2>0 DEF TypeOK
  <2>3. CASE WriteWhole
    <3>1. clients[idx] = c
      BY <2>1, <2>2, <2>3 DEF WriteWhole
    <3>2. peer[c] = "reading"
      BY <2>3, <3>1 DEF WriteWhole
    <3>. QED  BY <2>0, <2>1, <3>2 DEF SocketInv
  <2>4. ~(Broadcast \/ Receive \/ LockClients \/ WritesDone \/ RemoveFailed
          \/ UnlockClients \/ Bind \/ WriteFails)
    BY DEF Broadcast, Receive, LockClients, WritesDone, RemoveFailed, UnlockClients,
           Bind, WriteFails, sockets
  <2>5. ASSUME NEW d \in Clients,
               \/ Accept(d) \/ PeerLeaves(d) \/ Answer(d) \/ Upgrade(d) \/ ReadFails(d)
               \/ WriteSwitching(d) \/ WriteSystem(d) \/ HandlerLocks(d) \/ Push(d)
        PROVE  FALSE
    <3>1. CASE Push(d)
      <4>1. d # c
        BY <2>1, <3>1 DEF Push
      <4>2. pos' = [pos EXCEPT ![d] = Base]
        BY <1>1, <3>1, PushFacts
      <4>. QED  BY <2>1, <2>2, <4>1, <4>2
    <3>2. CASE ~Push(d)
      BY <2>5, <3>2 DEF Accept, PeerLeaves, Upgrade, ReadFails, HandlerLocks, Answer,
                        WriteSwitching, WriteSystem, sockets
    <3>. QED  BY <3>1, <3>2
  <2>. QED  BY <2>3, <2>4, <2>5, Steps
<1>. QED  BY <1>1, WebInvariant, PTL DEF Spec, HandshakeFirst

-----------------------------------------------------------------------------
(* The refinement: what each step is to PubSub. *)

Membership ==
  [c \in Clients |->
     IF c \in failed THEN "left" ELSE IF c \in Registered THEN "in" ELSE "out"]

LEMMA SameMembers ==
  ASSUME failed' = failed, Registered' = Registered
  PROVE  Membership' = Membership
BY DEF Membership

(* The members of the feed are the registered sockets that have not failed. *)
LEMMA MembersAre ==
  ASSUME WebInv
  PROVE  PS!Members = Registered \ failed
<1>1. failed \subseteq Registered /\ Registered \subseteq Clients
  BY DEF WebInv, TypeOK, FailedInv, Registered
<1>2. PS!Members = {c \in Clients : Membership[c] = "in"}
  BY DEF PS!Members, Membership
<1>3. \A c \in Clients : Membership[c] = "in" <=> c \in Registered \ failed
  BY DEF Membership
<1>. QED  BY <1>1, <1>2, <1>3

(* Steps that publish nothing, write no packet frame and change no membership. *)
LEMMA FeedStutters ==
  ASSUME sent' = sent, pos' = pos, failed' = failed, Registered' = Registered
  PROVE  UNCHANGED PS!vars
BY SameMembers DEF PS!vars, Membership

LEMMA DeliverStep ==
  ASSUME WebInv, WriteWhole
  PROVE  PS!Next
<1>. DEFINE c == clients[idx]
<1>0. TypeOK /\ QueueInv /\ PositionInv /\ FailedInv
  BY DEF WebInv
<1>1. /\ bpc = "write" /\ idx <= Len(clients) /\ pos' = [pos EXCEPT ![c] = cur]
      /\ UNCHANGED <<sent, failed, hpc>>
  BY DEF WriteWhole, channel, handlers
<1>2. /\ idx \in 1 .. Len(clients) /\ c \in Clients /\ c \notin failed
      /\ hpc[c] = "registered"
  BY <1>1, CurrentSocket
<1>3. /\ cur \in Nat /\ sent \in Nat /\ pos \in [Clients -> Nat]
      /\ Len(queue) \in Nat /\ Base = cur - 1
  BY <1>0, <1>1 DEF TypeOK, Base
<1>4. pos[c] = cur - 1
  BY <1>0, <1>1, <1>2, <1>3 DEF PositionInv
<1>5. cur <= sent
  BY <1>0, <1>3 DEF QueueInv
<1>6. \A d \in Registered \ failed : pos[d] >= cur - 1
  BY <1>0, <1>1, <1>3 DEF PositionInv, FailedInv
<1>7. c \in PS!Members
  BY <1>2, MembersAre DEF Registered
<1>8. Membership' = Membership
  BY <1>1, SameMembers DEF Registered
<1>. HIDE DEF c
<1>9. PS!Deliver(c)
  <2>1. pos[c] < sent /\ pos' = [pos EXCEPT ![c] = pos[c] + 1]
    BY <1>1, <1>2, <1>3, <1>4, <1>5
  <2>2. \A d \in PS!Members : pos[d] >= pos[c]
    BY <1>4, <1>6, MembersAre
  <2>. QED  BY <1>1, <1>7, <1>8, <2>1, <2>2 DEF PS!Deliver, Membership
<1>. QED  BY <1>2, <1>9 DEF PS!Next

LEMMA LeaveStep ==
  ASSUME WebInv, WriteFails
  PROVE  PS!Next
<1>0. bpc = "write" /\ idx <= Len(clients)
  BY DEF WriteFails
<1>. PICK c \in Clients : c = clients[idx]
  BY <1>0, CurrentSocket
<1>1. /\ failed' = failed \cup {c}
      /\ UNCHANGED <<sent, pos, hpc>>
  BY DEF WriteFails, channel, handlers
<1>2. c \notin failed /\ hpc[c] = "registered"
  BY <1>0, CurrentSocket
<1>3. c \in PS!Members
  BY <1>2, MembersAre DEF Registered
<1>4. Membership' = [Membership EXCEPT ![c] = "left"]
  BY <1>1, <1>2 DEF Membership, Registered
<1>5. PS!Leave(c)
  BY <1>1, <1>3, <1>4 DEF PS!Leave, Membership
<1>. QED  BY <1>5 DEF PS!Next

LEMMA JoinStep ==
  ASSUME WebInv, NEW c \in Clients, Push(c)
  PROVE  PS!Next
<1>1. /\ hpc[c] = "push" /\ c \notin failed
      /\ Base \in 0 .. sent
      /\ pos' = [pos EXCEPT ![c] = Base]
      /\ \A d \in Clients : pos[d] <= Base
      /\ \A d \in Registered \ failed : pos[d] = Base
  <2>1. Base \in Nat /\ sent \in Nat
    BY WebAssumption, PushFacts DEF WebInv, TypeOK
  <2>. QED  BY <2>1, PushFacts
<1>2. /\ hpc' = [hpc EXCEPT ![c] = "registered"]
      /\ UNCHANGED <<sent, failed>>
  BY DEF Push, channel, broadcaster
<1>3. hpc \in [Clients -> {"none", "read", "upgrade", "system", "lock", "push",
                         "registered", "closed"}]
  BY DEF WebInv, TypeOK
<1>4. Membership[c] = "out" /\ Membership' = [Membership EXCEPT ![c] = "in"]
  BY <1>1, <1>2, <1>3 DEF Membership, Registered
<1>5. \A d \in PS!Members : pos[d] = Base
  BY <1>1, MembersAre
<1>6. PS!Join(c)
  BY <1>1, <1>2, <1>4, <1>5 DEF PS!Join, Membership
<1>. QED  BY <1>6 DEF PS!Next

(* The server keeps the promise of PubSub to every dashboard: each message once,
   in order, from the one that was next when it registered, until a write to it
   fails (mod.rs:142 to :165 and :243). *)
THEOREM FeedImplementsPubSub == Spec => ImplementsPubSub
<1>1. Init => PS!Init
  <2>. SUFFICES ASSUME Init PROVE PS!Init
    OBVIOUS
  <2>1. failed = {} /\ Registered = {}
    BY DEF Init, Registered
  <2>2. Membership = [c \in Clients |-> "out"]
    BY <2>1 DEF Membership
  <2>. QED  BY <2>2 DEF Init, PS!Init, Membership
<1>2. ASSUME WebInv, [Next]_vars PROVE [PS!Next]_(PS!vars)
  <2>1. CASE UNCHANGED vars
    <3>1. sent' = sent /\ pos' = pos /\ failed' = failed /\ hpc' = hpc
      BY <2>1 DEF vars, channel, broadcaster, handlers, sockets
    <3>. QED  BY <3>1, FeedStutters DEF Registered
  <2>2. CASE Broadcast
    <3>1. sent' = sent + 1 /\ pos' = pos /\ failed' = failed /\ hpc' = hpc
      BY <2>2 DEF Broadcast, broadcaster, handlers, sockets
    <3>2. Membership' = Membership
      BY <3>1, SameMembers DEF Registered
    <3>. QED  BY <3>1, <3>2 DEF PS!Next, PS!Publish, Membership
  <2>3. CASE \/ Receive \/ LockClients \/ WritesDone \/ RemoveFailed \/ UnlockClients
             \/ Bind
    <3>1. sent' = sent /\ pos' = pos /\ failed' = failed /\ hpc' = hpc
      BY <2>3 DEF Receive, LockClients, WritesDone, RemoveFailed, UnlockClients, Bind,
                  channel, broadcaster, handlers, sockets
    <3>. QED  BY <3>1, FeedStutters DEF Registered
  <2>4. CASE WriteWhole
    BY <1>2, <2>4, DeliverStep
  <2>5. CASE WriteFails
    BY <1>2, <2>5, LeaveStep
  <2>6. ASSUME NEW c \in Clients,
               \/ Accept(c) \/ PeerLeaves(c) \/ Answer(c) \/ Upgrade(c) \/ ReadFails(c)
               \/ WriteSwitching(c) \/ WriteSystem(c) \/ HandlerLocks(c) \/ Push(c)
        PROVE  [PS!Next]_(PS!vars)
    <3>1. CASE Push(c)
      BY <1>2, <3>1, JoinStep
    <3>2. CASE ~Push(c)
      <4>1. /\ sent' = sent /\ pos' = pos /\ failed' = failed
            /\ \E h \in {"none", "read", "upgrade", "system", "lock", "push", "closed"} :
                 hpc' = hpc \/ hpc' = [hpc EXCEPT ![c] = h]
            /\ hpc[c] # "registered" \/ hpc' = hpc
        BY <2>6, <3>2 DEF Accept, PeerLeaves, Answer, Upgrade, ReadFails, WriteSwitching,
             WriteSystem, HandlerLocks, channel, broadcaster, sockets
      <4>2. hpc \in [Clients -> {"none", "read", "upgrade", "system", "lock", "push",
                               "registered", "closed"}]
        BY <1>2 DEF WebInv, TypeOK
      <4>3. Registered' = Registered
        BY <4>1, <4>2 DEF Registered
      <4>. QED  BY <4>1, <4>3, FeedStutters
    <3>. QED  BY <3>1, <3>2
  <2>. QED  BY <1>2, <2>1, <2>2, <2>3, <2>4, <2>5, <2>6, Steps
<1>. QED  BY <1>1, <1>2, WebInvariant, PTL DEF Spec, ImplementsPubSub, PS!Spec

-----------------------------------------------------------------------------
(* The functions of WsProtocol, for every input. *)

(* Two bytes of a number tell what is left of it below 65536. *)
LEMMA TwoBytes ==
  ASSUME NEW n \in Nat
  PROVE  /\ U16(n)[1] \in 0 .. 255 /\ U16(n)[2] \in 0 .. 255
         /\ 256 * U16(n)[1] + U16(n)[2] = (n % 65536)
<1>1. U16(n)[1] = (n \div 256) % 256 /\ U16(n)[2] = (n % 256)
  BY DEF U16
<1>2. n \div 256 \in Nat
  OBVIOUS
<1>. DEFINE q == n \div 256
<1>3. n = 256 * q + (n % 256) /\ (n % 256) \in 0 .. 255
  OBVIOUS
<1>4. q = 256 * (q \div 256) + (q % 256) /\ (q % 256) \in 0 .. 255 /\ q \div 256 \in Nat
  BY <1>2
<1>5. n = 65536 * (q \div 256) + (256 * (q % 256) + (n % 256))
  BY <1>3, <1>4
<1>6. (n % 65536) = 256 * (q % 256) + (n % 256)
  BY <1>3, <1>4, <1>5
<1>. QED  BY <1>1, <1>3, <1>4, <1>6

(* Whatever the length of a message, in a u64, the client that reads the header of its
   frame finds that length, and so where the next frame begins (web/mod.rs:116). *)
THEOREM HeaderTellsLength ==
  ASSUME NEW len \in Nat, len < 65536 * 65536 * 65536 * 65536
  PROVE  FrameLength(FrameHeader(len)) = len
<1>. DEFINE h == FrameHeader(len)
<1>1. CASE len <= 125
  <2>1. h = <<TEXT>> \o <<len>>
    BY <1>1 DEF FrameHeader
  <2>2. h[2] = len
    BY <2>1
  <2>. QED  BY <1>1, <2>2 DEF FrameLength
<1>2. CASE len \in 126 .. 65535
  <2>1. h = <<TEXT>> \o (<<126>> \o U16(len))
    <3>1. ~ (len <= 125) /\ len <= 65535
      BY <1>2
    <3>. QED  BY <3>1 DEF FrameHeader
  <2>2. h[2] = 126 /\ h[3] = U16(len)[1] /\ h[4] = U16(len)[2]
    BY <2>1 DEF U16
  <2>3. (len % 65536) = len
    BY <1>2
  <2>. QED  BY <2>2, <2>3, TwoBytes DEF FrameLength
<1>3. CASE len > 65535
  <2>. DEFINE a == len \div 65536
              b == a \div 65536
              c == b \div 65536
  <2>1. a \in Nat /\ b \in Nat /\ c \in Nat
    OBVIOUS
  <2>2. h = <<TEXT>> \o (<<127>> \o (U16(c) \o U16(b) \o U16(a) \o U16(len)))
    <3>1. h = <<TEXT>> \o (<<127>> \o U64(len))
      BY <1>3 DEF FrameHeader
    <3>2. U64(len) = U16(c) \o U16(b) \o U16(a) \o U16(len)
      BY DEF U64
    <3>. QED  BY <3>1, <3>2
  <2>3. /\ h[2] = 127
        /\ h[3] = U16(c)[1] /\ h[4] = U16(c)[2]
        /\ h[5] = U16(b)[1] /\ h[6] = U16(b)[2]
        /\ h[7] = U16(a)[1] /\ h[8] = U16(a)[2]
        /\ h[9] = U16(len)[1] /\ h[10] = U16(len)[2]
    BY <2>2 DEF U16
  <2>4. FrameLength(h) =
          65536 * (65536 * (65536 * (256 * h[3] + h[4]) + 256 * h[5] + h[6])
                     + 256 * h[7] + h[8]) + 256 * h[9] + h[10]
    BY <2>3 DEF FrameLength
  <2>5. /\ 256 * h[3] + h[4] = c % 65536
        /\ 256 * h[5] + h[6] = (b % 65536)
        /\ 256 * h[7] + h[8] = (a % 65536)
        /\ 256 * h[9] + h[10] = (len % 65536)
    BY <2>1, <2>3, TwoBytes
  <2>6. /\ len = 65536 * a + (len % 65536)
        /\ a = 65536 * b + (a % 65536)
        /\ b = 65536 * c + (b % 65536)
    BY <2>1
  <2>7. c % 65536 = c
    BY <2>1, <2>6
  <2>. QED  BY <2>4, <2>5, <2>6, <2>7, TwoBytes, <2>1, <2>3
<1>. QED  BY <1>1, <1>2, <1>3

(* Zeros up to eight bytes before the end of a block. *)
LEMMA ZerosFill ==
  ASSUME NEW len \in Nat
  PROVE  Zeros(len) \in 0 .. 63 /\ (len + 9 + Zeros(len)) % 64 = 0
<1>. DEFINE d == 55 - len
            q == d \div 64
            r == d % 64
<1>1. d \in Int
  OBVIOUS
<1>. HIDE DEF d
<1>2. q \in Int /\ r \in 0 .. 63 /\ d = 64 * q + r
  BY <1>1
<1>. HIDE DEF q, r
<1>3. Zeros(len) = r
  BY DEF Zeros, r, d
<1>4. len + 9 + r = 64 * (1 - q)
  BY <1>2 DEF d
<1>5. (64 * (1 - q)) % 64 = 0
  BY <1>2
<1>. QED  BY <1>2, <1>3, <1>4, <1>5

(* Two bytes, eight bytes. *)
LEMMA U16Type ==
  ASSUME NEW n \in Nat
  PROVE  U16(n) \in Seq(Nat) /\ Len(U16(n)) = 2
BY DEF U16

LEMMA U64Type ==
  ASSUME NEW n \in Nat
  PROVE  U64(n) \in Seq(Nat) /\ Len(U64(n)) = 8
<1>. DEFINE a == n \div 65536
            b == a \div 65536
            c == b \div 65536
<1>1. U64(n) = U16(c) \o U16(b) \o U16(a) \o U16(n)
  BY DEF U64
<1>2. a \in Nat /\ b \in Nat /\ c \in Nat
  OBVIOUS
<1>. HIDE DEF a, b, c
<1>3. U16(n) \in Seq(Nat) /\ U16(a) \in Seq(Nat) /\ U16(b) \in Seq(Nat) /\ U16(c) \in Seq(Nat)
  BY <1>2, U16Type
<1>4. /\ U64(n) \in Seq(Nat)
      /\ Len(U64(n)) = Len(U16(c)) + Len(U16(b)) + Len(U16(a)) + Len(U16(n))
  BY <1>1, <1>3
<1>5. Len(U16(n)) = 2 /\ Len(U16(a)) = 2 /\ Len(U16(b)) = 2 /\ Len(U16(c)) = 2
  BY <1>2, U16Type
<1>. QED  BY <1>4, <1>5

(* Padding fills whole blocks, for data of any length, with less than a block more than
   the mark and the length take: chunks_exact leaves no byte out (web/mod.rs:20, :25). *)
THEOREM PaddingFillsBlocks ==
  ASSUME NEW data \in Seq(Nat)
  PROVE  /\ Len(Padded(data)) % 64 = 0
         /\ Len(Padded(data)) - (Len(data) + 9) \in 0 .. 63
<1>1. PICK len \in Nat : len = Len(data)
  BY LenProperties
<1>2. PICK k \in 0 .. 63 : k = Zeros(len) /\ (len + 9 + k) % 64 = 0
  BY ZerosFill
<1>. DEFINE zeros == [i \in 1 .. k |-> 0]
            bits == U64(8 * len)
            mark == <<128>>
<1>3. zeros \in Seq(Nat) /\ Len(zeros) = k
  OBVIOUS
<1>4. bits \in Seq(Nat) /\ Len(bits) = 8
  <2>1. 8 * len \in Nat
    OBVIOUS
  <2>. QED  BY <2>1, U64Type
<1>5. mark \in Seq(Nat) /\ Len(mark) = 1
  OBVIOUS
<1>6. Padded(data) = data \o mark \o zeros \o bits
  BY <1>1, <1>2 DEF Padded
<1>. HIDE DEF zeros, bits, mark
<1>7. zeros \in Seq(Nat) /\ bits \in Seq(Nat) /\ mark \in Seq(Nat)
  BY <1>3, <1>4, <1>5
<1>8. Len(Padded(data)) = Len(data) + Len(mark) + Len(zeros) + Len(bits)
  BY <1>6, <1>7
<1>9. Len(Padded(data)) = len + 9 + k
  BY <1>1, <1>3, <1>4, <1>5, <1>8
<1>10. (len + 9 + k) % 64 = 0 /\ (len + 9 + k) - (len + 9) \in 0 .. 63
  <2>1. (len + 9 + k) - (len + 9) = k
    OBVIOUS
  <2>. QED  BY <1>2, <2>1
<1>. QED  BY <1>1, <1>9, <1>10, Zenon

\* Three bytes as four sextets, and how a decoder reads them (RFC 4648, section 4).
Four(x, y, z) == <<x \div 4, 16 * (x % 4) + (y \div 16), 4 * (y % 16) + (z \div 64), z % 64>>
Told(s) == <<4 * s[1] + (s[2] \div 16), 16 * (s[2] % 16) + (s[3] \div 4), 64 * (s[3] % 4) + s[4]>>

LEMMA FourTold ==
  ASSUME NEW x \in 0 .. 255, NEW y \in 0 .. 255, NEW z \in 0 .. 255
  PROVE  /\ Told(Four(x, y, z)) = <<x, y, z>>
         /\ \A i \in 1 .. 4 : Four(x, y, z)[i] \in 0 .. 63
<1>1. PICK xh \in 0 .. 63, xl \in 0 .. 3 : xh = x \div 4 /\ xl = x % 4 /\ x = 4 * xh + xl
  OBVIOUS
<1>2. PICK yh \in 0 .. 15, yl \in 0 .. 15 : yh = y \div 16 /\ yl = y % 16 /\ y = 16 * yh + yl
  OBVIOUS
<1>3. PICK zh \in 0 .. 3, zl \in 0 .. 63 : zh = z \div 64 /\ zl = z % 64 /\ z = 64 * zh + zl
  OBVIOUS
<1>4. PICK b \in 0 .. 63 : b = 16 * xl + yh
  OBVIOUS
<1>5. PICK c \in 0 .. 63 : c = 4 * yl + zh
  OBVIOUS
<1>6. b \div 16 = xl /\ b % 16 = yh
  BY <1>4
<1>7. c \div 4 = yl /\ c % 4 = zh
  BY <1>5
<1>8. Four(x, y, z) = <<xh, b, c, zl>>
  BY <1>1, <1>2, <1>3, <1>4, <1>5 DEF Four
<1>9. Told(<<xh, b, c, zl>>) = <<x, y, z>>
  BY <1>1, <1>2, <1>3, <1>6, <1>7 DEF Told
<1>. QED  BY <1>8, <1>9

(* Every sextet of a chunk has its letter, and a decoder reads the bytes of the chunk from
   them and nothing behind it, for the last chunk of one or two bytes as well
   (web/mod.rs:92). *)
THEOREM SextetsTellBytes ==
  ASSUME NEW x \in 0 .. 255, NEW y \in 0 .. 255, NEW z \in 0 .. 255
  PROVE  /\ Told(Sextets(<<x, y, z>>)) = <<x, y, z>>
         /\ Told(Sextets(<<x, y>>)) = <<x, y, 0>>
         /\ Told(Sextets(<<x>>)) = <<x, 0, 0>>
         /\ \A chunk \in {<<x>>, <<x, y>>, <<x, y, z>>} : \A i \in 1 .. 4 :
              Sextets(chunk)[i] \in 0 .. 63
<1>1. Sextets(<<x, y, z>>) = Four(x, y, z)
  BY DEF Sextets, Four
<1>2. Sextets(<<x, y>>) = Four(x, y, 0)
  BY DEF Sextets, Four
<1>3. Sextets(<<x>>) = Four(x, 0, 0)
  BY DEF Sextets, Four
<1>4. 0 \in 0 .. 255
  OBVIOUS
<1>5. /\ Told(Four(x, y, z)) = <<x, y, z>>
      /\ \A i \in 1 .. 4 : Four(x, y, z)[i] \in 0 .. 63
  BY FourTold
<1>6. /\ Told(Four(x, y, 0)) = <<x, y, 0>>
      /\ \A i \in 1 .. 4 : Four(x, y, 0)[i] \in 0 .. 63
  BY <1>4, FourTold
<1>7. /\ Told(Four(x, 0, 0)) = <<x, 0, 0>>
      /\ \A i \in 1 .. 4 : Four(x, 0, 0)[i] \in 0 .. 63
  BY <1>4, FourTold
<1>8. ASSUME NEW chunk \in {<<x>>, <<x, y>>, <<x, y, z>>}
      PROVE  \A i \in 1 .. 4 : Sextets(chunk)[i] \in 0 .. 63
  <2>1. CASE chunk = <<x>>
    BY <1>3, <1>7, <2>1, Zenon
  <2>2. CASE chunk = <<x, y>>
    BY <1>2, <1>6, <2>2, Zenon
  <2>3. CASE chunk = <<x, y, z>>
    BY <1>1, <1>5, <2>3, Zenon
  <2>. QED  BY <2>1, <2>2, <2>3, Zenon
<1>9. Told(Sextets(<<x, y, z>>)) = <<x, y, z>>
  BY <1>1, <1>5, Zenon
<1>10. Told(Sextets(<<x, y>>)) = <<x, y, 0>>
  BY <1>2, <1>6, Zenon
<1>11. Told(Sextets(<<x>>)) = <<x, 0, 0>>
  BY <1>3, <1>7, Zenon
<1>. QED  BY <1>8, <1>9, <1>10, <1>11, Zenon

=============================================================================
