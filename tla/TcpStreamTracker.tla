-------------------------- MODULE TcpStreamTracker --------------------------
(***************************************************************************)
(* TCP stream reassembly: StreamKey and TcpStreamTracker of netzer-core    *)
(* (src/netzer-core/src/tcp_stream.rs), fed by process_packet of main.rs   *)
(* with what TcpHeader::parse leaves behind the TCP header of a frame.     *)
(*                                                                         *)
(* An endpoint is a pair <<ip, port>>, a connection the set of its two     *)
(* endpoints.  Of the bytes of a stream the model keeps what the tracker   *)
(* tells apart: the two halves of a request token ("GET ", "HTTP/", ...),  *)
(* which segments may split, newlines, and the zeros an Ethernet adapter   *)
(* pads short frames with.                                                 *)
(***************************************************************************)
EXTENDS Integers, Sequences, SequencesExt

CONSTANTS
  Endpoints,         \* <<ip, port>> pairs
  Ipv6,              \* the addresses that are IPv6 addresses
  MinPayload,        \* shorter TCP payloads are padded on the wire
  flush_threshold,   \* bytes that make a stream due (4096 in the code)
  MaxSegment,        \* bound: bytes of payload in a segment
  MaxBytes           \* bound: bytes the network carries, padding included

ASSUME StreamAssumption ==
  /\ Endpoints \subseteq Nat \X Nat
  /\ flush_threshold \in Nat \ {0}
  /\ {MinPayload, MaxSegment, MaxBytes} \subseteq Nat

VARIABLES
  streams,     \* the tracker: a function from keys to [data, packet_count]
  fed,         \* history: what came behind the TCP headers of each connection
  shown,       \* history: what was displayed of each connection
  carried      \* bytes the network has carried so far

vars == <<streams, fed, shown, carried>>

TOKEN_HEAD == "GE"
TOKEN_TAIL == "T "
NEWLINE == "newline"
PAD == "pad"
PayloadBytes == {TOKEN_HEAD, TOKEN_TAIL, NEWLINE}
Bytes == PayloadBytes \cup {PAD}

Connections == {{a, b} : a \in Endpoints, b \in Endpoints}

\* Pairs are compared as Rust compares tuples: by ip, then by port.
Less(a, b) == a[1] < b[1] \/ (a[1] = b[1] /\ a[2] < b[2])

\* seeded fault: the two sides are put in order by ip only
StreamKey_ByIp(src, dst) ==
  IF src[1] < dst[1] THEN [client |-> src, server |-> dst]
                     ELSE [client |-> dst, server |-> src]

\* StreamKey::new: the smaller endpoint first, so both directions share a key.
StreamKey(src, dst) ==
  IF Less(src, dst) THEN [client |-> src, server |-> dst]
                    ELSE [client |-> dst, server |-> src]

EmptyStream == [data |-> <<>>, packet_count |-> 0]

\* entry(key).or_insert_with.
Entry(key) == IF key \in DOMAIN streams THEN streams[key] ELSE EmptyStream

IsHttp(data) == IsPrefix(<<TOKEN_HEAD, TOKEN_TAIL>>, data)

\* seeded fault: a stream is due only beyond the threshold
ShouldFlush_Beyond(data) ==
  \/ Len(data) > flush_threshold
  \/ IsHttp(data) /\ NEWLINE \in ToSet(data)

ShouldFlush(data) ==
  \/ Len(data) >= flush_threshold
  \/ IsHttp(data) /\ NEWLINE \in ToSet(data)

Init ==
  /\ streams = <<>>
  /\ fed = [c \in Connections |-> <<>>]
  /\ shown = [c \in Connections |-> <<>>]
  /\ carried = 0

-----------------------------------------------------------------------------
\* The stream of a key becomes s.
Update(key, s) ==
  streams' = [k \in DOMAIN streams \cup {key} |-> IF k = key THEN s ELSE streams[k]]

\* seeded fault: the data displayed is not cleared
Feed_NoClear(src, dst, bytes) ==
  LET key == StreamKey(src, dst)
      data == Entry(key).data \o bytes
  IN IF bytes = <<>>
     THEN UNCHANGED <<streams, shown>>
     ELSE IF ShouldFlush(data)
     THEN /\ Update(key, [data |-> data, packet_count |-> 0])
          /\ shown' = [shown EXCEPT ![{src, dst}] = @ \o data]
     ELSE /\ Update(key, [data |-> data, packet_count |-> Entry(key).packet_count + 1])
          /\ UNCHANGED shown

\* feed: an empty payload does nothing; a stream that is due is handed to
\* process_packet, which prints it at once, and starts over.
Feed(src, dst, bytes) ==
  LET key == StreamKey(src, dst)
      data == Entry(key).data \o bytes
  IN IF bytes = <<>>
     THEN UNCHANGED <<streams, shown>>
     ELSE IF ShouldFlush(data)
     THEN /\ Update(key, EmptyStream)
          /\ shown' = [shown EXCEPT ![{src, dst}] = @ \o data]
     ELSE /\ Update(key, [data |-> data, packet_count |-> Entry(key).packet_count + 1])
          /\ UNCHANGED shown

\* What is behind the TCP header in the frame: neither Ipv4Header::parse nor
\* TcpHeader::parse looks at the total length, so padding counts.
OnTheWire(payload) ==
  payload \o [i \in 1 .. MinPayload - Len(payload) |-> PAD]

\* A TCP segment is captured.  process_packet feeds the tracker for IPv4 only.
Segment(src, dst, payload) ==
  /\ fed' = [fed EXCEPT ![{src, dst}] = @ \o OnTheWire(payload)]
  /\ carried' = carried + Len(OnTheWire(payload))
  /\ IF src[1] \in Ipv6
       THEN UNCHANGED <<streams, shown>>
       ELSE Feed(src, dst, OnTheWire(payload))

Payloads == UNION {[1 .. n -> PayloadBytes] : n \in 0 .. MaxSegment}

Next ==
  \E src, dst \in Endpoints : \E payload \in Payloads :
    /\ src # dst
    /\ src[1] \in Ipv6 <=> dst[1] \in Ipv6
    /\ carried + Len(OnTheWire(payload)) <= MaxBytes
    /\ Segment(src, dst, payload)

Spec == Init /\ [][Next]_vars

-----------------------------------------------------------------------------
(* Properties. *)

\* Every variable has its type; a stream that holds no data counts no packet
\* (tcp_stream.rs:88, :103).
TypeOK ==
  /\ DOMAIN streams \subseteq [client : Endpoints, server : Endpoints]
  /\ \A k \in DOMAIN streams :
       /\ streams[k].data \in Seq(Bytes)
       /\ streams[k].packet_count \in 0 .. Len(streams[k].data)
       /\ streams[k].packet_count = 0 <=> streams[k].data = <<>>
  /\ fed \in [Connections -> Seq(Bytes)]
  /\ shown \in [Connections -> Seq(Bytes)]
  /\ carried \in 0 .. MaxBytes

\* The streams of the tracker that belong to a connection.
KeysOf(c) == {k \in DOMAIN streams : {k.client, k.server} = c}

\* Both directions of a connection, between two processes of one host included,
\* accumulate in one stream (tcp_stream.rs:18).
OneStreamPerConnection ==
  \A c \in Connections : \A k, l \in KeysOf(c) : k = l

Accumulated(c) == UNION {ToSet(streams[k].data) : k \in KeysOf(c)}

Pending(c) ==
  IF KeysOf(c) = {} THEN <<>> ELSE streams[CHOOSE k \in KeysOf(c) : TRUE].data

\* What was displayed of an IPv4 connection, then what its stream holds, is what came
\* behind its TCP headers: nothing is lost at a flush or displayed twice, nothing of
\* another connection is mixed in, and the order is kept (tcp_stream.rs:102).
Conservation ==
  \A c \in Connections :
    (\A e \in c : e[1] \notin Ipv6) => shown[c] \o Pending(c) = fed[c]

\* No stream waits that is due: none has reached the threshold, none that begins
\* with an HTTP token, wherever segments split it, has a line (tcp_stream.rs:97).
NothingOverdue ==
  \A k \in DOMAIN streams :
    /\ Len(streams[k].data) < flush_threshold
    /\ IsHttp(streams[k].data) => NEWLINE \notin ToSet(streams[k].data)

\* tcp_stream.rs:39 says of data: "All accumulated payload bytes so far".
OnlyPayload ==
  \A c \in Connections : PAD \notin Accumulated(c) \cup ToSet(shown[c])

=============================================================================
