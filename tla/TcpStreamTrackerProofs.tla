----------------------- MODULE TcpStreamTrackerProofs -----------------------
(***************************************************************************)
(* Proofs about TcpStreamTracker, for any endpoints, threshold and         *)
(* segments: TrackerInv is an inductive invariant.  Every key has its      *)
(* smaller endpoint first, which is why a connection has one key only.     *)
(***************************************************************************)
EXTENDS TcpStreamTracker, SequenceTheorems, TLAPS

(* Keys are what StreamKey makes of some pair. *)
KeysOrdered == \A k \in DOMAIN streams : ~Less(k.server, k.client)

(* What TypeOK says of one stream, and NothingOverdue. *)
StreamType(s) ==
  /\ s.data \in Seq(Bytes)
  /\ s.packet_count \in 0 .. Len(s.data)
  /\ s.packet_count = 0 <=> s.data = <<>>

TrackerInv == TypeOK /\ KeysOrdered /\ NothingOverdue

-----------------------------------------------------------------------------
(* The key of a pair. *)

LEMMA KeyFacts ==
  ASSUME NEW src \in Endpoints, NEW dst \in Endpoints
  PROVE  /\ StreamKey(src, dst) \in [client : Endpoints, server : Endpoints]
         /\ ~Less(StreamKey(src, dst).server, StreamKey(src, dst).client)
<1>1. /\ src[1] \in Nat /\ src[2] \in Nat /\ dst[1] \in Nat /\ dst[2] \in Nat
  BY StreamAssumption
<1>2. CASE Less(src, dst)
  <2>1. StreamKey(src, dst) = [client |-> src, server |-> dst]
    BY <1>2 DEF StreamKey
  <2>2. ~Less(dst, src)
    BY <1>1, <1>2 DEF Less
  <2>. QED  BY <2>1, <2>2
<1>3. CASE ~Less(src, dst)
  <2>1. StreamKey(src, dst) = [client |-> dst, server |-> src]
    BY <1>3 DEF StreamKey
  <2>. QED  BY <1>3, <2>1
<1>. QED  BY <1>2, <1>3

(* Endpoints are ordered: one of two different ones is less. *)
LEMMA LessTotal ==
  ASSUME NEW a \in Endpoints, NEW b \in Endpoints, ~Less(a, b), ~Less(b, a)
  PROVE  a = b
<1>1. /\ a \in Nat \X Nat /\ b \in Nat \X Nat
  BY StreamAssumption
<1>2. a[1] = b[1] /\ a[2] = b[2]
  BY <1>1 DEF Less
<1>3. a = <<a[1], a[2]>> /\ b = <<b[1], b[2]>>
  BY <1>1
<1>. QED  BY <1>2, <1>3

(* A key has the two ends of its connection, and is the only one that has. *)
LEMMA KeyEnds ==
  ASSUME NEW a, NEW b
  PROVE  {StreamKey(a, b).client, StreamKey(a, b).server} = {a, b}
<1>1. CASE Less(a, b)
  <2>1. StreamKey(a, b) = [client |-> a, server |-> b]
    BY <1>1 DEF StreamKey
  <2>. QED  BY <2>1
<1>2. CASE ~Less(a, b)
  <2>1. StreamKey(a, b) = [client |-> b, server |-> a]
    BY <1>2 DEF StreamKey
  <2>. QED  BY <2>1
<1>. QED  BY <1>1, <1>2

LEMMA SamePair ==
  ASSUME NEW a, NEW b, NEW c, NEW d, {a, b} = {c, d}
  PROVE  (a = c /\ b = d) \/ (a = d /\ b = c)
<1>1. a \in {c, d} /\ b \in {c, d} /\ c \in {a, b} /\ d \in {a, b}
  OBVIOUS
<1>. QED  BY <1>1

LEMMA KeyUnique ==
  ASSUME NEW k \in [client : Endpoints, server : Endpoints],
         NEW l \in [client : Endpoints, server : Endpoints],
         {k.client, k.server} = {l.client, l.server},
         ~Less(k.server, k.client), ~Less(l.server, l.client)
  PROVE  k = l
<1>1. k.client = l.client /\ k.server = l.server
  <2>1. CASE k.client = l.server /\ k.server = l.client
    <3>1. k.client \in Endpoints /\ k.server \in Endpoints
      OBVIOUS
    <3>2. k.client = k.server
      BY <2>1, <3>1, LessTotal
    <3>. QED  BY <2>1, <3>2
  <2>. QED  BY <2>1, SamePair
<1>. QED  BY <1>1

-----------------------------------------------------------------------------
(* Bytes. *)

LEMMA WireBytes ==
  ASSUME NEW payload \in Payloads
  PROVE  /\ payload \in Seq(PayloadBytes)
         /\ OnTheWire(payload) \in Seq(Bytes)
<1>1. PICK n \in 0 .. MaxSegment : payload \in [1 .. n -> PayloadBytes]
  BY DEF Payloads
<1>2. n \in Nat
  BY <1>1, StreamAssumption
<1>3. payload \in Seq(PayloadBytes) /\ Len(payload) \in Nat
  BY <1>1, <1>2, SeqDef
<1>4. payload \in Seq(Bytes)
  BY <1>3, SeqMonotonic DEF Bytes
<1>. DEFINE pad == [i \in 1 .. MinPayload - Len(payload) |-> PAD]
<1>5. pad \in Seq(Bytes)
  <2>1. MinPayload - Len(payload) \in Int
    BY <1>3, StreamAssumption
  <2>2. PICK m \in Nat : 1 .. MinPayload - Len(payload) = 1 .. m
    <3>1. CASE MinPayload - Len(payload) >= 0
      BY <2>1, <3>1
    <3>2. CASE ~(MinPayload - Len(payload) >= 0)
      <4>1. 1 .. MinPayload - Len(payload) = 1 .. 0
        BY <2>1, <3>2
      <4>. QED  BY <4>1
    <3>. QED  BY <3>1, <3>2
  <2>3. pad \in [1 .. m -> Bytes]
    BY <2>2 DEF Bytes
  <2>. QED  BY <2>3, SeqDef
<1>. QED  BY <1>3, <1>4, <1>5, ConcatProperties DEF OnTheWire

-----------------------------------------------------------------------------
(* TrackerInv is inductive. *)

LEMMA InitTracker == Init => TrackerInv
<1>. SUFFICES ASSUME Init PROVE TrackerInv
  OBVIOUS
<1>1. DOMAIN streams = {}
  BY DEF Init
<1>2. TypeOK
  BY <1>1, StreamAssumption DEF Init, TypeOK
<1>. QED  BY <1>1, <1>2 DEF TrackerInv, KeysOrdered, NothingOverdue

(* A stream is replaced by one that has its type and is not due. *)
LEMMA UpdateTracker ==
  ASSUME TrackerInv,
         NEW key \in [client : Endpoints, server : Endpoints],
         ~Less(key.server, key.client),
         NEW s, StreamType(s), ~ShouldFlush(s.data),
         Update(key, s),
         fed' \in [Connections -> Seq(Bytes)],
         shown' \in [Connections -> Seq(Bytes)],
         carried' \in 0 .. MaxBytes
  PROVE  TrackerInv'
<1>1. /\ DOMAIN streams' = DOMAIN streams \cup {key}
      /\ \A k \in DOMAIN streams' : streams'[k] = IF k = key THEN s ELSE streams[k]
  BY DEF Update
<1>2. /\ DOMAIN streams \subseteq [client : Endpoints, server : Endpoints]
      /\ \A k \in DOMAIN streams : StreamType(streams[k])
  BY DEF TrackerInv, TypeOK, StreamType
<1>3. \A k \in DOMAIN streams' : StreamType(streams'[k])
  BY <1>1, <1>2
<1>4. TypeOK'
  BY <1>1, <1>2, <1>3 DEF TypeOK, StreamType
<1>5. KeysOrdered'
  BY <1>1 DEF TrackerInv, KeysOrdered
<1>6. NothingOverdue'
  <2>. SUFFICES ASSUME NEW k \in DOMAIN streams'
                PROVE  /\ Len(streams'[k].data) < flush_threshold
                       /\ IsHttp(streams'[k].data) => NEWLINE \notin ToSet(streams'[k].data)
    BY DEF NothingOverdue
  <2>1. CASE k = key
    <3>1. streams'[k] = s
      BY <1>1, <2>1
    <3>2. Len(s.data) \in Nat /\ flush_threshold \in Nat
      BY StreamAssumption DEF StreamType
    <3>. QED  BY <3>1, <3>2 DEF ShouldFlush
  <2>2. CASE k # key
    BY <1>1, <2>2 DEF TrackerInv, NothingOverdue
  <2>. QED  BY <2>1, <2>2
<1>. QED  BY <1>4, <1>5, <1>6 DEF TrackerInv

(* A stream that starts over is not due. *)
LEMMA EmptyStreamFacts == StreamType(EmptyStream) /\ ~ShouldFlush(EmptyStream.data)
<1>1. EmptyStream.data = <<>> /\ EmptyStream.packet_count = 0
  BY DEF EmptyStream
<1>2. StreamType(EmptyStream)
  BY <1>1 DEF StreamType
<1>3. ToSet(<<>>) = {}
  BY DEF ToSet
<1>4. ~(Len(<<>>) >= flush_threshold)
  BY StreamAssumption
<1>. QED  BY <1>1, <1>2, <1>3, <1>4 DEF ShouldFlush

LEMMA SegmentTracker ==
  ASSUME TrackerInv,
         NEW src \in Endpoints, NEW dst \in Endpoints, NEW payload \in Payloads,
         carried + Len(OnTheWire(payload)) <= MaxBytes,
         Segment(src, dst, payload)
  PROVE  TrackerInv'
<1>. DEFINE bytes == OnTheWire(payload)
            key == StreamKey(src, dst)
            data == Entry(key).data \o bytes
<1>1. /\ payload \in Seq(PayloadBytes) /\ bytes \in Seq(Bytes) /\ Len(bytes) \in Nat
  BY WireBytes
<1>2. {src, dst} \in Connections
  BY DEF Connections
<1>3. /\ fed \in [Connections -> Seq(Bytes)] /\ shown \in [Connections -> Seq(Bytes)]
      /\ carried \in Nat /\ carried <= MaxBytes /\ MaxBytes \in Nat
  BY StreamAssumption DEF TrackerInv, TypeOK
<1>4. fed' \in [Connections -> Seq(Bytes)]
  <2>1. fed[{src, dst}] \o bytes \in Seq(Bytes)
    BY <1>1, <1>2, <1>3, ConcatProperties
  <2>. QED  BY <1>3, <2>1 DEF Segment
<1>5. carried' \in 0 .. MaxBytes
  BY <1>1, <1>3 DEF Segment
<1>6. /\ key \in [client : Endpoints, server : Endpoints]
      /\ ~Less(key.server, key.client)
  BY KeyFacts
<1>7. StreamType(Entry(key))
  <2>1. CASE key \in DOMAIN streams
    BY <2>1 DEF Entry, TrackerInv, TypeOK, StreamType
  <2>2. CASE key \notin DOMAIN streams
    BY <2>2, EmptyStreamFacts DEF Entry
  <2>. QED  BY <2>1, <2>2
<1>. HIDE DEF key, bytes
<1>8. data \in Seq(Bytes) /\ Len(data) = Len(Entry(key).data) + Len(bytes)
  BY <1>1, <1>7, ConcatProperties DEF StreamType
<1>. HIDE DEF data
<1>9. CASE UNCHANGED <<streams, shown>>
  BY <1>3, <1>4, <1>5, <1>9 DEF TrackerInv, TypeOK, KeysOrdered, NothingOverdue
<1>10. CASE bytes # <<>> /\ ShouldFlush(data) /\ Feed(src, dst, bytes)
  <2>1. /\ Update(key, EmptyStream)
        /\ shown' = [shown EXCEPT ![{src, dst}] = @ \o data]
    BY <1>10 DEF Feed, key, data
  <2>2. shown[{src, dst}] \o data \in Seq(Bytes)
    BY <1>2, <1>3, <1>8, ConcatProperties
  <2>3. shown' \in [Connections -> Seq(Bytes)]
    BY <1>3, <2>1, <2>2
  <2>. QED  BY <1>4, <1>5, <1>6, <2>1, <2>3, EmptyStreamFacts, UpdateTracker
<1>11. CASE bytes # <<>> /\ ~ShouldFlush(data) /\ Feed(src, dst, bytes)
  <2>. DEFINE s == [data |-> data, packet_count |-> Entry(key).packet_count + 1]
  <2>1. Update(key, s) /\ shown' = shown
    BY <1>11 DEF Feed, key, data
  <2>2. Len(bytes) > 0
    BY <1>1, <1>11, EmptySeq
  <2>3. s.data = data /\ s.packet_count = Entry(key).packet_count + 1
    OBVIOUS
  <2>4. s.packet_count \in 1 .. Len(data)
    BY <1>1, <1>7, <1>8, <2>2, <2>3 DEF StreamType
  <2>5. data # <<>>
    BY <2>4
  <2>6. StreamType(s)
    BY <1>8, <2>3, <2>4, <2>5 DEF StreamType
  <2>. HIDE DEF s
  <2>. QED  BY <1>3, <1>4, <1>5, <1>6, <1>11, <2>1, <2>3, <2>6, UpdateTracker
<1>12. \/ UNCHANGED <<streams, shown>>
       \/ Feed(src, dst, bytes)
  BY DEF Segment, bytes
<1>13. Feed(src, dst, bytes) /\ bytes = <<>> => UNCHANGED <<streams, shown>>
  BY DEF Feed
<1>. QED  BY <1>9, <1>10, <1>11, <1>12, <1>13

(* TrackerInv holds in every reachable state of the tracker. *)
THEOREM TrackerInvariant == Spec => []TrackerInv
<1>1. ASSUME TrackerInv, [Next]_vars PROVE TrackerInv'
  <2>1. CASE UNCHANGED vars
    BY <1>1, <2>1 DEF vars, TrackerInv, TypeOK, KeysOrdered, NothingOverdue
  <2>2. CASE Next
    BY <1>1, <2>2, SegmentTracker DEF Next
  <2>. QED  BY <1>1, <2>1, <2>2
<1>. QED  BY <1>1, InitTracker, PTL DEF Spec

(* A stream holds bytes, and counts a packet exactly when it holds some
   (tcp_stream.rs:88, :103). *)
THEOREM TrackerTypes == Spec => []TypeOK
<1>1. TrackerInv => TypeOK
  BY DEF TrackerInv
<1>. QED  BY <1>1, TrackerInvariant, PTL

(* No stream that is due waits after feed has returned (tcp_stream.rs:97). *)
THEOREM DueStreamsFlushed == Spec => []NothingOverdue
<1>1. TrackerInv => NothingOverdue
  BY DEF TrackerInv
<1>. QED  BY <1>1, TrackerInvariant, PTL

(* Both directions of a connection have one stream, whatever the addresses and
   ports of its endpoints (tcp_stream.rs:18). *)
THEOREM DirectionsShareStream == Spec => []OneStreamPerConnection
<1>1. ASSUME TrackerInv PROVE OneStreamPerConnection
  <2>. SUFFICES ASSUME NEW c \in Connections, NEW k \in KeysOf(c), NEW l \in KeysOf(c)
                PROVE  k = l
    BY DEF OneStreamPerConnection
  <2>1. /\ k \in [client : Endpoints, server : Endpoints]
        /\ l \in [client : Endpoints, server : Endpoints]
        /\ {k.client, k.server} = {l.client, l.server}
        /\ ~Less(k.server, k.client) /\ ~Less(l.server, l.client)
    BY <1>1 DEF TrackerInv, TypeOK, KeysOrdered, KeysOf
  <2>. QED  BY <2>1, KeyUnique
<1>. QED  BY <1>1, TrackerInvariant, PTL

-----------------------------------------------------------------------------
(* Conservation, said of pairs of endpoints: their key gives the stream at once. *)

Conserved(a, b) == shown[{a, b}] \o Entry(StreamKey(a, b)).data = fed[{a, b}]

ConservedPairs ==
  \A a, b \in Endpoints : a[1] \notin Ipv6 /\ b[1] \notin Ipv6 => Conserved(a, b)

LEMMA PendingIsEntry ==
  ASSUME TrackerInv, NEW a \in Endpoints, NEW b \in Endpoints
  PROVE  Pending({a, b}) = Entry(StreamKey(a, b)).data
<1>. DEFINE key == StreamKey(a, b)
<1>1. /\ key \in [client : Endpoints, server : Endpoints]
      /\ ~Less(key.server, key.client)
      /\ {key.client, key.server} = {a, b}
  BY KeyFacts, KeyEnds
<1>2. ASSUME NEW k \in KeysOf({a, b}) PROVE k = key
  <2>1. /\ k \in [client : Endpoints, server : Endpoints]
        /\ ~Less(k.server, k.client)
        /\ {k.client, k.server} = {a, b}
    BY <1>2 DEF KeysOf, TrackerInv, TypeOK, KeysOrdered
  <2>. HIDE DEF key
  <2>. QED  BY <1>1, <2>1, KeyUnique
<1>. HIDE DEF key
<1>3. CASE key \in DOMAIN streams
  <2>1. key \in KeysOf({a, b})
    BY <1>1, <1>3 DEF KeysOf
  <2>2. (CHOOSE k \in KeysOf({a, b}) : TRUE) = key
    BY <1>2, <2>1
  <2>. QED  BY <1>3, <2>1, <2>2 DEF Pending, Entry, key
<1>4. CASE key \notin DOMAIN streams
  <2>1. KeysOf({a, b}) = {}
    BY <1>2, <1>4 DEF KeysOf
  <2>. QED  BY <1>4, <2>1 DEF Pending, Entry, EmptyStream, key
<1>. QED  BY <1>3, <1>4

LEMMA EntryType ==
  ASSUME TrackerInv, NEW key
  PROVE  Entry(key).data \in Seq(Bytes)
<1>1. CASE key \in DOMAIN streams
  BY <1>1 DEF Entry, TrackerInv, TypeOK
<1>2. CASE key \notin DOMAIN streams
  BY <1>2, EmptyStreamFacts DEF Entry, StreamType
<1>. QED  BY <1>1, <1>2

(* feed moves the data of one key on, and of no other. *)
LEMMA UpdateEntry ==
  ASSUME NEW key, NEW s, Update(key, s), NEW k
  PROVE  Entry(k)' = IF k = key THEN s ELSE Entry(k)
<1>1. streams' = [l \in DOMAIN streams \cup {key} |-> IF l = key THEN s ELSE streams[l]]
  BY DEF Update
<1>. QED  BY <1>1 DEF Entry

LEMMA FeedConserves ==
  ASSUME TrackerInv, NEW src \in Endpoints, NEW dst \in Endpoints, NEW bytes \in Seq(Bytes),
         shown[{src, dst}] \in Seq(Bytes),
         Conserved(src, dst), Feed(src, dst, bytes),
         fed'[{src, dst}] = fed[{src, dst}] \o bytes
  PROVE  Conserved(src, dst)'
<1>. DEFINE key == StreamKey(src, dst)
            old == Entry(key).data
            was == shown[{src, dst}]
<1>0. /\ shown \in [Connections -> Seq(Bytes)]
      /\ {src, dst} \in Connections
  BY DEF TrackerInv, TypeOK, Connections
<1>1. old \in Seq(Bytes)
  BY EntryType
<1>2. /\ (was \o old) \o bytes = was \o (old \o bytes)
      /\ was \o old \in Seq(Bytes) /\ old \o bytes \in Seq(Bytes)
  <2>1. was \in Seq(Bytes)
    OBVIOUS
  <2>. HIDE DEF was, old
  <2>2. (was \o old) \o bytes = was \o (old \o bytes)
    BY <1>1, <2>1, ConcatAssociative
  <2>3. was \o old \in Seq(Bytes) /\ old \o bytes \in Seq(Bytes)
    BY <1>1, <2>1, ConcatProperties
  <2>. QED  BY <2>2, <2>3
<1>3. fed'[{src, dst}] = was \o (old \o bytes)
  BY <1>2 DEF Conserved
<1>4. StreamKey(src, dst)' = key
  BY DEF StreamKey, Less
<1>. SUFFICES shown'[{src, dst}] \o Entry(key)'.data = was \o (old \o bytes)
  BY <1>3, <1>4 DEF Conserved
<1>5. CASE bytes = <<>>
  <2>1. shown' = shown /\ Entry(key)' = Entry(key)
    BY <1>5 DEF Feed, Entry
  <2>2. old \o bytes = old
    BY <1>1, <1>5, ConcatEmptySeq
  <2>. QED  BY <2>1, <2>2
<1>6. CASE bytes # <<>> /\ ShouldFlush(old \o bytes)
  <2>1. /\ Update(key, EmptyStream)
        /\ shown' = [shown EXCEPT ![{src, dst}] = @ \o (old \o bytes)]
    BY <1>6 DEF Feed
  <2>2. Entry(key)'.data = <<>>
    BY <2>1, UpdateEntry DEF EmptyStream
  <2>3. shown'[{src, dst}] = was \o (old \o bytes)
    BY <1>0, <2>1
  <2>4. was \o (old \o bytes) \in Seq(Bytes)
    BY <1>2, ConcatProperties
  <2>. QED  BY <2>2, <2>3, <2>4, ConcatEmptySeq
<1>7. CASE bytes # <<>> /\ ~ShouldFlush(old \o bytes)
  <2>1. /\ Update(key, [data |-> old \o bytes, packet_count |-> Entry(key).packet_count + 1])
        /\ shown' = shown
    BY <1>7 DEF Feed
  <2>2. Entry(key)'.data = old \o bytes
    BY <2>1, UpdateEntry
  <2>. QED  BY <2>1, <2>2
<1>. QED  BY <1>5, <1>6, <1>7

(* A segment adds to what is known of its own connection only. *)
LEMMA SegmentElsewhere ==
  ASSUME TrackerInv, NEW src \in Endpoints, NEW dst \in Endpoints, NEW payload \in Payloads,
         Segment(src, dst, payload),
         NEW a \in Endpoints, NEW b \in Endpoints, {a, b} # {src, dst}, Conserved(a, b)
  PROVE  Conserved(a, b)'
<1>. DEFINE key == StreamKey(src, dst)
            other == StreamKey(a, b)
<1>1. /\ fed \in [Connections -> Seq(Bytes)] /\ shown \in [Connections -> Seq(Bytes)]
      /\ {a, b} \in Connections
  BY DEF TrackerInv, TypeOK, Connections
<1>2. fed'[{a, b}] = fed[{a, b}]
  BY <1>1 DEF Segment
<1>3. other # key
  BY KeyEnds
<1>4. other' = other
  BY DEF StreamKey, Less
<1>5. shown'[{a, b}] = shown[{a, b}]
  BY <1>1 DEF Segment, Feed
<1>6. Entry(other)' = Entry(other)
  <2>1. CASE streams' = streams
    BY <2>1 DEF Entry
  <2>2. ASSUME NEW s, Update(key, s) PROVE Entry(other)' = Entry(other)
    BY <1>3, <2>2, UpdateEntry
  <2>. HIDE DEF other
  <2>. QED  BY <2>1, <2>2 DEF Segment, Feed
<1>. QED  BY <1>2, <1>4, <1>5, <1>6 DEF Conserved

(* What was displayed of an IPv4 connection, then what its stream holds, is what came
   behind its TCP headers, in order: no byte is lost at a flush, displayed twice or
   taken for another connection's (tcp_stream.rs:102). *)
THEOREM StreamsConserved == Spec => []Conservation
<1>1. Init => ConservedPairs
  <2>. SUFFICES ASSUME Init, NEW a \in Endpoints, NEW b \in Endpoints PROVE Conserved(a, b)
    BY DEF ConservedPairs
  <2>1. {a, b} \in Connections
    BY DEF Connections
  <2>2. Entry(StreamKey(a, b)).data = <<>>
    BY DEF Init, Entry, EmptyStream
  <2>3. <<>> \o <<>> = <<>>
    BY ConcatEmptySeq, EmptySeq
  <2>. QED  BY <2>1, <2>2, <2>3 DEF Init, Conserved
<1>2. ASSUME TrackerInv, ConservedPairs, [Next]_vars PROVE ConservedPairs'
  <2>. SUFFICES ASSUME NEW a \in Endpoints, NEW b \in Endpoints,
                       a[1] \notin Ipv6, b[1] \notin Ipv6
                PROVE  Conserved(a, b)'
    BY DEF ConservedPairs
  <2>1. Conserved(a, b)
    BY <1>2 DEF ConservedPairs
  <2>2. CASE UNCHANGED vars
    BY <2>1, <2>2 DEF vars, Conserved, Entry, StreamKey, Less
  <2>3. CASE Next
    <3>1. PICK src \in Endpoints, dst \in Endpoints, payload \in Payloads :
            Segment(src, dst, payload)
      BY <2>3 DEF Next
    <3>2. CASE {a, b} # {src, dst}
      BY <1>2, <2>1, <3>1, <3>2, SegmentElsewhere
    <3>3. CASE {a, b} = {src, dst}
      <4>1. /\ fed \in [Connections -> Seq(Bytes)] /\ shown \in [Connections -> Seq(Bytes)]
            /\ {src, dst} \in Connections
        BY <1>2 DEF TrackerInv, TypeOK, Connections
      <4>2. fed'[{src, dst}] = fed[{src, dst}] \o OnTheWire(payload)
        BY <3>1, <4>1 DEF Segment
      <4>3. OnTheWire(payload) \in Seq(Bytes) /\ shown[{src, dst}] \in Seq(Bytes)
        BY <4>1, WireBytes
      <4>4. src[1] \notin Ipv6 /\ dst[1] \notin Ipv6
        BY <3>3
      <4>5. Conserved(src, dst)
        BY <1>2, <4>4 DEF ConservedPairs
      <4>6. Feed(src, dst, OnTheWire(payload))
        BY <3>1, <4>4 DEF Segment
      <4>7. Conserved(src, dst)'
        BY <1>2, <4>2, <4>3, <4>5, <4>6, FeedConserves
      <4>8. (a = src /\ b = dst) \/ (a = dst /\ b = src)
        BY <3>3, SamePair
      <4>9. CASE a = dst /\ b = src
        <5>1. StreamKey(a, b) = StreamKey(src, dst)
          <6>. DEFINE k == StreamKey(a, b)
                      l == StreamKey(src, dst)
          <6>1. /\ k \in [client : Endpoints, server : Endpoints] /\ ~Less(k.server, k.client)
                /\ l \in [client : Endpoints, server : Endpoints] /\ ~Less(l.server, l.client)
            BY KeyFacts
          <6>2. {k.client, k.server} = {l.client, l.server}
            BY <3>3, KeyEnds
          <6>. HIDE DEF k, l
          <6>3. k = l
            BY <6>1, <6>2, KeyUnique
          <6>. QED  BY <6>3 DEF k, l
        <5>2. StreamKey(a, b)' = StreamKey(a, b) /\ StreamKey(src, dst)' = StreamKey(src, dst)
          BY DEF StreamKey, Less
        <5>. QED  BY <3>3, <4>7, <5>1, <5>2 DEF Conserved
      <4>. QED  BY <4>7, <4>8, <4>9
    <3>. QED  BY <3>2, <3>3
  <2>. QED  BY <1>2, <2>2, <2>3
<1>3. ASSUME TrackerInv, ConservedPairs PROVE Conservation
  <2>. SUFFICES ASSUME NEW c \in Connections, \A e \in c : e[1] \notin Ipv6
                PROVE  shown[c] \o Pending(c) = fed[c]
    BY DEF Conservation
  <2>1. PICK a \in Endpoints, b \in Endpoints : c = {a, b}
    BY DEF Connections
  <2>. QED  BY <1>3, <2>1, PendingIsEntry DEF ConservedPairs, Conserved
<1>. QED  BY <1>1, <1>2, <1>3, TrackerInvariant, PTL DEF Spec

=============================================================================
