------------------------------ MODULE MCNetZer ------------------------------
(***************************************************************************)
(* Instances of NetZer for TLC.  Long sequences of few frames, for the     *)
(* order of things; single frames with many names, for truncate.  The dump *)
(* process_packet prints of a frame changes no state: it is checked here   *)
(* as a function.                                                          *)
(***************************************************************************)
EXTENDS NetZer, Hexdump

Packet(proto, sport, dport, app, name) ==
  [len |-> 74, ethertype |-> ETH_IPV4, ihl |-> 5, proto |-> proto,
   sport |-> sport, dport |-> dport, doff |-> 5, app |-> app, name |-> name, breaks |-> app = "response"]

Query(name) == Packet(UDP, 51000, DNS_PORT, "query", name)
Hello(name) == Packet(TCP, 51000, HTTPS, "hello", name)

Runt == [Packet(TCP, 80, 51000, "other", <<>>) EXCEPT !.len = 13]
Plain == Packet(TCP, 51000, 22, "other", <<>>)
Response == Packet(TCP, 80, 51000, "response", <<>>)
Request == [Packet(TCP, 51000, 80, "request", <<>>) EXCEPT !.ethertype = ETH_IPV6, !.len = 100]
EmptyRecord == Packet(TCP, 51000, HTTPS, "empty_record", <<>>)
Cjk == Query(<<3, 3, 3, 3, 3>>)
Broken == [Query(<<1, 1>>) EXCEPT !.breaks = TRUE]

Names == [1 .. 4 -> 1 .. 4] \cup [1 .. 5 -> {1, 3}]

MCTraffic ==
  {<<Plain, Response, Cjk>>, <<Runt, Plain, EmptyRecord>>, <<Plain, Plain, Request>>,
   <<Broken, Plain>>}
  \cup {<<Query(n)>> : n \in Names}
  \cup {<<Hello([i \in 1 .. 10 |-> w])>> : w \in 1 .. 4}

\* A dump shows every byte once, in order, and the text column stands in one place.
ASSUME DumpComplete ==
  \A n \in 0 .. 35 :
    LET data == [i \in 1 .. n |-> "byte"]
        dump == Dump(data)
    IN /\ FlattenSeq([k \in DOMAIN dump |-> dump[k].text]) = data
       /\ \A k \in DOMAIN dump :
            /\ dump[k].offset = 16 * (k - 1)
            /\ dump[k].hex \in [1 .. 17 -> {"byte", "gap", "blank"}]
            /\ SelectSeq(dump[k].hex, LAMBDA c : c = "byte") = dump[k].text
            /\ \A i \in 1 .. 17 : dump[k].hex[i] = "gap" <=> i = 9

MCOptions == {{"pcap", "json", "feed"}, {"feed"}, {"pcap"}}

=============================================================================
